----------------------------- MODULE Stores_proofs -----------------------------
(***************************************************************************)
(* Proofs about the two components with tables of their own in the         *)
(* database.  The installed themes: for every set of themes, versions and  *)
(* members and for every quota, a row has its files at every step of an    *)
(* install, a delete or a crash between them, and what was chosen can be   *)
(* found.  The viewing statistics: for every number of requests, accounts  *)
(* and play sessions and for every clock, what is credited is elapsed      *)
(* time, a failed write is tried again, and what the panel shows and what  *)
(* its form would save is about the account the server has now.            *)
(***************************************************************************)
EXTENDS ThemeStore, UpstreamActivity, TLAPS

(***************************************************************************)
(* The installed themes.                                                   *)
(***************************************************************************)

\* Types.  What an operation has left to do is known by its step.
Installs == [step : {"stage", "rename", "commit", "publish"}, version : Versions,
             before : Versions \union {Nil}, prune : SUBSET (Versions \union {Nil}), created : BOOLEAN]
Forgets == [step : {"forget"}, theme : Themes, gone : SUBSET Versions]
Removals == [step : {"remove"}, gone : SUBSET Versions]
Operations == {NoOp} \union Installs \union Forgets \union Removals
Sites == [theme : Themes \union {Builtin}, rev : Nat]

DatabaseTypeOK ==
  /\ themeRows \in [Themes -> Rows \union {Nil}] /\ registered \in SUBSET Versions
  /\ site \in Sites /\ prefs \in [Members -> Selections \union {Nil}]
MemoryTypeOK ==
  /\ entries \in [Themes -> Entries \union {Nil}] /\ versions \in SUBSET Versions
  /\ siteCopy \in Sites
FilesTypeOK ==
  /\ dirs \in [Versions -> {"absent", "intact", "damaged"}] /\ staging \in Versions \union {Nil}
ThemeTypeOK ==
  /\ DatabaseTypeOK /\ MemoryTypeOK /\ FilesTypeOK
  /\ up \in BOOLEAN /\ op \in Operations /\ revision \in Nat /\ losses \in Nat

\* The versions of a theme are its own, and no version is kept twice.
Owned(table) ==
  \A t \in Themes : table[t] # Nil =>
    /\ table[t].current # Nil => Owner[table[t].current] = t
    /\ table[t].previous # Nil => Owner[table[t].previous] = t /\ table[t].current # table[t].previous

\* The theme whose row has changed and whose entry has not, and the versions that have
\* left the database and not the memory.
Unsettled == IF op.step = "publish" THEN {Owner[op.version]}
             ELSE IF op.step = "forget" THEN {op.theme} ELSE {}
Dropped == IF op.step = "publish" THEN Pruned(op)
           ELSE IF op.step = "forget" THEN op.gone ELSE {}

\* An entry says what its row says; of a previous version it may know nothing.
Agrees(t) ==
  /\ (entries[t] = Nil) = (themeRows[t] = Nil)
  /\ entries[t] # Nil =>
       /\ entries[t].current = themeRows[t].current /\ entries[t].rev = themeRows[t].rev
       /\ entries[t].enabled = themeRows[t].enabled
       /\ entries[t].previous # Nil => entries[t].previous = themeRows[t].previous

MemoryFollows ==
  /\ up => \A t \in Themes \ Unsettled : Agrees(t)
  /\ \A t \in Themes : entries[t] # Nil => entries[t].available = (entries[t].current # Nil)
  /\ versions = KeptVersions(entries)
  /\ ~up => op = NoOp

\* What an install remembers of the theme, and what is left when its row has changed.
InstallSound ==
  op \in Installs =>
    /\ op.before # op.version /\ (op.step = "stage" => ~op.created)
    /\ op.before # Nil => op.before \in versions /\ Owner[op.before] = Owner[op.version]
    /\ \A w \in op.prune : w # Nil => Owner[w] = Owner[op.version]
    /\ op.step = "publish" => LET r == themeRows[Owner[op.version]] IN
         r # Nil /\ r.current = op.version /\ r.previous = op.before
RemovalSound ==
  /\ op.step = "forget" =>
       /\ themeRows[op.theme] = Nil /\ entries[op.theme] # Nil
       /\ op.gone = {entries[op.theme].current, entries[op.theme].previous} \ {Nil}
  /\ op.step = "remove" => op.gone \intersect versions = {}

\* Without damage by others: the current version of a row, what the memory knows, and
\* the version an install is about to name, are there.
RowsBacked == \A t \in Themes : themeRows[t] # Nil =>
                themeRows[t].current # Nil /\ Recoverable(themeRows[t].current)
MemoryBacked == \A v \in versions : dirs[v] = "intact" /\ (v \notin Dropped => v \in registered)
InstallBacked ==
  op \in Installs =>
    /\ op.step = "commit" => dirs[op.version] = "intact"
    /\ op.step = "rename" \/ (op.step = "commit" /\ op.created) => op.version \notin versions
Backed == losses = 0 => RowsBacked /\ MemoryBacked /\ InstallBacked

ThemeInv ==
  /\ ThemeTypeOK
  /\ Owned(themeRows) /\ Owned(entries)
  /\ MemoryFollows /\ InstallSound /\ RemovalSound
  /\ Backed
  /\ SelectionsResolve

-----------------------------------------------------------------------------
\* What the memory keeps of the versions.
LEMMA KeptMeans ==
  ASSUME NEW es, NEW w
  PROVE  w \in KeptVersions(es) <=>
           w # Nil /\ \E t \in Themes : es[t] # Nil /\ (w = es[t].current \/ w = es[t].previous)
BY DEF KeptVersions, Installed

\* The names of a theme, of a version and of nothing are different, and so is a record.
LEMMA Names ==
  /\ \A v \in Versions : v # Nil /\ v # Builtin /\ v # Site /\ Owner[v] \in Themes
  /\ \A t \in Themes : t # Nil /\ t # Builtin /\ t # Site
  /\ Builtin # Site /\ Builtin # Nil /\ Site # Nil
  /\ \A r \in Rows : r # Nil
  /\ \A e \in Entries : e # Nil
  /\ \A c \in Selections : c # Nil
BY ThemeAssumption, NilIsAbsence

LEMMA ThemeInitHolds == ThemeInit => ThemeInv
<1> SUFFICES ASSUME ThemeInit PROVE ThemeInv
  OBVIOUS
<1>1. ThemeTypeOK
  BY Names DEF ThemeInit, ThemeTypeOK, DatabaseTypeOK, MemoryTypeOK, FilesTypeOK, Operations, Sites, NoOp
<1>2. versions = KeptVersions(entries)
  BY KeptMeans DEF ThemeInit
<1>3. /\ Owned(themeRows) /\ Owned(entries)
      /\ MemoryFollows /\ InstallSound /\ RemovalSound /\ Backed /\ SelectionsResolve
  BY <1>2, Names DEF ThemeInit, Owned, MemoryFollows, Agrees, InstallSound, RemovalSound, Backed, Unsettled,
     RowsBacked, MemoryBacked, InstallBacked, SelectionsResolve, NoOp, Installs
<1> QED
  BY <1>1, <1>3 DEF ThemeInv

\* What the beginning of an install does, its choices named.
LEMMA BeginMeans ==
  ASSUME ThemeInv, NEW v \in Versions, BeginInstall(v)
  PROVE  \E give \in SUBSET Versions :
           LET t == Owner[v] e == entries[t] IN
           /\ give # {} => e # Nil /\ e.previous \notin {Nil, e.current, v} /\ e.current # v
                           /\ give = {e.previous}
           /\ dirs' \in [Versions -> {"absent", "intact", "damaged"}]
           /\ \A w \in Versions \ give : w \in versions => dirs'[w] = dirs[w]
           /\ entries' = IF give = {} THEN entries ELSE [entries EXCEPT ![t].previous = Nil]
           /\ versions' = versions \ give
           /\ \/ op' = NoOp
              \/ op' = [step |-> "stage", version |-> v, before |-> NextPrevious(t, v),
                        prune |-> ({IF e = Nil THEN Nil ELSE e.previous} \union give),
                        created |-> FALSE]
<1> DEFINE t == Owner[v]
           e == entries[t]
<1>1. PICK stuck \in SUBSET {w \in Versions : Present(w)} :
         LET clean == Purged(stuck)
             new == NewBytes(t, v)
             give == IF new > 0 /\ ~Fits(clean, new) THEN Reclaimable(t, v) ELSE {}
             ds == Without(clean, give)
             old == IF e = Nil THEN Nil ELSE e.previous
         IN /\ dirs' = ds /\ staging' = Nil
            /\ entries' = IF give = {} THEN entries
                          ELSE [entries EXCEPT ![t].previous = Nil]
            /\ versions' = versions \ give
            /\ op' = IF new > 0 /\ ~Fits(ds, new) THEN NoOp
                     ELSE [step |-> "stage", version |-> v, before |-> NextPrevious(t, v),
                           prune |-> ({old} \union give), created |-> FALSE]
  BY DEF BeginInstall
<1> DEFINE new == NewBytes(t, v)
           give == IF new > 0 /\ ~Fits(Purged(stuck), new) THEN Reclaimable(t, v) ELSE {}
           ds == Without(Purged(stuck), give)
<1>2. e # Nil => e \in Entries
  BY Names DEF ThemeInv, ThemeTypeOK, MemoryTypeOK
<1>3. give \in SUBSET Versions
  BY <1>2 DEF Reclaimable, Entries
<1>4. give # {} => /\ e # Nil /\ e.previous \notin {Nil, e.current, v} /\ e.current # v
                   /\ give = {e.previous}
  BY <1>2 DEF Reclaimable, NewBytes
<1>5. /\ ds \in [Versions -> {"absent", "intact", "damaged"}]
      /\ \A w \in Versions \ give : w \in versions => ds[w] = dirs[w]
  <2>1. versions = KeptVersions(entries) /\ dirs \in [Versions -> {"absent", "intact", "damaged"}]
    BY DEF ThemeInv, MemoryFollows, ThemeTypeOK, FilesTypeOK
  <2> HIDE DEF give
  <2>2. Purged(stuck) \in [Versions -> {"absent", "intact", "damaged"}]
        /\ \A w \in versions : w \in Versions => Purged(stuck)[w] = dirs[w]
    BY <2>1 DEF Purged, Without
  <2> QED
    BY <2>1, <2>2 DEF Without
<1>6. /\ dirs' = ds
      /\ entries' = IF give = {} THEN entries ELSE [entries EXCEPT ![t].previous = Nil]
      /\ versions' = versions \ give
      /\ op' = IF new > 0 /\ ~Fits(ds, new) THEN NoOp
               ELSE [step |-> "stage", version |-> v, before |-> NextPrevious(t, v),
                     prune |-> ({IF e = Nil THEN Nil ELSE e.previous} \union give), created |-> FALSE]
  BY <1>1
<1> HIDE DEF give, ds, new
<1> QED
  BY <1>3, <1>4, <1>5, <1>6

LEMMA BeginKeeps ==
  ASSUME ThemeInv, NEW v \in Versions, BeginInstall(v)
  PROVE  ThemeInv'
<1> DEFINE t == Owner[v]
           e == entries[t]
<1>1. PICK give \in SUBSET Versions :
         /\ give # {} => e # Nil /\ e.previous \notin {Nil, e.current, v} /\ e.current # v
                         /\ give = {e.previous}
         /\ dirs' \in [Versions -> {"absent", "intact", "damaged"}]
         /\ \A w \in Versions \ give : w \in versions => dirs'[w] = dirs[w]
         /\ entries' = IF give = {} THEN entries ELSE [entries EXCEPT ![t].previous = Nil]
         /\ versions' = versions \ give
         /\ \/ op' = NoOp
            \/ op' = [step |-> "stage", version |-> v, before |-> NextPrevious(t, v),
                      prune |-> ({IF e = Nil THEN Nil ELSE e.previous} \union give),
                      created |-> FALSE]
  BY BeginMeans
<1>2. /\ up /\ op = NoOp /\ staging' = Nil /\ UNCHANGED <<database, siteCopy, up, revision, losses>>
      /\ t \in Themes
  BY Names DEF BeginInstall, Ready
<1> USE Names
<1>3. e # Nil => e \in Entries
  BY <1>2 DEF ThemeInv, ThemeTypeOK, MemoryTypeOK
<1>4. NextPrevious(t, v) \in Versions \union {Nil} /\ NextPrevious(t, v) # v
  BY <1>3 DEF NextPrevious, Entries
<1>5. MemoryTypeOK'
  BY <1>1, <1>2, <1>3 DEF ThemeInv, ThemeTypeOK, MemoryTypeOK, Entries
<1>6. op' \in Operations
  <2>1. {IF e = Nil THEN Nil ELSE e.previous} \union give \in SUBSET (Versions \union {Nil})
    BY <1>3 DEF Entries
  <2>2. \A b \in Versions \union {Nil}, p \in SUBSET (Versions \union {Nil}) :
          [step |-> "stage", version |-> v, before |-> b, prune |-> p, created |-> FALSE] \in Installs
    BY DEF Installs
  <2> QED
    <3> DEFINE old == {IF e = Nil THEN Nil ELSE e.previous} \union give
    <3>2. [step |-> "stage", version |-> v, before |-> NextPrevious(t, v), prune |-> old,
           created |-> FALSE] \in Installs
      <4> HIDE DEF old, Installs
      <4> QED
        BY <1>4, <2>1, <2>2 DEF old
    <3>1. op' = NoOp \/ op' \in Installs
      <4> HIDE DEF Installs
      <4> QED
        BY <1>1, <3>2
    <3> QED
      BY <3>1 DEF Operations
<1>7. ThemeTypeOK'
  BY <1>1, <1>2, <1>5, <1>6 DEF ThemeInv, ThemeTypeOK, DatabaseTypeOK, FilesTypeOK, database
<1>8. Owned(entries') /\ Owned(themeRows')
  BY <1>1, <1>2, <1>3 DEF ThemeInv, ThemeTypeOK, MemoryTypeOK, Owned, Entries, database
<1>9. versions' = KeptVersions(entries')
  <2>1. versions = KeptVersions(entries)
    BY DEF ThemeInv, MemoryFollows
  <2>2. ASSUME give # {} PROVE \A w : w \in KeptVersions(entries') <=> w \in versions \ give
    <3>1. \A s \in Themes : /\ (entries'[s] # Nil) = (entries[s] # Nil)
                            /\ s # t => entries'[s] = entries[s]
      BY <1>1, <1>2, <1>3, <2>2, <1>5 DEF ThemeInv, ThemeTypeOK, MemoryTypeOK, Entries
    <3>2. entries'[t].current = e.current /\ entries'[t].previous = Nil
      BY <1>1, <1>2, <1>3, <2>2 DEF ThemeInv, ThemeTypeOK, MemoryTypeOK, Entries
    <3>3. Owner[e.previous] = t /\ e.previous # Nil /\ e.previous # e.current /\ give = {e.previous} /\ e # Nil
      BY <1>1, <1>2, <2>2 DEF ThemeInv, Owned
    <3>4. \A s \in Themes : s # t /\ entries[s] # Nil => entries[s].current # e.previous /\ entries[s].previous # e.previous
      BY <3>3, <1>2 DEF ThemeInv, Owned
    <3> HIDE DEF e, t
    <3> QED
      BY <2>1, <3>1, <3>2, <3>3, <3>4, <1>2, KeptMeans DEF e
  <2> QED
    BY <1>1, <2>1, <2>2
<1>10. \A s \in Themes : Agrees(s)'
  BY <1>1, <1>2, <1>3 DEF ThemeInv, MemoryFollows, Agrees, Unsettled, NoOp, ThemeTypeOK, MemoryTypeOK, Entries, database
<1>11. MemoryFollows'
  BY <1>1, <1>2, <1>3, <1>9, <1>10 DEF ThemeInv, MemoryFollows, ThemeTypeOK, MemoryTypeOK, Entries
<1>12. InstallSound'
  <2>1. NextPrevious(t, v) # Nil => NextPrevious(t, v) \in versions \ give /\ Owner[NextPrevious(t, v)] = t
    <3>1. e # Nil => \A w \in {e.current, e.previous} : w # Nil => w \in versions /\ Owner[w] = t
      BY <1>2, KeptMeans DEF ThemeInv, MemoryFollows, Owned
    <3> QED
      BY <3>1, <1>1, <1>3 DEF NextPrevious
  <2>2. e # Nil /\ e.previous # Nil => Owner[e.previous] = t
    BY <1>2 DEF ThemeInv, Owned
  <2> HIDE DEF t
  <2> QED
    BY <1>1, <1>4, <2>1, <2>2 DEF InstallSound, Installs, NoOp, t
<1>13. RemovalSound'
  BY <1>1 DEF RemovalSound, NoOp
<1>14. Backed'
  <2>1. op.step = "none" /\ op' # [step |-> "forget"] /\ op'.step \in {"none", "stage"}
    BY <1>1, <1>2 DEF NoOp
  <2>2. ASSUME losses = 0, RowsBacked, MemoryBacked, NEW s \in Themes, themeRows[s] # Nil
        PROVE  themeRows[s].current \in versions \ give
    <3>1. Agrees(s) /\ themeRows[s].current # Nil
      BY <2>2, <2>1, <1>2 DEF ThemeInv, MemoryFollows, Unsettled, RowsBacked
    <3>2. entries[s] # Nil /\ entries[s].current \in versions /\ entries[s].current = themeRows[s].current
      BY <3>1, <2>2, KeptMeans DEF ThemeInv, MemoryFollows, Agrees
    <3>3. give # {} => Owner[e.previous] = t /\ e.previous # e.current /\ give = {e.previous}
      BY <1>1, <1>2 DEF ThemeInv, Owned
    <3>4. Owner[entries[s].current] = s
      BY <3>1, <3>2 DEF ThemeInv, Owned
    <3> HIDE DEF t, e
    <3> QED
      BY <3>2, <3>3, <3>4 DEF e
  <2>3. versions \subseteq Versions
    BY DEF ThemeInv, ThemeTypeOK, MemoryTypeOK
  <2>4. ASSUME losses = 0 PROVE RowsBacked'
    BY <1>1, <1>2, <2>2, <2>3, <2>4 DEF ThemeInv, Backed, RowsBacked, Recoverable, database
  <2>5. ASSUME losses = 0 PROVE MemoryBacked'
    BY <1>1, <1>2, <2>1, <2>3, <2>5 DEF ThemeInv, Backed, MemoryBacked, Dropped, database
  <2>6. InstallBacked'
    BY <2>1 DEF InstallBacked
  <2> QED
    BY <1>2, <2>4, <2>5, <2>6 DEF Backed
<1>15. SelectionsResolve'
  <2>1. \A s \in Themes : Selectable(s) => Selectable(s)'
    BY <1>1, <1>2, <1>3 DEF ThemeInv, ThemeTypeOK, MemoryTypeOK, Selectable, Entries
  <2>2. site.theme # Builtin => site.theme \in Themes
    BY DEF ThemeInv, ThemeTypeOK, DatabaseTypeOK, Sites
  <2> QED
    BY <1>2, <2>1, <2>2 DEF ThemeInv, SelectionsResolve, database
<1> QED
  BY <1>7, <1>8, <1>11, <1>12, <1>13, <1>14, <1>15 DEF ThemeInv

\* An operation is known by its step.
LEMMA StepMeans ==
  ASSUME ThemeInv
  PROVE  /\ op.step \in {"none", "stage", "rename", "commit", "publish", "forget", "remove"}
         /\ op \in Installs <=> op.step \in {"stage", "rename", "commit", "publish"}
         /\ op.step = "forget" <=> op \in Forgets
         /\ op.step = "remove" <=> op \in Removals
         /\ op.step = "none" <=> op = NoOp
BY DEF ThemeInv, ThemeTypeOK, Operations, Installs, Forgets, Removals, NoOp

\* What stays when only files change and no theme is between its row and its entry.
LEMMA FilesOnly ==
  ASSUME ThemeInv, UNCHANGED <<database, memory, up, revision>>, losses' \in Nat, FilesTypeOK',
         op' \in Operations, ~up => op' = op,
         Unsettled = {} \/ op' = op, op'.step \notin {"publish", "forget"} \/ op' = op
  PROVE  /\ ThemeTypeOK' /\ Owned(themeRows)' /\ Owned(entries)'
         /\ MemoryFollows' /\ SelectionsResolve'
<1>1. /\ themeRows' = themeRows /\ registered' = registered /\ site' = site /\ prefs' = prefs
      /\ entries' = entries /\ versions' = versions /\ siteCopy' = siteCopy /\ up' = up
      /\ revision' = revision
  BY DEF database, memory
<1>2. ThemeTypeOK'
  BY <1>1 DEF ThemeInv, ThemeTypeOK, DatabaseTypeOK, MemoryTypeOK
<1>3. Owned(themeRows)' /\ Owned(entries)'
  BY <1>1 DEF ThemeInv, Owned
<1>4. \A t \in Themes : Agrees(t)' = Agrees(t)
  BY <1>1 DEF Agrees
<1>5. Unsettled' = Unsettled
  BY DEF Unsettled
<1>6. MemoryFollows'
  BY <1>1, <1>4, <1>5 DEF ThemeInv, MemoryFollows
<1>7. SelectionsResolve'
  BY <1>1 DEF ThemeInv, SelectionsResolve, Selectable
<1> QED
  BY <1>2, <1>3, <1>6, <1>7

\* While memory and database agree, the current version of every row is one the memory
\* keeps, and what belongs to other themes is other versions.
LEMMA SettledRows ==
  ASSUME ThemeInv, up, Unsettled = {}, NEW t \in Themes, themeRows[t] # Nil, themeRows[t].current # Nil
  PROVE  themeRows[t].current \in versions /\ Owner[themeRows[t].current] = t
BY KeptMeans DEF ThemeInv, MemoryFollows, Agrees, Owned

LEMMA StageKeeps ==
  ASSUME ThemeInv, Stage
  PROVE  ThemeInv'
<1> DEFINE v == op.version
<1> USE Names
<1>1. /\ up /\ op.step = "stage" /\ op \in Installs /\ v \in Versions
      /\ UNCHANGED <<database, memory, up, revision, losses>>
  BY StepMeans DEF Stage, Installs
<1>2. \/ Present(v) /\ v \in versions /\ dirs[v] = "intact" /\ op' = [op EXCEPT !.step = "commit"] /\ UNCHANGED files
      \/ Present(v) /\ v \in versions /\ op' = NoOp /\ UNCHANGED files
      \/ /\ ~(Present(v) /\ v \in versions) /\ dirs' = [dirs EXCEPT ![v] = "absent"] /\ staging' = v
         /\ op' = [op EXCEPT !.step = "rename", !.created = TRUE]
      \/ /\ ~(Present(v) /\ v \in versions) /\ dirs' \in {dirs, [dirs EXCEPT ![v] = "absent"]}
         /\ staging' = Nil /\ op' = NoOp
  BY DEF Stage
<1>3. dirs \in [Versions -> {"absent", "intact", "damaged"}]
  BY DEF ThemeInv, ThemeTypeOK, FilesTypeOK
<1>4. FilesTypeOK'
  BY <1>1, <1>2, <1>3 DEF ThemeInv, ThemeTypeOK, FilesTypeOK, files
<1>5. \/ op' = NoOp
      \/ /\ op' \in Installs /\ op'.step \in {"rename", "commit"}
         /\ op'.version = v /\ op'.before = op.before /\ op'.prune = op.prune
  BY <1>1, <1>2 DEF Installs
<1>6. op' \in Operations /\ Unsettled = {} /\ op'.step \notin {"publish", "forget"}
  BY <1>1, <1>5 DEF Operations, Unsettled, NoOp
<1>7. /\ ThemeTypeOK' /\ Owned(themeRows)' /\ Owned(entries)'
      /\ MemoryFollows' /\ SelectionsResolve'
  BY <1>1, <1>4, <1>6, FilesOnly DEF ThemeInv, ThemeTypeOK
<1>8. InstallSound' /\ RemovalSound'
  BY <1>1, <1>5 DEF ThemeInv, InstallSound, RemovalSound, NoOp, memory, Installs
<1>9. ASSUME losses = 0 PROVE RowsBacked' /\ MemoryBacked' /\ InstallBacked'
  <2>1. RowsBacked /\ MemoryBacked
    BY <1>9 DEF ThemeInv, Backed
  <2>2. \A w \in versions : w \in Versions /\ dirs'[w] = dirs[w]
    BY <1>1, <1>2, <1>3, <2>1 DEF ThemeInv, ThemeTypeOK, MemoryTypeOK, MemoryBacked, Present, files
  <2>3. RowsBacked'
    BY <1>1, <1>6, <2>1, <2>2, SettledRows DEF RowsBacked, Recoverable, database
  <2>4. MemoryBacked'
    BY <1>1, <1>6, <2>1, <2>2 DEF MemoryBacked, Dropped, database, memory
  <2>5. InstallBacked'
    <3>1. ~op.created
      BY <1>1 DEF ThemeInv, InstallSound
    <3>2. op'.step = "commit" => dirs'[v] = "intact" /\ op'.created = op.created
      <4>1. op'.step = "commit" => op' = [op EXCEPT !.step = "commit"] /\ dirs' = dirs /\ dirs[v] = "intact"
        <5>1. NoOp.step = "none" /\ [op EXCEPT !.step = "rename", !.created = TRUE].step = "rename"
          BY <1>1 DEF Installs, NoOp
        <5> QED
          BY <1>2, <5>1 DEF files
      <4>2. [op EXCEPT !.step = "commit"].created = op.created
        BY <1>1 DEF Installs
      <4> QED
        BY <4>1, <4>2
    <3>3. op'.step = "rename" => v \notin versions
      BY <1>1, <1>2, <2>1 DEF Installs, NoOp, MemoryBacked, Present
    <3> QED
      BY <1>1, <1>5, <3>1, <3>2, <3>3 DEF InstallBacked, memory, Installs, NoOp
  <2> QED
    BY <2>3, <2>4, <2>5
<1> QED
  BY <1>1, <1>7, <1>8, <1>9 DEF ThemeInv, Backed

LEMMA RenameKeeps ==
  ASSUME ThemeInv, RenameStaged
  PROVE  ThemeInv'
<1> DEFINE v == op.version
<1> USE Names
<1>1. /\ up /\ op.step = "rename" /\ op \in Installs /\ v \in Versions /\ staging' = Nil
      /\ UNCHANGED <<database, memory, up, revision, losses>>
  BY StepMeans DEF RenameStaged, Installs
<1>2. \/ dirs' = [dirs EXCEPT ![v] = "intact"] /\ op' = [op EXCEPT !.step = "commit"]
      \/ dirs' = dirs /\ op' = NoOp
  BY DEF RenameStaged
<1>3. dirs \in [Versions -> {"absent", "intact", "damaged"}]
  BY DEF ThemeInv, ThemeTypeOK, FilesTypeOK
<1>4. FilesTypeOK'
  BY <1>1, <1>2, <1>3 DEF FilesTypeOK
<1>5. \/ op' = NoOp
      \/ /\ op' \in Installs /\ op'.step = "commit" /\ dirs'[v] = "intact"
         /\ op'.version = v /\ op'.before = op.before /\ op'.prune = op.prune
  BY <1>1, <1>2, <1>3 DEF Installs
<1>6. op' \in Operations /\ Unsettled = {} /\ op'.step \notin {"publish", "forget"}
  BY <1>1, <1>5 DEF Operations, Unsettled, NoOp
<1>7. /\ ThemeTypeOK' /\ Owned(themeRows)' /\ Owned(entries)'
      /\ MemoryFollows' /\ SelectionsResolve'
  BY <1>1, <1>4, <1>6, FilesOnly DEF ThemeInv, ThemeTypeOK
<1>8. InstallSound' /\ RemovalSound'
  BY <1>1, <1>5 DEF ThemeInv, InstallSound, RemovalSound, NoOp, memory, Installs
<1>9. ASSUME losses = 0 PROVE RowsBacked' /\ MemoryBacked' /\ InstallBacked'
  <2>1. RowsBacked /\ MemoryBacked /\ v \notin versions
    BY <1>1, <1>9 DEF ThemeInv, Backed, InstallBacked
  <2>2. \A w \in versions : w \in Versions /\ dirs'[w] = dirs[w]
    BY <1>1, <1>2, <1>3, <2>1 DEF ThemeInv, ThemeTypeOK, MemoryTypeOK
  <2>3. RowsBacked'
    BY <1>1, <1>6, <2>1, <2>2, SettledRows DEF RowsBacked, Recoverable, database
  <2>4. MemoryBacked'
    BY <1>1, <1>6, <2>1, <2>2 DEF MemoryBacked, Dropped, database, memory
  <2>5. InstallBacked'
    BY <1>1, <1>5, <2>1 DEF InstallBacked, memory, Installs, NoOp
  <2> QED
    BY <2>3, <2>4, <2>5
<1> QED
  BY <1>1, <1>7, <1>8, <1>9 DEF ThemeInv, Backed

\* The versions an install takes out of the database belong to its theme and are neither
\* the new version nor the previous one.
LEMMA PrunedMeans ==
  ASSUME ThemeInv, op \in Installs
  PROVE  /\ Pruned(op) \subseteq Versions
         /\ \A w \in Pruned(op) : w # op.version /\ w # op.before /\ Owner[w] = Owner[op.version]
BY Names DEF Pruned, Installs, ThemeInv, InstallSound

LEMMA CommitKeeps ==
  ASSUME ThemeInv, CommitInstall
  PROVE  ThemeInv'
<1> DEFINE v == op.version
           t == Owner[v]
           e == entries[t]
           row == [enabled |-> IF e = Nil THEN TRUE ELSE e.enabled,
                   current |-> v, previous |-> op.before, rev |-> NextRevision]
<1> USE Names
<1>1. /\ up /\ op.step = "commit" /\ op \in Installs /\ v \in Versions /\ t \in Themes
      /\ op.before \in Versions \union {Nil}
      /\ UNCHANGED <<site, prefs, memory, up, losses>>
  BY StepMeans DEF CommitInstall, Installs
<1>2. Unsettled = {} /\ Dropped = {}
  BY <1>1 DEF Unsettled, Dropped
<1>3. e # Nil => e \in Entries
  BY <1>1 DEF ThemeInv, ThemeTypeOK, MemoryTypeOK
<1>4. CASE /\ registered' = (registered \union {v}) \ Pruned(op)
           /\ revision' = NextRevision
           /\ themeRows' = [themeRows EXCEPT ![t] = row]
           /\ op' = [op EXCEPT !.step = "publish"]
           /\ UNCHANGED files
  <2>1. row \in Rows /\ NextRevision \in Nat
    <3>1. NextRevision \in Nat
      BY DEF NextRevision, ThemeInv, ThemeTypeOK
    <3>2. (IF e = Nil THEN TRUE ELSE e.enabled) \in BOOLEAN
      BY <1>3 DEF Entries
    <3> HIDE DEF e
    <3> QED
      BY <1>1, <3>1, <3>2 DEF Rows
  <2> HIDE DEF row
  <2>2. /\ themeRows'[t] = row /\ themeRows' \in [Themes -> Rows \union {Nil}]
        /\ \A s \in Themes : s # t => themeRows'[s] = themeRows[s]
    BY <1>1, <1>4, <2>1 DEF ThemeInv, ThemeTypeOK, DatabaseTypeOK, row
  <2>3. row # Nil /\ row.current = v /\ row.previous = op.before /\ row.rev = NextRevision
        /\ (e # Nil => row.enabled = e.enabled) /\ (e = Nil => row.enabled = TRUE)
    BY <2>1 DEF row
  <2>4. /\ op' \in Installs /\ op'.step = "publish" /\ op'.version = v /\ op'.before = op.before
        /\ op'.prune = op.prune
    BY <1>1, <1>4 DEF Installs
  <2>5. Unsettled' = {t} /\ Dropped' = Pruned(op) /\ op' \in Operations
    BY <2>4 DEF Unsettled, Dropped, Operations, Pruned
  <2>6. ThemeTypeOK'
    BY <1>1, <1>4, <2>1, <2>2, <2>5 DEF ThemeInv, ThemeTypeOK, DatabaseTypeOK, MemoryTypeOK, FilesTypeOK,
       memory, files
  <2>7. op.before # v /\ (op.before # Nil => op.before \in versions /\ Owner[op.before] = t)
        /\ \A w \in op.prune : w # Nil => Owner[w] = t
    BY <1>1 DEF ThemeInv, InstallSound
  <2>8. Owned(themeRows)' /\ Owned(entries)'
    <3>1. Owned(entries)'
      BY <1>1 DEF ThemeInv, Owned, memory
    <3>2. Owned(themeRows)'
      BY <1>1, <2>2, <2>3, <2>7 DEF ThemeInv, Owned
    <3> QED
      BY <3>1, <3>2
  <2>9. MemoryFollows'
    <3>1. \A s \in Themes \ {t} : Agrees(s)'
      BY <1>1, <1>2, <2>2 DEF ThemeInv, MemoryFollows, Agrees, memory
    <3> QED
      BY <1>1, <2>5, <3>1 DEF ThemeInv, MemoryFollows, memory
  <2>10. InstallSound' /\ RemovalSound'
    BY <1>1, <2>2, <2>3, <2>4, <2>7 DEF InstallSound, RemovalSound, memory
  <2>11. ASSUME losses = 0 PROVE RowsBacked' /\ MemoryBacked' /\ InstallBacked'
    <3>1. RowsBacked /\ MemoryBacked /\ dirs[v] = "intact"
      BY <1>1, <2>11 DEF ThemeInv, Backed, InstallBacked
    <3>2. \A w \in Versions : w \in registered /\ (w \notin Pruned(op)) => w \in registered'
      BY <1>4
    <3>3. v \in registered'
      BY <1>1, <1>4, PrunedMeans
    <3>4. RowsBacked'
      <4> SUFFICES ASSUME NEW s \in Themes, themeRows'[s] # Nil
                   PROVE  /\ themeRows'[s].current # Nil
                          /\ themeRows'[s].current \in registered' /\ dirs'[themeRows'[s].current] = "intact"
        BY DEF RowsBacked, Recoverable
      <4>1. CASE s = t
        BY <4>1, <1>1, <1>4, <2>2, <2>3, <3>1, <3>3 DEF files
      <4>2. CASE s # t
        <5>1. themeRows[s] # Nil /\ themeRows[s] = themeRows'[s]
          BY <4>2, <2>2
        <5>2. themeRows[s].current # Nil /\ Recoverable(themeRows[s].current)
          BY <3>1, <5>1 DEF RowsBacked
        <5>3. Owner[themeRows[s].current] # t
          BY <1>1, <1>2, <4>2, <5>1, <5>2, SettledRows
        <5>4. themeRows[s].current \in Versions
          BY <5>1, <5>2 DEF ThemeInv, ThemeTypeOK, DatabaseTypeOK, Rows
        <5> QED
          BY <5>1, <5>2, <5>3, <5>4, <3>2, <1>1, <1>4, PrunedMeans DEF Recoverable, files
      <4> QED
        BY <4>1, <4>2
    <3>5. MemoryBacked'
      BY <1>1, <1>2, <1>4, <2>5, <3>1, <3>2 DEF MemoryBacked, ThemeInv, ThemeTypeOK, MemoryTypeOK, memory, files
    <3>6. InstallBacked'
      BY <2>4 DEF InstallBacked
    <3> QED
      BY <3>4, <3>5, <3>6
  <2>12. SelectionsResolve'
    <3>1. e # Nil => themeRows[t] # Nil /\ themeRows[t].enabled = e.enabled
      BY <1>1, <1>2 DEF ThemeInv, MemoryFollows, Agrees
    <3>2. site.theme # Builtin => site.theme \in Themes
      BY DEF ThemeInv, ThemeTypeOK, DatabaseTypeOK, Sites
    <3>3. /\ site' = site /\ prefs' = prefs /\ up' = up /\ siteCopy' = siteCopy /\ entries' = entries
      BY <1>1 DEF memory
    <3>4. site.theme # Builtin => themeRows'[site.theme] # Nil /\ themeRows'[site.theme].enabled
      <4> SUFFICES ASSUME site.theme # Builtin
                   PROVE  themeRows'[site.theme] # Nil /\ themeRows'[site.theme].enabled
        OBVIOUS
      <4>1. site.theme \in Themes /\ themeRows[site.theme] # Nil /\ themeRows[site.theme].enabled
        BY <3>2 DEF ThemeInv, SelectionsResolve
      <4>2. CASE site.theme = t
        BY <4>1, <4>2, <3>1, <2>2, <2>3, <1>1, <1>2 DEF ThemeInv, MemoryFollows, Agrees
      <4>3. CASE site.theme # t
        BY <4>1, <4>3, <2>2
      <4> QED
        BY <4>2, <4>3
    <3>5. \A s \in Themes : themeRows[s] # Nil => themeRows'[s] # Nil
      BY <2>2, <2>3
    <3> QED
      BY <3>3, <3>4, <3>5 DEF ThemeInv, SelectionsResolve, Selectable
  <2> QED
    BY <1>1, <2>6, <2>8, <2>9, <2>10, <2>11, <2>12 DEF ThemeInv, Backed
<1>5. CASE /\ dirs' \in IF op.created THEN {dirs, [dirs EXCEPT ![v] = "absent"]} ELSE {dirs}
           /\ op' = NoOp
           /\ UNCHANGED <<themeRows, registered, revision, staging>>
  <2>1. dirs \in [Versions -> {"absent", "intact", "damaged"}]
    BY DEF ThemeInv, ThemeTypeOK, FilesTypeOK
  <2>2. FilesTypeOK'
    BY <1>1, <1>5, <2>1 DEF ThemeInv, ThemeTypeOK, FilesTypeOK
  <2>3. op' \in Operations /\ op'.step = "none" /\ op' \notin Installs
    BY <1>5 DEF Operations, NoOp, Installs
  <2>4. UNCHANGED <<database, memory, up, revision>> /\ losses' \in Nat
    BY <1>1, <1>5 DEF database, ThemeInv, ThemeTypeOK
  <2>5. /\ ThemeTypeOK' /\ Owned(themeRows)' /\ Owned(entries)'
        /\ MemoryFollows' /\ SelectionsResolve'
    BY <1>1, <1>2, <2>2, <2>3, <2>4, FilesOnly
  <2>6. InstallSound' /\ RemovalSound' /\ InstallBacked'
    BY <2>3 DEF InstallSound, RemovalSound, InstallBacked
  <2>7. ASSUME losses = 0 PROVE RowsBacked' /\ MemoryBacked'
    <3>1. RowsBacked /\ MemoryBacked /\ (op.created => v \notin versions)
      BY <1>1, <2>7 DEF ThemeInv, Backed, InstallBacked
    <3>2. \A w \in versions : w \in Versions /\ dirs'[w] = dirs[w]
      BY <1>1, <1>5, <2>1, <3>1 DEF ThemeInv, ThemeTypeOK, MemoryTypeOK
    <3>3. RowsBacked'
      BY <1>1, <1>2, <2>4, <3>1, <3>2, SettledRows DEF RowsBacked, Recoverable, database
    <3>4. MemoryBacked'
      BY <1>1, <1>2, <2>3, <2>4, <3>1, <3>2 DEF MemoryBacked, Dropped, database, memory
    <3> QED
      BY <3>3, <3>4
  <2> QED
    BY <1>1, <2>5, <2>6, <2>7 DEF ThemeInv, Backed
<1> QED
  BY <1>4, <1>5 DEF CommitInstall

LEMMA PublishKeeps ==
  ASSUME ThemeInv, Publish
  PROVE  ThemeInv'
<1> USE Names
<1>0. PICK v \in Versions, t \in Themes : v = op.version /\ t = Owner[v]
  BY StepMeans DEF Publish, Installs
<1> USE <1>0
<1> DEFINE row == themeRows[t]
           before == IF op.before \in versions THEN op.before ELSE Nil
           entry == Entry(row, v, before)
<1>1. /\ up /\ op.step = "publish" /\ op \in Installs
      /\ op.before \in Versions \union {Nil}
      /\ UNCHANGED <<database, siteCopy, files, up, revision, losses>>
  BY StepMeans DEF Publish, Installs
<1>2. Unsettled = {t} /\ Dropped = Pruned(op)
  BY <1>1 DEF Unsettled, Dropped
<1>3. /\ entries' = [entries EXCEPT ![t] = entry]
      /\ versions' = (versions \union {v}) \intersect KeptVersions(entries')
      /\ op' = [step |-> "remove", gone |-> Pruned(op)]
  BY DEF Publish
<1>4. /\ op.before # v /\ (op.before # Nil => op.before \in versions /\ Owner[op.before] = t)
      /\ row # Nil /\ row.current = v /\ row.previous = op.before
  BY <1>1 DEF ThemeInv, InstallSound
<1>5. before = op.before /\ row \in Rows
  BY <1>1, <1>4 DEF ThemeInv, ThemeTypeOK, DatabaseTypeOK, MemoryTypeOK
<1> HIDE DEF before
<1>6. /\ entry \in Entries /\ entry.current = v /\ entry.previous = op.before /\ entry.rev = row.rev
      /\ entry.enabled = row.enabled /\ entry.available = TRUE /\ entry # Nil
  <2>1. entry = [enabled |-> row.enabled, current |-> v, previous |-> op.before,
                 rev |-> row.rev, available |-> TRUE]
    BY <1>1, <1>5 DEF Entry
  <2> HIDE DEF entry, row
  <2> QED
    BY <1>1, <1>5, <2>1 DEF Rows, Entries
<1> HIDE DEF entry
<1>7. /\ entries' \in [Themes -> Entries \union {Nil}] /\ entries'[t] = entry
      /\ \A s \in Themes : s # t => entries'[s] = entries[s]
  BY <1>1, <1>3, <1>6 DEF ThemeInv, ThemeTypeOK, MemoryTypeOK
<1>8. versions' = KeptVersions(entries')
  <2>1. versions = KeptVersions(entries)
    BY DEF ThemeInv, MemoryFollows
  <2>2. \A w : w \in KeptVersions(entries') => w \in versions \/ w = v
    BY <1>1, <1>4, <1>6, <1>7, <2>1, KeptMeans
  <2> QED
    BY <1>3, <2>2
<1>9. /\ \A w \in versions' : w = v \/ w = op.before \/ (w \in versions /\ Owner[w] # t)
      /\ versions' \subseteq Versions
  <2>1. \A s \in Themes : \A w : s # t /\ entries[s] # Nil /\ w \in {entries[s].current, entries[s].previous} /\ w # Nil
          => w \in versions /\ Owner[w] # t
    BY KeptMeans DEF ThemeInv, MemoryFollows, Owned
  <2>2. \A w \in versions' : w = v \/ w = op.before \/ (w \in versions /\ Owner[w] # t)
    BY <1>1, <1>6, <1>7, <1>8, <2>1, KeptMeans
  <2> QED
    BY <1>1, <1>3, <2>2 DEF ThemeInv, ThemeTypeOK, MemoryTypeOK
<1>10. op' \in Operations /\ op'.step = "remove" /\ op'.gone = Pruned(op) /\ op' \notin Installs
  BY <1>1, <1>3, PrunedMeans DEF Operations, Removals, Installs
<1>11. ThemeTypeOK'
  BY <1>1, <1>7, <1>9, <1>10 DEF ThemeInv, ThemeTypeOK, DatabaseTypeOK, MemoryTypeOK, FilesTypeOK,
     database, files
<1>12. Owned(themeRows)' /\ Owned(entries)'
  <2>1. Owned(themeRows)'
    BY <1>1 DEF ThemeInv, Owned, database
  <2>2. Owned(entries)'
    BY <1>1, <1>4, <1>6, <1>7 DEF ThemeInv, Owned
  <2> QED
    BY <2>1, <2>2
<1>13. MemoryFollows'
  <2>1. Agrees(t)'
    <3>1. themeRows'[t] = row /\ entries'[t] = entry
      BY <1>1, <1>7 DEF database
    <3> HIDE DEF row
    <3> QED
      BY <1>4, <1>6, <3>1 DEF Agrees
  <2>2. \A s \in Themes : s # t => Agrees(s)'
    BY <1>1, <1>2, <1>7 DEF ThemeInv, MemoryFollows, Agrees, database
  <2>3. \A s \in Themes : entries'[s] # Nil => entries'[s].available = (entries'[s].current # Nil)
    <3> SUFFICES ASSUME NEW s \in Themes, entries'[s] # Nil
                 PROVE  entries'[s].available = (entries'[s].current # Nil)
      OBVIOUS
    <3>1. CASE s = t
      BY <3>1, <1>6, <1>7
    <3>2. CASE s # t
      BY <3>2, <1>7 DEF ThemeInv, MemoryFollows
    <3> QED
      BY <3>1, <3>2
  <2> QED
    BY <1>1, <1>8, <2>1, <2>2, <2>3 DEF MemoryFollows
<1>14. InstallSound' /\ InstallBacked'
  BY <1>10 DEF InstallSound, InstallBacked
<1>15. RemovalSound'
  BY <1>1, <1>9, <1>10, PrunedMeans DEF RemovalSound
<1>16. ASSUME losses = 0 PROVE RowsBacked' /\ MemoryBacked'
  <2>1. RowsBacked /\ MemoryBacked
    BY <1>16 DEF ThemeInv, Backed
  <2>2. RowsBacked'
    BY <1>1, <2>1 DEF RowsBacked, Recoverable, database, files
  <2>3. Dropped' = {}
    BY <1>10 DEF Dropped
  <2>4. v \in registered /\ dirs[v] = "intact"
    BY <1>1, <1>4, <2>1 DEF RowsBacked, Recoverable
  <2>5. \A w \in versions : w \notin Pruned(op) => w \in registered /\ dirs[w] = "intact"
    BY <2>1, <1>2 DEF MemoryBacked
  <2>6. op.before \in versions' => op.before \in versions
    BY <1>4, <1>9
  <2> QED
    BY <1>1, <1>9, <2>2, <2>3, <2>4, <2>5, <2>6, PrunedMeans DEF MemoryBacked, database, files
<1>17. SelectionsResolve'
  <2>1. \A s \in Themes : s # t /\ Selectable(s) => Selectable(s)'
    BY <1>7 DEF Selectable
  <2>2. row.enabled => Selectable(t)'
    <3> HIDE DEF row
    <3> QED
      BY <1>6, <1>7 DEF Selectable
  <2>3. site.theme # Builtin => site.theme \in Themes
    BY DEF ThemeInv, ThemeTypeOK, DatabaseTypeOK, Sites
  <2>4. /\ site' = site /\ prefs' = prefs /\ up' = up /\ siteCopy' = siteCopy /\ themeRows' = themeRows
    BY <1>1 DEF database
  <2>5. site.theme # Builtin => Selectable(site.theme)'
    BY <1>1, <2>1, <2>2, <2>3, <2>4 DEF ThemeInv, SelectionsResolve
  <2> QED
    BY <2>4, <2>5 DEF ThemeInv, SelectionsResolve, Selectable
<1> QED
  BY <1>1, <1>11, <1>12, <1>13, <1>14, <1>15, <1>16, <1>17 DEF ThemeInv, Backed

\* Between operations the database and the memory say the same.
LEMMA ReadyMeans ==
  ASSUME ThemeInv, Ready
  PROVE  /\ up /\ op = NoOp /\ op.step = "none" /\ Unsettled = {} /\ Dropped = {} /\ op \notin Installs
         /\ \A t \in Themes : Agrees(t)
BY DEF Ready, NoOp, Unsettled, Dropped, Installs, ThemeInv, MemoryFollows

LEMMA EnabledKeeps ==
  ASSUME ThemeInv, NEW t \in Themes, NEW enabled \in BOOLEAN, SetEnabled(t, enabled)
  PROVE  ThemeInv'
<1> DEFINE e == entries[t]
           row == [enabled |-> enabled, current |-> e.current, previous |-> e.previous,
                   rev |-> NextRevision]
           entry == [e EXCEPT !.enabled = enabled, !.rev = NextRevision]
<1> USE Names
<1>1. /\ Ready /\ e # Nil /\ (~enabled => MayDisable(t))
      /\ themeRows' = [themeRows EXCEPT ![t] = row]
      /\ revision' = NextRevision
      /\ UNCHANGED <<registered, site, prefs, versions, siteCopy, files, up, op, losses>>
  BY DEF SetEnabled
<1>2. /\ up /\ op = NoOp /\ op.step = "none" /\ op \notin Installs /\ Unsettled = {} /\ Dropped = {}
      /\ \A s \in Themes : Agrees(s)
  BY <1>1, ReadyMeans
<1>3. e \in Entries /\ NextRevision \in Nat /\ entries \in [Themes -> Entries \union {Nil}]
      /\ themeRows \in [Themes -> Rows \union {Nil}]
  BY <1>1 DEF ThemeInv, ThemeTypeOK, MemoryTypeOK, DatabaseTypeOK, NextRevision
<1>4. entries' = [entries EXCEPT ![t] = entry]
  BY <1>3 DEF SetEnabled
<1>5. /\ row \in Rows /\ row # Nil /\ row.enabled = enabled /\ row.current = e.current
      /\ row.previous = e.previous /\ row.rev = NextRevision
  <2>1. row \in Rows
    BY <1>3 DEF Rows, Entries
  <2> QED
    BY <2>1
<1>6. /\ entry \in Entries /\ entry # Nil /\ entry.enabled = enabled /\ entry.current = e.current
      /\ entry.previous = e.previous /\ entry.rev = NextRevision /\ entry.available = e.available
  <2>1. entry \in Entries
    BY <1>3 DEF Entries
  <2> QED
    BY <1>3, <2>1 DEF Entries
<1> HIDE DEF row, entry
<1>7. /\ themeRows' \in [Themes -> Rows \union {Nil}] /\ entries' \in [Themes -> Entries \union {Nil}]
      /\ themeRows'[t] = row /\ entries'[t] = entry
      /\ \A s \in Themes : s # t => themeRows'[s] = themeRows[s] /\ entries'[s] = entries[s]
  BY <1>1, <1>3, <1>4, <1>5, <1>6
<1>8. ThemeTypeOK'
  BY <1>1, <1>3, <1>7 DEF ThemeInv, ThemeTypeOK, DatabaseTypeOK, MemoryTypeOK, FilesTypeOK, files
<1>9. Owned(themeRows)' /\ Owned(entries)'
  BY <1>1, <1>5, <1>6, <1>7 DEF ThemeInv, Owned
<1>10. MemoryFollows'
  <2>1. Agrees(t)'
    BY <1>5, <1>6, <1>7 DEF Agrees
  <2>2. \A s \in Themes : s # t => Agrees(s)'
    BY <1>2, <1>7 DEF Agrees
  <2>3. \A w : w \in KeptVersions(entries') <=> w \in KeptVersions(entries)
    BY <1>1, <1>6, <1>7, KeptMeans
  <2>4. versions' = KeptVersions(entries')
    BY <1>1, <2>3 DEF ThemeInv, MemoryFollows
  <2>5. \A s \in Themes : entries'[s] # Nil => entries'[s].available = (entries'[s].current # Nil)
    BY <1>1, <1>6, <1>7 DEF ThemeInv, MemoryFollows
  <2> QED
    BY <1>1, <1>2, <2>1, <2>2, <2>4, <2>5 DEF MemoryFollows
<1>11. InstallSound' /\ RemovalSound' /\ InstallBacked'
  BY <1>1, <1>2 DEF InstallSound, RemovalSound, InstallBacked
<1>12. ASSUME losses = 0 PROVE RowsBacked' /\ MemoryBacked'
  <2>1. RowsBacked /\ MemoryBacked
    BY <1>12 DEF ThemeInv, Backed
  <2>2. themeRows[t] # Nil /\ row.current = themeRows[t].current
    BY <1>1, <1>2, <1>5 DEF Agrees
  <2>3. RowsBacked'
    BY <1>1, <1>7, <2>1, <2>2 DEF RowsBacked, Recoverable, files
  <2>4. MemoryBacked'
    BY <1>1, <2>1 DEF MemoryBacked, Dropped, files
  <2> QED
    BY <2>3, <2>4
<1>13. SelectionsResolve'
  <2>1. site.theme # Builtin => site.theme \in Themes
    BY DEF ThemeInv, ThemeTypeOK, DatabaseTypeOK, Sites
  <2>2. site = siteCopy
    BY <1>2 DEF ThemeInv, SelectionsResolve
  <2>3. site.theme = t => enabled = TRUE
    BY <1>1, <2>2 DEF MayDisable
  <2>4. site.theme = t => themeRows'[t] # Nil /\ themeRows'[t].enabled /\ Selectable(t)'
    BY <1>2, <1>5, <1>6, <1>7, <2>3 DEF ThemeInv, SelectionsResolve, Selectable
  <2>5. \A s \in Themes : s # t /\ Selectable(s) => Selectable(s)'
    BY <1>7 DEF Selectable
  <2>6. \A s \in Themes : themeRows[s] # Nil => themeRows'[s] # Nil
    BY <1>5, <1>7
  <2> HIDE DEF e
  <2>7. site.theme # Builtin => themeRows'[site.theme] # Nil /\ themeRows'[site.theme].enabled /\ Selectable(site.theme)'
    BY <1>1, <1>2, <1>7, <2>1, <2>4, <2>5 DEF ThemeInv, SelectionsResolve
  <2> QED
    BY <1>1, <2>2, <2>6, <2>7 DEF ThemeInv, SelectionsResolve
<1> QED
  BY <1>1, <1>8, <1>9, <1>10, <1>11, <1>12, <1>13 DEF ThemeInv, Backed

\* What stays when only the choices of the site or of the members change.
LEMMA ChoicesOnly ==
  ASSUME ThemeInv,
         UNCHANGED <<themeRows, registered, entries, versions, files, up, op, losses>>,
         revision' \in Nat, site' \in Sites, siteCopy' \in Sites,
         prefs' \in [Members -> Selections \union {Nil}]
  PROVE  /\ ThemeTypeOK' /\ Owned(themeRows)' /\ Owned(entries)'
         /\ MemoryFollows' /\ InstallSound' /\ RemovalSound' /\ Backed'
<1>1. ThemeTypeOK'
  BY DEF ThemeInv, ThemeTypeOK, DatabaseTypeOK, MemoryTypeOK, FilesTypeOK, files
<1>2. Owned(themeRows)' /\ Owned(entries)'
  BY DEF ThemeInv, Owned
<1>3. \A t \in Themes : Agrees(t)' = Agrees(t)
  BY DEF Agrees
<1>4. MemoryFollows'
  BY <1>3 DEF ThemeInv, MemoryFollows, Unsettled
<1>5. InstallSound' /\ RemovalSound'
  BY DEF ThemeInv, InstallSound, RemovalSound
<1>6. Backed'
  BY DEF ThemeInv, Backed, RowsBacked, MemoryBacked, InstallBacked, Recoverable, Dropped, files
<1> QED
  BY <1>1, <1>2, <1>4, <1>5, <1>6

LEMMA DefaultKeeps ==
  ASSUME ThemeInv, NEW t \in Themes \union {Builtin}, SetSiteDefault(t)
  PROVE  ThemeInv'
<1> USE Names
<1>1. /\ Ready /\ (t # Builtin => t \in Themes /\ Selectable(t))
      /\ site' = [theme |-> t, rev |-> NextRevision] /\ siteCopy' = site' /\ revision' = NextRevision
      /\ UNCHANGED <<themeRows, registered, prefs, entries, versions, files, up, op, losses>>
  BY DEF SetSiteDefault
<1>2. up /\ \A s \in Themes : Agrees(s)
  BY <1>1, ReadyMeans
<1>3. NextRevision \in Nat /\ site' \in Sites /\ prefs' \in [Members -> Selections \union {Nil}]
  BY <1>1 DEF NextRevision, Sites, ThemeInv, ThemeTypeOK, DatabaseTypeOK
<1>4. SelectionsResolve'
  <2>1. t # Builtin => themeRows[t] # Nil /\ themeRows[t].enabled
    BY <1>1, <1>2 DEF Agrees, Selectable
  <2>2. site'.theme = t /\ siteCopy' = site'
    BY <1>1
  <2> QED
    BY <1>1, <1>2, <2>1, <2>2 DEF ThemeInv, SelectionsResolve, Selectable
<1> QED
  BY <1>1, <1>3, <1>4, ChoicesOnly DEF ThemeInv

\* A preference is read, saved or deleted.
LEMMA PreferenceKeeps ==
  ASSUME ThemeInv, NEW u \in Members, NEW t \in Themes \union {Builtin, Site},
         GetPreference(u) \/ SavePreference(u, t) \/ DeleteUserPreferences(u)
  PROVE  ThemeInv'
<1> USE Names
<1>1. /\ Ready /\ UNCHANGED <<themeRows, registered, site, entries, versions, siteCopy, files, up, op, losses>>
      /\ revision' \in Nat
  BY DEF GetPreference, SavePreference, DeleteUserPreferences, database, memory, NextRevision, ThemeInv, ThemeTypeOK
<1>2. prefs \in [Members -> Selections \union {Nil}] /\ NextRevision \in Nat
  BY DEF ThemeInv, ThemeTypeOK, DatabaseTypeOK, NextRevision
<1>3. \A s \in Themes : Selectable(s) => themeRows[s] # Nil
  BY <1>1, ReadyMeans DEF Agrees, Selectable
<1>4. \E c \in Selections \union {Nil} :
         /\ prefs' = [prefs EXCEPT ![u] = c]
         /\ c # Nil /\ c.theme \in Themes => themeRows[c.theme] # Nil
  <2>1. CASE GetPreference(u)
    <3> DEFINE c == [theme |-> Site, rev |-> NextRevision]
    <3>1. c \in Selections /\ c.theme \notin Themes /\ prefs' = [prefs EXCEPT ![u] = c]
      BY <2>1, <1>2 DEF Selections, GetPreference
    <3> HIDE DEF c
    <3> QED
      BY <3>1
  <2>2. CASE SavePreference(u, t)
    <3> DEFINE c == [theme |-> t, rev |-> NextRevision]
    <3>1. c \in Selections /\ prefs' = [prefs EXCEPT ![u] = c]
      BY <2>2, <1>2 DEF Selections, SavePreference
    <3>2. c.theme \in Themes => themeRows[c.theme] # Nil
      BY <2>2, <1>3 DEF SavePreference
    <3> HIDE DEF c
    <3> QED
      BY <3>1, <3>2
  <2>3. CASE DeleteUserPreferences(u)
    BY <2>3 DEF DeleteUserPreferences
  <2> QED
    BY <2>1, <2>2, <2>3
<1>5. PICK c \in Selections \union {Nil} :
         /\ prefs' = [prefs EXCEPT ![u] = c]
         /\ c # Nil /\ c.theme \in Themes => themeRows[c.theme] # Nil
  BY <1>4
<1>6. prefs' \in [Members -> Selections \union {Nil}]
  BY <1>2, <1>5
<1>7. \A w \in Members : prefs'[w] # Nil /\ prefs'[w].theme \in Themes => themeRows[prefs'[w].theme] # Nil
  BY <1>2, <1>5 DEF ThemeInv, SelectionsResolve
<1>8. SelectionsResolve'
  BY <1>1, <1>7 DEF ThemeInv, SelectionsResolve, Selectable
<1>9. site' \in Sites /\ siteCopy' \in Sites
  BY <1>1 DEF ThemeInv, ThemeTypeOK, DatabaseTypeOK, MemoryTypeOK
<1> QED
  BY <1>1, <1>6, <1>8, <1>9, ChoicesOnly DEF ThemeInv

LEMMA DeleteKeeps ==
  ASSUME ThemeInv, NEW t \in Themes, DeleteTheme(t)
  PROVE  ThemeInv'
<1> DEFINE e == entries[t]
           hashes == {e.current, e.previous} \ {Nil}
<1> USE Names
<1>1. /\ Ready /\ e # Nil /\ siteCopy.theme # t
      /\ themeRows' = [themeRows EXCEPT ![t] = Nil]
      /\ prefs' = ResetPreferences(t) /\ revision' = NextRevision
      /\ UNCHANGED <<site, memory, files, up, losses>>
  BY DEF DeleteTheme
<1>2. KeptVersions([s \in Themes |-> IF s = t THEN entries[t] ELSE Nil]) = hashes
  BY <1>1, KeptMeans
<1>3. registered' = registered \ hashes /\ op' = [step |-> "forget", theme |-> t, gone |-> hashes]
  BY <1>2 DEF DeleteTheme
<1>4. /\ up /\ op = NoOp /\ op.step = "none" /\ Unsettled = {} /\ Dropped = {} /\ site = siteCopy
      /\ \A s \in Themes : Agrees(s)
  BY <1>1, ReadyMeans DEF ThemeInv, SelectionsResolve
<1>5. e \in Entries /\ hashes \in SUBSET Versions
  BY <1>1 DEF ThemeInv, ThemeTypeOK, MemoryTypeOK, Entries
<1> HIDE DEF hashes
<1>6. /\ op' \in Operations /\ op'.step = "forget" /\ op'.theme = t /\ op'.gone = hashes
      /\ op' \notin Installs
  BY <1>3, <1>5 DEF Operations, Forgets, Installs
<1>7. Unsettled' = {t} /\ Dropped' = hashes
  BY <1>6 DEF Unsettled, Dropped
<1>8. /\ themeRows' \in [Themes -> Rows \union {Nil}] /\ themeRows'[t] = Nil
      /\ \A s \in Themes : s # t => themeRows'[s] = themeRows[s]
  BY <1>1 DEF ThemeInv, ThemeTypeOK, DatabaseTypeOK
<1>9. /\ prefs' \in [Members -> Selections \union {Nil}]
      /\ \A u \in Members : prefs'[u] # Nil /\ prefs'[u].theme \in Themes =>
            prefs'[u] = prefs[u] /\ prefs[u].theme # t
  <2>1. prefs \in [Members -> Selections \union {Nil}] /\ [theme |-> Builtin, rev |-> NextRevision] \in Selections
    BY DEF ThemeInv, ThemeTypeOK, DatabaseTypeOK, Selections, NextRevision
  <2> QED
    BY <1>1, <2>1 DEF ResetPreferences
<1>10. ThemeTypeOK'
  BY <1>1, <1>3, <1>6, <1>8, <1>9 DEF ThemeInv, ThemeTypeOK, DatabaseTypeOK, MemoryTypeOK, FilesTypeOK,
     NextRevision, memory, files
<1>11. Owned(themeRows)' /\ Owned(entries)'
  BY <1>1, <1>8 DEF ThemeInv, Owned, memory
<1>12. MemoryFollows'
  <2>1. \A s \in Themes : s # t => Agrees(s)'
    BY <1>1, <1>4, <1>8 DEF Agrees, memory
  <2> QED
    BY <1>1, <1>4, <1>7, <2>1 DEF ThemeInv, MemoryFollows, memory
<1>13. InstallSound' /\ InstallBacked'
  BY <1>6 DEF InstallSound, InstallBacked
<1>14. RemovalSound'
  BY <1>1, <1>6, <1>8 DEF RemovalSound, memory, hashes
<1>15. ASSUME losses = 0 PROVE RowsBacked' /\ MemoryBacked'
  <2>1. RowsBacked /\ MemoryBacked
    BY <1>15 DEF ThemeInv, Backed
  <2>2. \A w \in hashes : Owner[w] = t
    BY <1>1 DEF ThemeInv, Owned, hashes
  <2>3. RowsBacked'
    <3> SUFFICES ASSUME NEW s \in Themes, themeRows'[s] # Nil
                 PROVE  /\ themeRows'[s].current # Nil
                        /\ themeRows'[s].current \in registered' /\ dirs'[themeRows'[s].current] = "intact"
      BY DEF RowsBacked, Recoverable
    <3>1. s # t /\ themeRows'[s] = themeRows[s] /\ themeRows[s] # Nil
      BY <1>8
    <3>2. themeRows[s].current # Nil /\ Recoverable(themeRows[s].current)
      BY <2>1, <3>1 DEF RowsBacked
    <3>3. Owner[themeRows[s].current] = s
      BY <1>4, <3>1, <3>2, SettledRows
    <3> QED
      BY <1>1, <1>3, <2>2, <3>1, <3>2, <3>3 DEF Recoverable, files
  <2>4. MemoryBacked'
    BY <1>1, <1>3, <1>4, <1>7, <2>1 DEF MemoryBacked, memory, files
  <2> QED
    BY <2>3, <2>4
<1>16. SelectionsResolve'
  <2>1. site.theme # t /\ site' = site /\ siteCopy' = siteCopy /\ up' = up /\ entries' = entries
    BY <1>1, <1>4 DEF memory
  <2>2. site.theme # Builtin => site.theme \in Themes
    BY DEF ThemeInv, ThemeTypeOK, DatabaseTypeOK, Sites
  <2> QED
    BY <1>8, <1>9, <2>1, <2>2 DEF ThemeInv, SelectionsResolve, Selectable
<1> QED
  BY <1>1, <1>10, <1>11, <1>12, <1>13, <1>14, <1>15, <1>16 DEF ThemeInv, Backed

LEMMA ForgetKeeps ==
  ASSUME ThemeInv, Forget
  PROVE  ThemeInv'
<1> USE Names
<1>1. /\ up /\ op.step = "forget"
      /\ entries' = [entries EXCEPT ![op.theme] = Nil] /\ versions' = versions \ op.gone
      /\ op' = [step |-> "remove", gone |-> op.gone]
      /\ UNCHANGED <<database, siteCopy, files, up, revision, losses>>
  BY DEF Forget
<1>2. op \in Forgets
  BY <1>1, StepMeans DEF ThemeInv, ThemeTypeOK
<1>3. PICK t \in Themes : op.theme = t
  BY <1>2 DEF Forgets
<1>4. PICK gone \in SUBSET Versions : op.gone = gone
  BY <1>2 DEF Forgets
<1>5. /\ themeRows[t] = Nil /\ entries[t] # Nil /\ gone = {entries[t].current, entries[t].previous} \ {Nil}
      /\ Unsettled = {t} /\ Dropped = gone
  BY <1>1, <1>3, <1>4 DEF ThemeInv, RemovalSound, Unsettled, Dropped
<1>6. /\ op' = [step |-> "remove", gone |-> gone] /\ op'.step = "remove" /\ op'.gone = gone
      /\ op' \in Operations /\ op' \notin Installs /\ Unsettled' = {} /\ Dropped' = {}
  BY <1>1, <1>4 DEF Operations, Removals, Installs, Unsettled, Dropped
<1>7. /\ entries' \in [Themes -> Entries \union {Nil}] /\ entries'[t] = Nil
      /\ \A s \in Themes : s # t => entries'[s] = entries[s]
      /\ versions' = versions \ gone
  BY <1>1, <1>3, <1>4 DEF ThemeInv, ThemeTypeOK, MemoryTypeOK
<1>8. ThemeTypeOK'
  BY <1>1, <1>6, <1>7 DEF ThemeInv, ThemeTypeOK, DatabaseTypeOK, MemoryTypeOK, FilesTypeOK, database, files
<1>9. Owned(themeRows)' /\ Owned(entries)'
  BY <1>1, <1>7 DEF ThemeInv, Owned, database
<1>10. MemoryFollows'
  <2>1. \A s \in Themes : Agrees(s)'
    BY <1>1, <1>5, <1>7 DEF ThemeInv, MemoryFollows, Agrees, database
  <2>2. \A w : w \in KeptVersions(entries') <=> w \in versions \ gone
    <3>1. versions = KeptVersions(entries)
      BY DEF ThemeInv, MemoryFollows
    <3>2. \A w \in gone : Owner[w] = t
      BY <1>5 DEF ThemeInv, Owned
    <3>3. \A s \in Themes : s # t /\ entries[s] # Nil =>
            /\ entries[s].current \notin gone /\ entries[s].previous \notin gone
      BY <1>5, <3>2 DEF ThemeInv, Owned
    <3> QED
      BY <1>5, <1>7, <3>1, <3>3, KeptMeans
  <2>3. versions' = KeptVersions(entries')
    BY <1>7, <2>2
  <2>4. \A s \in Themes : entries'[s] # Nil => entries'[s].available = (entries'[s].current # Nil)
    BY <1>7 DEF ThemeInv, MemoryFollows
  <2> QED
    BY <1>1, <2>1, <2>3, <2>4 DEF MemoryFollows
<1>11. InstallSound' /\ InstallBacked'
  BY <1>6 DEF InstallSound, InstallBacked
<1>12. RemovalSound'
  BY <1>6, <1>7 DEF RemovalSound
<1>13. ASSUME losses = 0 PROVE RowsBacked' /\ MemoryBacked'
  BY <1>1, <1>5, <1>6, <1>7, <1>13 DEF ThemeInv, Backed, RowsBacked, MemoryBacked, Recoverable, database, files
<1>14. SelectionsResolve'
  <2>1. site' = site /\ siteCopy' = siteCopy /\ up' = up /\ prefs' = prefs /\ themeRows' = themeRows
    BY <1>1 DEF database
  <2>2. site.theme # Builtin => site.theme \in Themes /\ site.theme # t
    BY <1>5 DEF ThemeInv, ThemeTypeOK, DatabaseTypeOK, Sites, SelectionsResolve
  <2> QED
    BY <1>7, <2>1, <2>2 DEF ThemeInv, SelectionsResolve, Selectable
<1> QED
  BY <1>1, <1>8, <1>9, <1>10, <1>11, <1>12, <1>13, <1>14 DEF ThemeInv, Backed

LEMMA RemoveKeeps ==
  ASSUME ThemeInv, RemoveDirs
  PROVE  ThemeInv'
<1> USE Names
<1>1. /\ up /\ op.step = "remove" /\ op' = NoOp
      /\ UNCHANGED <<database, memory, staging, up, revision, losses>>
  BY DEF RemoveDirs
<1>2. op \in Removals
  BY <1>1, StepMeans DEF ThemeInv, ThemeTypeOK
<1>3. PICK stuck \in SUBSET op.gone : dirs' = Without(dirs, op.gone \ stuck)
  BY DEF RemoveDirs
<1>4. dirs' \in [Versions -> {"absent", "intact", "damaged"}]
      /\ \A w \in versions : w \in Versions => dirs'[w] = dirs[w]
  BY <1>1, <1>3 DEF Without, ThemeInv, ThemeTypeOK, FilesTypeOK, RemovalSound
<1>5. versions \subseteq Versions
  BY DEF ThemeInv, ThemeTypeOK, MemoryTypeOK
<1>6. Unsettled = {} /\ Unsettled' = {} /\ Dropped = {} /\ Dropped' = {} /\ op' \in Operations
      /\ op'.step = "none" /\ op' \notin Installs
  BY <1>1 DEF Unsettled, Dropped, NoOp, Operations, Installs
<1>7. ThemeTypeOK' /\ Owned(themeRows)' /\ Owned(entries)'
  BY <1>1, <1>4, <1>6 DEF ThemeInv, ThemeTypeOK, DatabaseTypeOK, MemoryTypeOK, FilesTypeOK, Owned, database, memory
<1>8. MemoryFollows'
  BY <1>1, <1>6 DEF ThemeInv, MemoryFollows, Agrees, database, memory
<1>9. InstallSound' /\ RemovalSound' /\ InstallBacked'
  BY <1>6 DEF InstallSound, RemovalSound, InstallBacked
<1>10. ASSUME losses = 0 PROVE RowsBacked' /\ MemoryBacked'
  <2>1. RowsBacked /\ MemoryBacked
    BY <1>10 DEF ThemeInv, Backed
  <2>2. \A t \in Themes : themeRows[t] # Nil => themeRows[t].current \in versions
    BY <1>1, <1>6, <2>1, KeptMeans DEF ThemeInv, MemoryFollows, Agrees, RowsBacked
  <2> QED
    BY <1>1, <1>4, <1>5, <1>6, <2>1, <2>2 DEF RowsBacked, MemoryBacked, Recoverable, database, memory
<1>11. SelectionsResolve'
  BY <1>1 DEF ThemeInv, SelectionsResolve, Selectable, database, memory
<1> QED
  BY <1>1, <1>7, <1>8, <1>9, <1>10, <1>11 DEF ThemeInv, Backed

LEMMA CrashKeeps ==
  ASSUME ThemeInv, Crash
  PROVE  ThemeInv'
<1> USE Names
<1>1. /\ up' = FALSE /\ op' = NoOp
      /\ entries' = [t \in Themes |-> Nil] /\ versions' = {} /\ siteCopy' = [theme |-> Builtin, rev |-> 0]
      /\ UNCHANGED <<database, files, revision, losses>>
  BY DEF Crash
<1>2. op' \in Operations /\ op'.step = "none" /\ op' \notin Installs
  BY <1>1 DEF NoOp, Operations, Installs
<1>3. ThemeTypeOK' /\ Owned(themeRows)' /\ Owned(entries)'
  BY <1>1, <1>2 DEF ThemeInv, ThemeTypeOK, DatabaseTypeOK, MemoryTypeOK, FilesTypeOK, Sites, Owned, database, files
<1>4. versions' = KeptVersions(entries')
  BY <1>1, KeptMeans
<1>5. MemoryFollows' /\ InstallSound' /\ RemovalSound' /\ InstallBacked' /\ MemoryBacked'
  BY <1>1, <1>2, <1>4 DEF MemoryFollows, InstallSound, RemovalSound, InstallBacked, MemoryBacked
<1>6. losses = 0 => RowsBacked'
  BY <1>1 DEF ThemeInv, Backed, RowsBacked, Recoverable, database, files
<1>7. SelectionsResolve'
  BY <1>1 DEF ThemeInv, SelectionsResolve, database
<1> QED
  BY <1>1, <1>3, <1>5, <1>6, <1>7 DEF ThemeInv, Backed

LEMMA LoseKeeps ==
  ASSUME ThemeInv, NEW v \in Versions, Lose(v)
  PROVE  ThemeInv'
<1>1. /\ dirs' \in {[dirs EXCEPT ![v] = "absent"], [dirs EXCEPT ![v] = "damaged"]} /\ losses' = losses + 1
      /\ UNCHANGED <<database, memory, staging, up, op, revision>>
  BY DEF Lose
<1>2. dirs' \in [Versions -> {"absent", "intact", "damaged"}] /\ losses' \in Nat /\ losses' # 0
  BY <1>1 DEF ThemeInv, ThemeTypeOK, FilesTypeOK
<1>3. ThemeTypeOK' /\ Owned(themeRows)' /\ Owned(entries)'
  BY <1>1, <1>2 DEF ThemeInv, ThemeTypeOK, DatabaseTypeOK, MemoryTypeOK, FilesTypeOK, Owned, database, memory
<1>4. MemoryFollows' /\ InstallSound' /\ RemovalSound'
  BY <1>1 DEF ThemeInv, MemoryFollows, Agrees, Unsettled, InstallSound, RemovalSound, database, memory
<1>5. SelectionsResolve'
  BY <1>1 DEF ThemeInv, SelectionsResolve, Selectable, database, memory
<1> QED
  BY <1>2, <1>3, <1>4, <1>5 DEF ThemeInv, Backed

\* What recovery makes of a row.
LEMMA RecoveredMeans ==
  ASSUME ThemeInv, NEW t \in Themes, themeRows[t] # Nil
  PROVE  /\ RecoveredRow(t) \in Rows /\ RecoveredRow(t).enabled = themeRows[t].enabled
         /\ RecoveredRow(t).current \in {themeRows[t].current, themeRows[t].previous, Nil}
         /\ RecoveredRow(t).current # Nil => Recoverable(RecoveredRow(t).current)
         /\ RecoveredRow(t).previous # Nil =>
              /\ RecoveredRow(t).previous = themeRows[t].previous /\ Recoverable(themeRows[t].previous)
              /\ RecoveredRow(t).current = themeRows[t].current
         /\ Recoverable(themeRows[t].current) => RecoveredRow(t).current = themeRows[t].current
         /\ ~Recoverable(themeRows[t].current) /\ Recoverable(themeRows[t].previous) =>
              RecoveredRow(t).current = themeRows[t].previous
<1> DEFINE r == themeRows[t]
<1> USE Names
<1>1. r \in Rows /\ NextRevision \in Nat
  BY DEF ThemeInv, ThemeTypeOK, DatabaseTypeOK, NextRevision
<1>2. CASE Recoverable(r.current)
  <2>1. RecoveredRow(t) = [r EXCEPT !.previous = IF Recoverable(@) THEN @ ELSE Nil]
    BY <1>2 DEF RecoveredRow
  <2> DEFINE p == IF Recoverable(r.previous) THEN r.previous ELSE Nil
  <2>2. p \in Versions \union {Nil} /\ (p # Nil => p = r.previous /\ Recoverable(r.previous))
    BY <1>1 DEF Rows
  <2>3. RecoveredRow(t) = [r EXCEPT !.previous = p]
    BY <2>1
  <2> HIDE DEF p
  <2>4. [r EXCEPT !.previous = p] \in Rows /\ [r EXCEPT !.previous = p].previous = p
        /\ [r EXCEPT !.previous = p].current = r.current /\ [r EXCEPT !.previous = p].enabled = r.enabled
    BY <1>1, <2>2 DEF Rows
  <2> QED
    BY <1>2, <2>2, <2>3, <2>4
<1>3. CASE ~Recoverable(r.current) /\ Recoverable(r.previous)
  <2>1. RecoveredRow(t) = [r EXCEPT !.current = r.previous, !.previous = Nil, !.rev = NextRevision]
    BY <1>3 DEF RecoveredRow
  <2> DEFINE n == [r EXCEPT !.current = r.previous, !.previous = Nil, !.rev = NextRevision]
  <2>2. n \in Rows /\ n.current = r.previous /\ n.previous = Nil /\ n.enabled = r.enabled
    BY <1>1 DEF Rows
  <2> HIDE DEF n
  <2>3. RecoveredRow(t) = n
    BY <2>1 DEF n
  <2> QED
    BY <1>3, <2>2, <2>3
<1>4. CASE ~Recoverable(r.current) /\ ~Recoverable(r.previous)
  <2>1. RecoveredRow(t) = [r EXCEPT !.current = Nil, !.previous = Nil]
    BY <1>4 DEF RecoveredRow
  <2> DEFINE n == [r EXCEPT !.current = Nil, !.previous = Nil]
  <2>2. n \in Rows /\ n.current = Nil /\ n.previous = Nil /\ n.enabled = r.enabled
    BY <1>1 DEF Rows
  <2> HIDE DEF n
  <2>3. RecoveredRow(t) = n
    BY <2>1 DEF n
  <2> QED
    BY <1>4, <2>2, <2>3
<1> QED
  BY <1>2, <1>3, <1>4

\* What Recover does to the tables, whatever leftovers it can remove.
LEMMA RecoverMeans ==
  ASSUME ThemeInv, Recover
  PROVE  /\ ~up /\ up' /\ op = NoOp /\ op' = NoOp /\ prefs' = prefs /\ losses' = losses /\ staging' = Nil
         /\ siteCopy' = site' /\ revision' \in Nat
         /\ themeRows' = [t \in Themes |-> RecoveredRow(t)]
         /\ entries' \in [Themes -> Entries \union {Nil}]
         /\ \A t \in Themes :
              /\ (entries'[t] = Nil) = (themeRows[t] = Nil) /\ (RecoveredRow(t) = Nil) = (themeRows[t] = Nil)
              /\ entries'[t] # Nil =>
                   /\ entries'[t].current = RecoveredRow(t).current
                   /\ entries'[t].previous = RecoveredRow(t).previous
                   /\ entries'[t].enabled = RecoveredRow(t).enabled /\ entries'[t].rev = RecoveredRow(t).rev
                   /\ entries'[t].available = (entries'[t].current # Nil)
         /\ versions' = KeptVersions(entries') /\ registered' = registered \intersect versions'
         /\ dirs' \in [Versions -> {"absent", "intact", "damaged"}]
         /\ \A w \in versions' : w \in Versions => dirs'[w] = dirs[w]
         /\ \/ site' = [theme |-> Builtin, rev |-> NextRevision]
            \/ site' = site /\ (site.theme = Builtin
                                \/ (entries'[site.theme] # Nil /\ entries'[site.theme].current # Nil))
<1> DEFINE next == [t \in Themes |-> RecoveredRow(t)]
           held == {t \in Themes : next[t] # Nil}
           kept == (UNION {{next[t].current, next[t].previous} : t \in held}) \ {Nil}
           reset == site.theme # Builtin /\ ~(site.theme \in held /\ next[site.theme].current # Nil)
           new == reset \/ \E t \in held : next[t].rev # themeRows[t].rev
<1> USE Names
<1>1. /\ ~up /\ up' /\ prefs' = prefs /\ op' = op /\ losses' = losses /\ staging' = Nil
      /\ themeRows' = next /\ registered' = registered \intersect kept
      /\ site' = IF reset THEN [theme |-> Builtin, rev |-> NextRevision] ELSE site
      /\ siteCopy' = site' /\ revision' = (IF new THEN NextRevision ELSE revision)
      /\ entries' = [t \in Themes |->
           IF next[t] = Nil THEN Nil ELSE Entry(next[t], next[t].current, next[t].previous)]
      /\ versions' = kept
      /\ \E stuck \in SUBSET {v \in Versions : Present(v)} : dirs' = Without(dirs, Versions \ (kept \union stuck))
  BY DEF Recover
<1>2. op = NoOp
  BY <1>1 DEF ThemeInv, MemoryFollows
<1>3. revision' \in Nat
  BY <1>1 DEF ThemeInv, ThemeTypeOK, NextRevision
<1>4. \A t \in Themes : next[t] = RecoveredRow(t) /\ (themeRows[t] = Nil => RecoveredRow(t) = Nil)
  BY DEF RecoveredRow
<1>5. \A t \in Themes : themeRows[t] # Nil => RecoveredRow(t) \in Rows /\ RecoveredRow(t) # Nil
  BY RecoveredMeans
<1> HIDE DEF next
<1>6. ASSUME NEW n \in Rows
      PROVE  /\ Entry(n, n.current, n.previous) \in Entries /\ Entry(n, n.current, n.previous) # Nil
             /\ Entry(n, n.current, n.previous).current = n.current
             /\ Entry(n, n.current, n.previous).previous = n.previous
             /\ Entry(n, n.current, n.previous).enabled = n.enabled
             /\ Entry(n, n.current, n.previous).rev = n.rev
             /\ Entry(n, n.current, n.previous).available = (n.current # Nil)
  <2> DEFINE en == Entry(n, n.current, n.previous)
  <2>1. en \in Entries
    BY <1>6 DEF Entry, Entries, Rows
  <2>2. en # Nil
    BY <2>1
  <2>3. /\ en.current = n.current /\ en.previous = n.previous /\ en.enabled = n.enabled
        /\ en.rev = n.rev
    BY DEF Entry
  <2>4. en.available = (n.current # Nil)
    BY DEF Entry
  <2> QED
    BY <2>1, <2>2, <2>3, <2>4
<1>7. \A t \in Themes : entries'[t] =
         IF next[t] = Nil THEN Nil ELSE Entry(next[t], next[t].current, next[t].previous)
  BY <1>1
<1>8. \A t \in Themes : themeRows[t] = Nil => entries'[t] = Nil
  BY <1>4, <1>7
<1>9. ASSUME NEW t \in Themes, themeRows[t] # Nil
      PROVE  /\ entries'[t] \in Entries /\ entries'[t] # Nil
             /\ entries'[t].current = RecoveredRow(t).current
             /\ entries'[t].previous = RecoveredRow(t).previous
             /\ entries'[t].enabled = RecoveredRow(t).enabled /\ entries'[t].rev = RecoveredRow(t).rev
             /\ entries'[t].available = (entries'[t].current # Nil)
  <2>1. RecoveredRow(t) \in Rows /\ RecoveredRow(t) # Nil /\ next[t] = RecoveredRow(t)
    BY <1>4, <1>5, <1>9
  <2> DEFINE n == RecoveredRow(t)
  <2>2. entries'[t] = Entry(n, n.current, n.previous)
    BY <1>7, <2>1
  <2> HIDE DEF n
  <2>3. n \in Rows
    BY <2>1 DEF n
  <2>4. /\ entries'[t] \in Entries /\ entries'[t] # Nil
        /\ entries'[t].current = n.current /\ entries'[t].previous = n.previous
        /\ entries'[t].enabled = n.enabled /\ entries'[t].rev = n.rev
    BY <1>6, <2>2, <2>3
  <2>5. entries'[t].available = (n.current # Nil)
    BY <1>6, <2>2, <2>3
  <2> QED
    BY <2>4, <2>5 DEF n
<1>10. entries' \in [Themes -> Entries \union {Nil}]
  <2>1. \A t \in Themes : entries'[t] \in Entries \union {Nil}
    BY <1>8, <1>9
  <2> DEFINE f(t) == IF next[t] = Nil THEN Nil ELSE Entry(next[t], next[t].current, next[t].previous)
  <2>2. entries' = [t \in Themes |-> f(t)]
    BY <1>1
  <2> HIDE DEF f
  <2> QED
    BY <2>1, <2>2
<1>11. held = {t \in Themes : themeRows[t] # Nil}
  BY <1>4, <1>5
<1>12. \A w : w \in kept <=> w \in KeptVersions(entries')
  <2>1. \A w : w \in kept <=> w # Nil /\ \E t \in Themes : themeRows[t] # Nil
                              /\ (w = RecoveredRow(t).current \/ w = RecoveredRow(t).previous)
    BY <1>4, <1>11
  <2>2. \A w : w \in KeptVersions(entries') <=> w # Nil /\ \E t \in Themes : themeRows[t] # Nil
                              /\ (w = RecoveredRow(t).current \/ w = RecoveredRow(t).previous)
    BY <1>8, <1>9, KeptMeans
  <2> QED
    BY <2>1, <2>2
<1>13. versions' = KeptVersions(entries')
  BY <1>1, <1>12
<1>14. PICK stuck \in SUBSET {v \in Versions : Present(v)} : dirs' = Without(dirs, Versions \ (kept \union stuck))
  BY <1>1
<1>15. /\ dirs' \in [Versions -> {"absent", "intact", "damaged"}]
       /\ \A w \in kept : w \in Versions => dirs'[w] = dirs[w]
  <2>1. dirs \in [Versions -> {"absent", "intact", "damaged"}]
    BY DEF ThemeInv, ThemeTypeOK, FilesTypeOK
  <2> HIDE DEF kept
  <2> QED
    BY <1>14, <2>1 DEF Without
<1>16. site.theme # Builtin => site.theme \in Themes
  BY DEF ThemeInv, ThemeTypeOK, DatabaseTypeOK, Sites
<1>17. ~reset => site.theme = Builtin \/ (entries'[site.theme] # Nil /\ entries'[site.theme].current # Nil)
  BY <1>4, <1>9, <1>11, <1>16
<1> HIDE DEF reset, kept, held, new
<1>18. \/ site' = [theme |-> Builtin, rev |-> NextRevision]
       \/ site' = site /\ (site.theme = Builtin
                           \/ (entries'[site.theme] # Nil /\ entries'[site.theme].current # Nil))
  BY <1>1, <1>17
<1>19. ASSUME NEW t \in Themes
       PROVE  /\ (entries'[t] = Nil) = (themeRows[t] = Nil) /\ (RecoveredRow(t) = Nil) = (themeRows[t] = Nil)
              /\ entries'[t] # Nil =>
                   /\ entries'[t].current = RecoveredRow(t).current
                   /\ entries'[t].previous = RecoveredRow(t).previous
                   /\ entries'[t].enabled = RecoveredRow(t).enabled /\ entries'[t].rev = RecoveredRow(t).rev
                   /\ entries'[t].available = (entries'[t].current # Nil)
  <2>1. CASE themeRows[t] = Nil
    BY <1>4, <1>8, <2>1
  <2>2. CASE themeRows[t] # Nil
    BY <1>5, <1>9, <2>2
  <2> QED
    BY <2>1, <2>2
<1>20. themeRows' = [t \in Themes |-> RecoveredRow(t)]
  BY <1>1 DEF next
<1> QED
  BY <1>1, <1>2, <1>3, <1>10, <1>13, <1>15, <1>18, <1>19, <1>20

LEMMA RecoverKeeps ==
  ASSUME ThemeInv, Recover
  PROVE  ThemeInv'
<1> USE Names
<1>1. /\ ~up /\ up' /\ op' = NoOp /\ prefs' = prefs /\ losses' = losses /\ staging' = Nil
      /\ siteCopy' = site' /\ revision' \in Nat
      /\ themeRows' = [t \in Themes |-> RecoveredRow(t)]
      /\ entries' \in [Themes -> Entries \union {Nil}]
      /\ versions' = KeptVersions(entries') /\ registered' = registered \intersect versions'
      /\ dirs' \in [Versions -> {"absent", "intact", "damaged"}]
      /\ \A w \in versions' : w \in Versions => dirs'[w] = dirs[w]
  BY RecoverMeans
<1>2. \A t \in Themes :
        /\ themeRows'[t] = RecoveredRow(t)
        /\ (entries'[t] = Nil) = (themeRows[t] = Nil) /\ (themeRows'[t] = Nil) = (themeRows[t] = Nil)
  BY <1>1, RecoverMeans
<1>3. \A t \in Themes : entries'[t] # Nil =>
        /\ entries'[t].current = themeRows'[t].current /\ entries'[t].previous = themeRows'[t].previous
        /\ entries'[t].enabled = themeRows'[t].enabled /\ entries'[t].rev = themeRows'[t].rev
        /\ entries'[t].available = (entries'[t].current # Nil)
  BY <1>2, RecoverMeans
<1>4. \A t \in Themes : themeRows[t] # Nil =>
        /\ themeRows'[t] \in Rows /\ themeRows'[t].enabled = themeRows[t].enabled
        /\ themeRows'[t].current \in {themeRows[t].current, themeRows[t].previous, Nil}
        /\ themeRows'[t].current # Nil => Recoverable(themeRows'[t].current)
        /\ themeRows'[t].previous # Nil =>
             /\ themeRows'[t].previous = themeRows[t].previous /\ Recoverable(themeRows[t].previous)
             /\ themeRows'[t].current = themeRows[t].current
        /\ Recoverable(themeRows[t].current) => themeRows'[t].current = themeRows[t].current
  BY <1>2, RecoveredMeans
<1>5. themeRows' \in [Themes -> Rows \union {Nil}]
  <2>1. \A t \in Themes : RecoveredRow(t) \in Rows \union {Nil}
    BY <1>2, <1>4
  <2> QED
    BY <1>1, <2>1
<1>6. /\ \/ site' = [theme |-> Builtin, rev |-> NextRevision]
         \/ site' = site /\ (site.theme = Builtin
                             \/ (entries'[site.theme] # Nil /\ entries'[site.theme].current # Nil))
      /\ site' \in Sites /\ (site.theme # Builtin => site.theme \in Themes)
  <2>1. \/ site' = [theme |-> Builtin, rev |-> NextRevision]
        \/ site' = site /\ (site.theme = Builtin
                            \/ (entries'[site.theme] # Nil /\ entries'[site.theme].current # Nil))
    BY RecoverMeans
  <2>2. site \in Sites /\ [theme |-> Builtin, rev |-> NextRevision] \in Sites
    BY DEF ThemeInv, ThemeTypeOK, DatabaseTypeOK, Sites, NextRevision
  <2>3. site.theme # Builtin => site.theme \in Themes
    BY <2>2 DEF Sites
  <2> QED
    BY <2>1, <2>2, <2>3
<1>7. versions' \subseteq Versions
  BY <1>1, KeptMeans DEF Entries
<1>8. ThemeTypeOK'
  <2>1. DatabaseTypeOK'
    BY <1>1, <1>5, <1>6 DEF ThemeInv, ThemeTypeOK, DatabaseTypeOK
  <2>2. MemoryTypeOK'
    BY <1>1, <1>6, <1>7 DEF MemoryTypeOK
  <2>3. FilesTypeOK'
    BY <1>1 DEF FilesTypeOK
  <2> QED
    BY <1>1, <2>1, <2>2, <2>3 DEF ThemeInv, ThemeTypeOK, Operations
<1>9. Owned(themeRows)'
  BY <1>2, <1>4 DEF ThemeInv, Owned
<1>10. Owned(entries)'
  BY <1>2, <1>3, <1>9 DEF Owned
<1>11. Unsettled' = {} /\ Dropped' = {} /\ op'.step = "none" /\ op' \notin Installs
  BY <1>1 DEF Unsettled, Dropped, NoOp, Installs
<1>12. MemoryFollows'
  <2>1. \A t \in Themes : Agrees(t)'
    BY <1>2, <1>3 DEF Agrees
  <2> QED
    BY <1>1, <1>3, <2>1 DEF MemoryFollows
<1>13. InstallSound' /\ RemovalSound' /\ InstallBacked'
  BY <1>11 DEF InstallSound, RemovalSound, InstallBacked
<1>14. \A w \in versions' : Recoverable(w) /\ w \in registered' /\ dirs'[w] = "intact"
  <2> SUFFICES ASSUME NEW w \in versions' PROVE Recoverable(w)
    BY <1>1, <1>7 DEF Recoverable
  <2>1. PICK t \in Themes : w # Nil /\ entries'[t] # Nil /\ (w = entries'[t].current \/ w = entries'[t].previous)
    BY <1>1, KeptMeans
  <2> QED
    BY <1>2, <1>3, <1>4, <2>1
<1>15. losses = 0 => RowsBacked'
  <2> SUFFICES ASSUME losses = 0, NEW t \in Themes, themeRows'[t] # Nil
               PROVE  themeRows'[t].current # Nil /\ themeRows'[t].current \in versions'
    BY <1>14, <1>7 DEF RowsBacked, Recoverable
  <2>1. themeRows[t] # Nil /\ themeRows[t].current # Nil /\ Recoverable(themeRows[t].current)
    BY <1>2 DEF ThemeInv, Backed, RowsBacked
  <2>2. entries'[t] # Nil /\ entries'[t].current = themeRows'[t].current
        /\ themeRows'[t].current = themeRows[t].current
    BY <1>2, <1>3, <1>4, <2>1
  <2> QED
    BY <1>1, <2>1, <2>2, KeptMeans
<1>16. MemoryBacked'
  BY <1>14 DEF MemoryBacked
<1>17. SelectionsResolve'
  <2>1. \A u \in Members : prefs'[u] # Nil /\ prefs'[u].theme \in Themes => themeRows'[prefs'[u].theme] # Nil
    BY <1>1, <1>2 DEF ThemeInv, SelectionsResolve
  <2>2. CASE site' = [theme |-> Builtin, rev |-> NextRevision]
    <3>1. site'.theme = Builtin
      BY <2>2
    <3> QED
      BY <1>1, <2>1, <3>1 DEF SelectionsResolve
  <2>3. CASE /\ site' = site
             /\ site.theme = Builtin \/ (entries'[site.theme] # Nil /\ entries'[site.theme].current # Nil)
    <3>1. site.theme # Builtin => /\ themeRows'[site.theme] # Nil /\ themeRows'[site.theme].enabled
                                  /\ entries'[site.theme] # Nil /\ entries'[site.theme].enabled
                                  /\ entries'[site.theme].available
      <4>1. site.theme # Builtin => themeRows[site.theme] # Nil /\ themeRows[site.theme].enabled
        BY DEF ThemeInv, SelectionsResolve
      <4> QED
        BY <1>2, <1>3, <1>4, <1>6, <2>3, <4>1
    <3> QED
      BY <1>1, <2>1, <2>3, <3>1 DEF SelectionsResolve, Selectable
  <2> QED
    BY <1>6, <2>2, <2>3
<1> QED
  BY <1>1, <1>8, <1>9, <1>10, <1>12, <1>13, <1>15, <1>16, <1>17 DEF ThemeInv, Backed

LEMMA ThemeStep == ThemeInv /\ [ThemeNext]_themeVars => ThemeInv'
<1> SUFFICES ASSUME ThemeInv, [ThemeNext]_themeVars PROVE ThemeInv'
  OBVIOUS
<1>1. CASE UNCHANGED themeVars
  BY <1>1 DEF themeVars, database, memory, files, ThemeInv, ThemeTypeOK, DatabaseTypeOK, MemoryTypeOK, FilesTypeOK,
     Owned, MemoryFollows, Agrees, Unsettled, InstallSound, RemovalSound, Backed, RowsBacked, MemoryBacked,
     InstallBacked, Recoverable, Dropped, SelectionsResolve, Selectable
<1>2. CASE \E v \in Versions : BeginInstall(v) \/ Lose(v)
  BY <1>2, BeginKeeps, LoseKeeps
<1>3. CASE Stage \/ RenameStaged \/ CommitInstall \/ Publish \/ Forget \/ RemoveDirs
  BY <1>3, StageKeeps, RenameKeeps, CommitKeeps, PublishKeeps, ForgetKeeps, RemoveKeeps
<1>4. CASE \E t \in Themes : SetEnabled(t, TRUE) \/ SetEnabled(t, FALSE) \/ DeleteTheme(t)
  BY <1>4, EnabledKeeps, DeleteKeeps
<1>5. CASE \E t \in Themes \union {Builtin} : SetSiteDefault(t)
  BY <1>5, DefaultKeeps
<1>6. CASE \E u \in Members : GetPreference(u) \/ DeleteUserPreferences(u)
                            \/ \E t \in Themes \union {Builtin, Site} : SavePreference(u, t)
  BY <1>6, PreferenceKeeps
<1>7. CASE Crash \/ Recover
  BY <1>7, CrashKeeps, RecoverKeeps
<1> QED
  BY <1>1, <1>2, <1>3, <1>4, <1>5, <1>6, <1>7 DEF ThemeNext

\* The themes and their files stay in shape: every step keeps the inductive invariant.
THEOREM ThemesSound == ThemeSpec => []ThemeInv
BY ThemeInitHolds, ThemeStep, PTL DEF ThemeSpec

\* What the site and the users have chosen can be found, for every set of themes.
THEOREM ChoicesResolve == ThemeSpec => []SelectionsResolve
<1>1. ThemeInv => SelectionsResolve
  BY DEF ThemeInv
<1> QED
  BY <1>1, ThemesSound, PTL

LEMMA FilesFollow == ThemeInv => NoRowWithoutFiles
<1> SUFFICES ASSUME ThemeInv, losses = 0 PROVE NoRowWithoutFiles
  BY DEF NoRowWithoutFiles
<1>1. RowsBacked /\ MemoryBacked
  BY DEF ThemeInv, Backed
<1>2. \A t \in Installed(themeRows) : Recoverable(themeRows[t].current)
  BY <1>1 DEF RowsBacked, Installed
<1>3. ASSUME Ready PROVE \A v \in versions : v \in registered /\ dirs[v] = "intact"
  BY <1>1, <1>3, ReadyMeans DEF MemoryBacked
<1>4. ASSUME Ready PROVE \A v \in Listed : Served(v)
  BY <1>3, <1>4, KeptMeans DEF Listed, Served, Selectable, ThemeInv, MemoryFollows
<1>5. ASSUME Ready, NEW t \in Themes
      PROVE  /\ Agrees(t)
             /\ entries[t] # Nil /\ entries[t].previous # Nil => Recoverable(themeRows[t].previous)
  <2>1. Agrees(t)
    BY <1>5, ReadyMeans
  <2>2. entries[t] # Nil /\ entries[t].previous # Nil => entries[t].previous \in versions
    BY KeptMeans DEF ThemeInv, MemoryFollows
  <2> QED
    BY <1>3, <1>5, <2>1, <2>2 DEF Agrees, Recoverable
<1> QED
  BY <1>2, <1>4, <1>5 DEF NoRowWithoutFiles, Agrees

\* Without damage by others a row of the database has its descriptor and its directory,
\* and the open store serves what the rows name, at every step of every operation.
THEOREM RowsHaveFiles == ThemeSpec => []NoRowWithoutFiles
BY FilesFollow, ThemesSound, PTL

LEMMA RowsStay ==
  ASSUME ThemeInv, [ThemeNext]_themeVars, NEW t \in Themes,
         themeRows[t] # Nil, themeRows[t].current # Nil,
         themeRows'[t] = Nil \/ themeRows'[t].current # themeRows[t].current
  PROVE  IF up THEN (op.step = "commit" /\ Owner[op.version] = t) \/ themeRows'[t] = Nil
         ELSE /\ ~Recoverable(themeRows[t].current) /\ losses # 0
              /\ themeRows'[t] # Nil
              /\ Recoverable(themeRows[t].previous) => themeRows'[t].current = themeRows[t].previous
<1> USE Names
<1>1. themeRows' # themeRows
  OBVIOUS
<1>2. \/ CommitInstall \/ Recover
      \/ \E s \in Themes : SetEnabled(s, TRUE) \/ SetEnabled(s, FALSE) \/ DeleteTheme(s)
  BY <1>1 DEF ThemeNext, themeVars, database, BeginInstall, Lose, Stage, RenameStaged, Publish, Forget, RemoveDirs,
     SetSiteDefault, GetPreference, DeleteUserPreferences, SavePreference, Crash
<1>3. themeRows \in [Themes -> Rows \union {Nil}]
  BY DEF ThemeInv, ThemeTypeOK, DatabaseTypeOK
<1>4. CASE CommitInstall
  BY <1>1, <1>3, <1>4 DEF CommitInstall
<1>5. CASE Recover
  <2>1. ~up /\ themeRows'[t] = RecoveredRow(t) /\ RecoveredRow(t) # Nil
    BY <1>5, RecoverMeans
  <2> QED
    BY <2>1, RecoveredMeans DEF ThemeInv, Backed, RowsBacked
<1>6. ASSUME NEW s \in Themes, NEW enabled \in BOOLEAN, SetEnabled(s, enabled)
      PROVE  FALSE
  <2> DEFINE row == [enabled |-> enabled, current |-> entries[s].current,
                     previous |-> entries[s].previous, rev |-> NextRevision]
  <2>1. entries[s] \in Entries /\ Agrees(s) /\ themeRows' = [themeRows EXCEPT ![s] = row]
    BY <1>6, ReadyMeans DEF SetEnabled, ThemeInv, ThemeTypeOK, MemoryTypeOK
  <2>2. row \in Rows /\ row.current = entries[s].current
    BY <2>1 DEF Rows, Entries, NextRevision, ThemeInv, ThemeTypeOK
  <2>3. row # Nil /\ row.current = themeRows[s].current
    BY <2>1, <2>2 DEF Agrees
  <2> HIDE DEF row
  <2> QED
    BY <1>3, <2>1, <2>3
<1>7. ASSUME NEW s \in Themes, DeleteTheme(s)
      PROVE  up /\ themeRows'[t] = Nil
  BY <1>3, <1>7 DEF DeleteTheme, Ready
<1> QED
  BY <1>2, <1>4, <1>5, <1>6, <1>7

\* A published theme is served until it is deleted: no crash, and no start after one,
\* takes a whole version away.
THEOREM PublishedThemesStay == ThemeSpec => PublishedStays
<1>1. ThemeInv /\ [ThemeNext]_themeVars =>
        [\A t \in Themes : themeRows[t] # Nil /\ themeRows[t].current # Nil
           /\ (themeRows'[t] = Nil \/ themeRows'[t].current # themeRows[t].current) =>
             IF up THEN (op.step = "commit" /\ Owner[op.version] = t) \/ themeRows'[t] = Nil
             ELSE /\ ~Recoverable(themeRows[t].current) /\ losses # 0
                  /\ themeRows'[t] # Nil
                  /\ Recoverable(themeRows[t].previous) => themeRows'[t].current = themeRows[t].previous]_themeVars
  BY RowsStay
<1> QED
  BY <1>1, ThemesSound, PTL DEF ThemeSpec, PublishedStays

(***************************************************************************)
(* The viewing statistics.                                                 *)
(***************************************************************************)

Steps == {"idle", "sent", "threshold", "fetched", "observe", "write", "mark", "finish"}
Events == [step : Steps, kind : {"Report", "Stopped"}, key : Keys \union {None}, seq : Nat, at : Nat,
           pos : Nat \union {None}, min : Nat \union {None}, activity : Nat, qualified : Nat,
           stored : BOOLEAN]
Policies == [enabled : BOOLEAN, min : Thresholds, manual : Nat, scope : Accounts \union {None}, rev : Nat]
Summaries == [scope : Accounts \union {None}, activity : Nat, qualified : Nat, by : SUBSET Accounts]
Forms == [rev : Nat, account : Accounts \union {None}]

RowsTypeOK ==
  /\ account \in Accounts \union {Blank, None} /\ ensured \in Accounts \union {None}
  /\ policy \in Policies /\ summary \in Summaries /\ form \in Forms
  /\ cache \in Thresholds \union {0, None}
TrackerTypeOK ==
  /\ sessions \in [Keys -> Sessions \union {None}]
  /\ event \in [Handlers -> Events] /\ seq \in Nat /\ now \in Nat
ActivityTypeOK == RowsTypeOK /\ TrackerTypeOK

\* The rows known to be there are the account's, and what they say is of one account.
RowsSound ==
  /\ account = None => ensured = None
  /\ ensured \in Accounts => summary.scope = ensured
  /\ policy.rev = 0 => account = None
  /\ policy.scope = None => policy.manual = 0
  /\ summary.by \subseteq {summary.scope}
  /\ summary.qualified # 0 => summary.by = {summary.scope} /\ summary.scope # None
\* A form is never newer than the row; one as new as the row was made for its account.
FormSound ==
  /\ form # NoForm => form.account \in Accounts
  /\ account # None =>
       /\ form.rev <= policy.rev
       /\ form.rev # 0 /\ form.rev = policy.rev => summary.scope = form.account

\* An event under way was numbered and timed on receipt, in one order.
Busy(h) == event[h].step # "idle"
EventsSound ==
  /\ \A h \in Handlers : Busy(h) =>
       /\ event[h].key \in Keys /\ event[h].seq \in 1..seq /\ event[h].at <= now
       /\ event[h].step \in {"fetched", "observe"} => event[h].min \in Thresholds
  /\ \A g, h \in Handlers : Busy(g) /\ Busy(h) /\ event[g].seq < event[h].seq => event[g].at <= event[h].at

\* A session knows nothing newer than its last sample, and its credit lies between its
\* first sample and its last valid one.
SessionSound(s) ==
  /\ s.seq \in 1..seq /\ s.seen <= now /\ s.born <= s.seen /\ s.valid <= s.seen
  /\ s.base => s.born <= s.baseAt /\ s.valid <= s.baseAt /\ s.baseAt <= s.seen
  /\ s.valid = 0 => s.credit = 0
  /\ s.valid # 0 => s.credit + s.born <= s.valid
  /\ s.qualified => s.credit >= s.min /\ s.valid # 0
SessionsSound == \A k \in Keys : Live(k) => SessionSound(sessions[k])
\* A sample that would count was taken after the last that did.
SamplesFollow ==
  \A k \in Keys, h \in Handlers : Live(k) /\ Busy(h) /\ event[h].key = k /\ event[h].seq > sessions[k].seq
                                => sessions[k].seen <= event[h].at

\* The write a claim waits for.
Writing(h, k) ==
  /\ event[h].key = k /\ event[h].at = sessions[k].attempt /\ event[h].step \in {"write", "mark"}
  /\ event[h].qualified >= sessions[k].claimed /\ event[h].qualified # 0
ClaimsBacked ==
  \A k \in Keys : Live(k) /\ sessions[k].attempt # 0 =>
    sessions[k].persisted >= sessions[k].claimed \/ \E h \in Handlers : Writing(h, k)

RowsInv == RowsTypeOK /\ RowsSound /\ FormSound
TrackerInv == TrackerTypeOK /\ EventsSound /\ SessionsSound /\ SamplesFollow /\ ClaimsBacked
ActivityInv == RowsInv /\ TrackerInv

-----------------------------------------------------------------------------
(* The rows, the form and the cache.                                        *)

\* None is no moment, no session and no key; Blank is no account.
LEMMA Absent ==
  /\ None \notin Accounts /\ Blank \notin Accounts /\ None # Blank /\ None \notin Nat
  /\ None \notin Sessions /\ None \notin Keys /\ DefaultMin \in Thresholds /\ Thresholds \subseteq Nat \ {0}
  /\ MaxSampleGap \in Nat /\ SeekFactor \in Nat \ {0} /\ Refresh \in Nat \ {0} /\ Positions \subseteq Nat
BY ActivityBounds, AccountNames, NoneIsAbsence

\* The rows of an account: they are its own, and new when they were another's.
LEMMA ScopedMeans ==
  ASSUME RowsInv, NEW a \in Accounts
  PROVE  /\ ScopedPolicy(a) \in Policies /\ ScopedPolicy(a).rev # 0 /\ ScopedPolicy(a).rev >= policy.rev
         /\ ScopedPolicy(a).scope = None => ScopedPolicy(a).manual = 0
         /\ summary.scope # a /\ policy.rev # 0 => ScopedPolicy(a).rev > policy.rev
         /\ summary.scope = a /\ policy.rev # 0 => ScopedPolicy(a) = policy
         /\ ScopedSummary(a) \in Summaries /\ ScopedSummary(a).scope = a
         /\ ScopedSummary(a).by \subseteq {a}
         /\ ScopedSummary(a).qualified # 0 => ScopedSummary(a).by = {a}
<1> USE Absent
<1>1. policy \in Policies /\ summary \in Summaries
  BY DEF RowsInv, RowsTypeOK
<1>2. NewPolicy(1) \in Policies /\ NewPolicy(1).rev = 1 /\ NewPolicy(1).manual = 0
  <2>1. NoPolicy \in Policies /\ NoPolicy.manual = 0
    BY DEF NoPolicy, Policies
  <2> QED
    BY <2>1 DEF NewPolicy, NoPolicy, Policies
<1>3. policy.rev # 0 => /\ Rescoped(policy) \in Policies /\ Rescoped(policy).rev = policy.rev + 1
                        /\ Rescoped(policy).manual = 0
  <2> DEFINE n == [policy EXCEPT !.manual = 0, !.scope = None, !.rev = policy.rev + 1]
  <2>1. n \in Policies
    <3>1. policy.rev + 1 \in Nat
      BY <1>1 DEF Policies
    <3> QED
      BY <1>1, <3>1 DEF Policies
  <2>2. n.rev = policy.rev + 1 /\ n.manual = 0
    BY <1>1 DEF Policies
  <2>3. policy.rev # 0 => Rescoped(policy) = n
    BY DEF Rescoped, Revised
  <2> HIDE DEF n
  <2> QED
    BY <2>1, <2>2, <2>3
<1>4. policy.rev = 0 => Rescoped(policy) = NewPolicy(1)
  BY DEF Rescoped
<1>5. policy.rev \in Nat
  BY <1>1 DEF Policies
<1>6. ScopedPolicy(a) \in {policy, NewPolicy(1), Rescoped(policy)}
      /\ (summary.scope # a => ScopedPolicy(a) = Rescoped(policy))
      /\ (summary.scope = a /\ policy.rev = 0 => ScopedPolicy(a) = NewPolicy(1))
      /\ (summary.scope = a /\ policy.rev # 0 => ScopedPolicy(a) = policy)
  BY DEF ScopedPolicy
<1>7. /\ ScopedPolicy(a) \in Policies /\ ScopedPolicy(a).rev # 0 /\ ScopedPolicy(a).rev >= policy.rev
      /\ ScopedPolicy(a).scope = None => ScopedPolicy(a).manual = 0
      /\ summary.scope # a /\ policy.rev # 0 => ScopedPolicy(a).rev > policy.rev
  <2>1. policy.scope = None => policy.manual = 0
    BY DEF RowsInv, RowsSound
  <2>2. CASE summary.scope = a /\ policy.rev # 0
    BY <1>1, <1>5, <1>6, <2>1, <2>2
  <2>3. CASE policy.rev = 0
    <3>1. ScopedPolicy(a) = NewPolicy(1)
      BY <1>4, <1>6, <2>3
    <3> QED
      BY <1>2, <2>3, <3>1
  <2>4. CASE summary.scope # a /\ policy.rev # 0
    <3>1. ScopedPolicy(a) = Rescoped(policy)
      BY <1>6, <2>4
    <3> QED
      BY <1>3, <1>5, <2>4, <3>1
  <2> QED
    BY <2>2, <2>3, <2>4
<1>8. /\ ScopedSummary(a) \in Summaries /\ ScopedSummary(a).scope = a
      /\ ScopedSummary(a).by \subseteq {a}
      /\ ScopedSummary(a).qualified # 0 => ScopedSummary(a).by = {a}
  <2>1. NoSummary \in Summaries
    BY DEF NoSummary, Summaries
  <2> QED
    BY <1>1, <2>1 DEF ScopedSummary, NoSummary, Summaries, RowsInv, RowsSound
<1> QED
  BY <1>6, <1>7, <1>8

\* Making sure of the rows: what a form was made from is replaced with the account.
LEMMA EnsureMeans ==
  ASSUME RowsInv, account \in Accounts, NEW ok \in BOOLEAN, EnsureRows(ok), account' = account
  PROVE  /\ policy' \in Policies /\ summary' \in Summaries /\ ensured' \in Accounts \union {None}
         /\ RowsSound'
         /\ policy'.rev >= policy.rev /\ (policy'.rev = policy.rev => summary'.scope = summary.scope)
         /\ ok => summary'.scope = account
<1> USE Absent
<1>1. policy \in Policies /\ summary \in Summaries /\ ensured \in Accounts \union {None}
      /\ policy.rev # 0 /\ policy.rev \in Nat
  BY DEF RowsInv, RowsTypeOK, RowsSound, Policies
<1>2. CASE ensured = account \/ ~ok
  <2>1. UNCHANGED <<policy, summary, ensured>>
    BY <1>2 DEF EnsureRows, storeVars
  <2> QED
    BY <1>1, <1>2, <2>1 DEF RowsInv, RowsSound, EnsureRows
<1>3. CASE ensured # account /\ ok
  <2>1. summary' = ScopedSummary(account) /\ policy' = ScopedPolicy(account) /\ ensured' = account
    BY <1>3 DEF EnsureRows
  <2>2. policy'.rev >= policy.rev /\ (policy'.rev = policy.rev => summary'.scope = summary.scope)
    BY <1>1, <2>1, ScopedMeans
  <2>3. RowsSound'
    BY <2>1, ScopedMeans DEF RowsSound
  <2> QED
    BY <2>1, <2>2, <2>3, ScopedMeans
<1> QED
  BY <1>2, <1>3

\* A form that stays is as old as it was.
LEMMA FormStays ==
  ASSUME RowsInv, form' = form, account # None, policy' \in Policies,
         policy'.rev >= policy.rev, policy'.rev = policy.rev => summary'.scope = summary.scope
  PROVE  FormSound'
<1>1. form.rev \in Nat /\ policy.rev \in Nat /\ policy'.rev \in Nat
  BY DEF RowsInv, RowsTypeOK, Forms, Policies
<1> QED
  BY <1>1 DEF RowsInv, FormSound

LEMMA ShowKeepsRows ==
  ASSUME RowsInv, NEW keep \in BOOLEAN, ShowActivity(keep)
  PROVE  RowsInv'
<1> USE Absent
<1>1. account # None /\ account' = account
  BY DEF ShowActivity
<1>2. CASE account = Blank
  BY <1>1, <1>2 DEF ShowActivity, storeVars, RowsInv, RowsTypeOK, RowsSound, FormSound
<1>3. CASE account # Blank
  <2>1. account \in Accounts
    BY <1>1, <1>3 DEF RowsInv, RowsTypeOK
  <2>2. PICK ok \in BOOLEAN, read \in BOOLEAN :
          /\ EnsureRows(ok) /\ cache' = CacheEnsured(ok)
          /\ form' = IF ~keep THEN form
                     ELSE [rev |-> IF ok /\ read THEN policy'.rev ELSE 0, account |-> account]
    BY <1>3 DEF ShowActivity
  <2>3. /\ policy' \in Policies /\ summary' \in Summaries /\ ensured' \in Accounts \union {None}
        /\ RowsSound'
        /\ policy'.rev >= policy.rev /\ (policy'.rev = policy.rev => summary'.scope = summary.scope)
        /\ ok => summary'.scope = account
    BY <1>1, <2>1, <2>2, EnsureMeans
  <2>4. policy'.rev \in Nat
    BY <2>3 DEF Policies
  <2>5. cache' \in Thresholds \union {0, None}
    BY <2>2 DEF CacheEnsured, RowsInv, RowsTypeOK
  <2>6. CASE ~keep
    <3>1. form' = form
      BY <2>2, <2>6
    <3> QED
      BY <1>1, <2>3, <2>5, <3>1, FormStays DEF RowsInv, RowsTypeOK
  <2>7. CASE keep
    <3>1. PICK r \in {0, policy'.rev} : form' = [rev |-> r, account |-> account] /\ (r # 0 => ok)
      BY <2>2, <2>7
    <3>2. form' \in Forms /\ form'.rev = r /\ form'.account = account
      BY <2>1, <2>4, <3>1 DEF Forms
    <3>3. FormSound'
      BY <1>1, <2>1, <2>3, <2>4, <3>1, <3>2 DEF FormSound
    <3> QED
      BY <1>1, <2>3, <2>5, <3>2, <3>3 DEF RowsInv, RowsTypeOK
  <2> QED
    BY <2>6, <2>7
<1> QED
  BY <1>2, <1>3

LEMMA SaveKeepsRows ==
  ASSUME RowsInv, now \in Nat, NEW enabled \in BOOLEAN, NEW min \in Thresholds, NEW manual \in {0, now},
         SavePolicy(enabled, min, manual)
  PROVE  RowsInv'
<1> USE Absent
<1>1. account \in Accounts /\ account' = account /\ form' = form
  BY DEF SavePolicy
<1>2. PICK ok \in BOOLEAN, stored \in BOOLEAN :
        LET p == IF ensured = account \/ ~ok THEN policy ELSE ScopedPolicy(account)
            s == IF ensured = account \/ ~ok THEN summary ELSE ScopedSummary(account)
            saves == ok /\ stored /\ s.scope = account /\ p.rev # 0 /\ p.rev = form.rev
        IN /\ ensured = account => ok
           /\ ensured' = IF ok THEN account ELSE ensured
           /\ summary' = s
           /\ policy' = IF saves THEN [enabled |-> enabled, min |-> min, manual |-> manual,
                                       scope |-> IF manual = 0 THEN None ELSE account,
                                       rev |-> p.rev + 1]
                        ELSE p
           /\ cache' = IF saves THEN None ELSE CacheEnsured(ok)
  BY DEF SavePolicy
<1> DEFINE p == IF ensured = account \/ ~ok THEN policy ELSE ScopedPolicy(account)
           s == IF ensured = account \/ ~ok THEN summary ELSE ScopedSummary(account)
           saves == ok /\ stored /\ s.scope = account /\ p.rev # 0 /\ p.rev = form.rev
           q == [enabled |-> enabled, min |-> min, manual |-> manual,
                 scope |-> IF manual = 0 THEN None ELSE account, rev |-> p.rev + 1]
<1>3. policy \in Policies /\ summary \in Summaries /\ ensured \in Accounts \union {None}
      /\ policy.rev # 0 /\ policy.rev \in Nat
  BY <1>1 DEF RowsInv, RowsTypeOK, RowsSound, Policies
<1>4. /\ p \in Policies /\ p.rev \in Nat /\ p.rev # 0 /\ p.rev >= policy.rev
      /\ p.scope = None => p.manual = 0
      /\ s \in Summaries /\ s.by \subseteq {s.scope}
      /\ s.qualified # 0 => s.by = {s.scope} /\ s.scope # None
      /\ (ok => s.scope = account) /\ (~ok => s = summary)
      /\ p.rev = policy.rev => s.scope = summary.scope
  <2>1. CASE ensured = account \/ ~ok
    <3>1. p = policy /\ s = summary /\ (ok => ensured = account)
      BY <2>1
    <3> HIDE DEF p, s
    <3> QED
      BY <1>1, <1>3, <3>1 DEF RowsInv, RowsSound
  <2>2. CASE ensured # account /\ ok
    <3>1. p = ScopedPolicy(account) /\ s = ScopedSummary(account)
      BY <2>2
    <3> HIDE DEF p, s
    <3>2. p.rev \in Nat
      BY <1>1, <3>1, ScopedMeans DEF Policies
    <3>3. /\ p \in Policies /\ p.rev # 0 /\ p.rev >= policy.rev /\ (p.scope = None => p.manual = 0)
          /\ (p.rev = policy.rev => s.scope = summary.scope)
      <4>1. p.rev = policy.rev => summary.scope = account
        BY <1>1, <1>3, <3>1, ScopedMeans
      <4> QED
        BY <1>1, <3>1, <4>1, ScopedMeans
    <3>4. /\ s \in Summaries /\ s.by \subseteq {s.scope} /\ s.scope = account
          /\ s.qualified # 0 => s.by = {s.scope} /\ s.scope # None
      BY <1>1, <3>1, ScopedMeans
    <3> QED
      BY <2>2, <3>2, <3>3, <3>4
  <2> QED
    BY <2>1, <2>2
<1> HIDE DEF p, s
<1>5. q \in Policies /\ q.rev = p.rev + 1 /\ (q.scope = None => q.manual = 0)
  <2>1. manual \in Nat
    OBVIOUS
  <2> QED
    BY <1>1, <1>4, <2>1 DEF Policies
<1> HIDE DEF q
<1>6. /\ ensured = account => ok
      /\ ensured' = IF ok THEN account ELSE ensured
      /\ summary' = s /\ policy' = (IF saves THEN q ELSE p)
      /\ cache' = IF saves THEN None ELSE CacheEnsured(ok)
  BY <1>2 DEF p, s, q
<1> HIDE DEF saves
<1>7. /\ policy' \in Policies /\ policy'.rev >= policy.rev /\ (policy'.rev = policy.rev => policy' = p)
      /\ policy'.rev # 0 /\ (policy'.scope = None => policy'.manual = 0)
  BY <1>3, <1>4, <1>5, <1>6
<1>8. RowsTypeOK'
  BY <1>1, <1>4, <1>6, <1>7 DEF RowsInv, RowsTypeOK, CacheEnsured
<1>9. RowsSound'
  BY <1>1, <1>3, <1>4, <1>6, <1>7 DEF RowsInv, RowsSound
<1>10. FormSound'
  BY <1>1, <1>4, <1>6, <1>7, FormStays
<1> QED
  BY <1>8, <1>9, <1>10 DEF RowsInv

\* A key names an account.
LEMMA KeyNames == \A k \in Keys : k[1] \in Accounts /\ k # None
BY Absent DEF Keys

LEMMA ConfirmKeepsRows ==
  ASSUME ActivityInv, NEW h \in Handlers, ConfirmScope(h)
  PROVE  RowsInv'
<1> USE Absent
<1>1. account' = account /\ form' = form /\ Busy(h)
  BY DEF ConfirmScope, At, Busy
<1>2. event[h].key[1] \in Accounts
  BY <1>1, KeyNames DEF ActivityInv, TrackerInv, EventsSound
<1>3. CASE account = event[h].key[1]
  <2>1. account \in Accounts
    BY <1>2, <1>3
  <2>2. PICK ok \in BOOLEAN : EnsureRows(ok) /\ cache' = CacheEnsured(ok)
    BY <1>3 DEF ConfirmScope
  <2>3. /\ policy' \in Policies /\ summary' \in Summaries /\ ensured' \in Accounts \union {None}
        /\ RowsSound'
        /\ policy'.rev >= policy.rev /\ (policy'.rev = policy.rev => summary'.scope = summary.scope)
    BY <1>1, <2>1, <2>2, EnsureMeans DEF ActivityInv
  <2>4. cache' \in Thresholds \union {0, None}
    BY <2>2 DEF CacheEnsured, ActivityInv, RowsInv, RowsTypeOK
  <2> QED
    BY <1>1, <2>1, <2>3, <2>4, FormStays DEF ActivityInv, RowsInv, RowsTypeOK
<1>4. CASE account # event[h].key[1]
  <2>1. UNCHANGED <<policy, summary, ensured>> /\ cache' \in {cache, None}
    BY <1>4 DEF ConfirmScope, storeVars
  <2> QED
    BY <1>1, <2>1 DEF ActivityInv, RowsInv, RowsTypeOK, RowsSound, FormSound
<1> QED
  BY <1>3, <1>4

LEMMA RecordKeepsRows ==
  ASSUME ActivityInv, NEW h \in Handlers, Record(h)
  PROVE  RowsInv'
<1> DEFINE e == event[h]
<1> USE Absent
<1>1. UNCHANGED <<account, ensured, form, cache, policy>> /\ Busy(h)
  BY DEF Record, At, Busy, adminVars
<1>2. e.key[1] \in Accounts /\ e \in Events
  BY <1>1, KeyNames DEF ActivityInv, TrackerInv, TrackerTypeOK, EventsSound
<1>3. summary' = summary \/ (summary.scope = e.key[1] /\ summary' = Merged(e))
  BY DEF Record
<1>4. summary \in Summaries
  BY DEF ActivityInv, RowsInv, RowsTypeOK
<1>5. Later(summary.activity, e.activity) \in Nat /\ Later(summary.qualified, e.qualified) \in Nat
  BY <1>2, <1>4 DEF Later, Events, Summaries
<1>6. CASE summary.scope = e.key[1] /\ summary' = Merged(e)
  <2>1. summary' = [summary EXCEPT !.activity = Later(summary.activity, e.activity),
                      !.qualified = Later(summary.qualified, e.qualified), !.by = summary.by \union {e.key[1]}]
    BY <1>6 DEF Merged
  <2>2. summary.by \union {e.key[1]} = {summary.scope}
    BY <1>6 DEF ActivityInv, RowsInv, RowsSound
  <2>3. summary' \in Summaries /\ summary'.scope = summary.scope /\ summary'.by = {summary.scope}
    BY <1>2, <1>4, <1>5, <1>6, <2>1, <2>2 DEF Summaries
  <2> QED
    BY <1>1, <1>2, <1>6, <2>3 DEF ActivityInv, RowsInv, RowsTypeOK, RowsSound, FormSound
<1>7. CASE summary' = summary
  BY <1>1, <1>7 DEF ActivityInv, RowsInv, RowsTypeOK, RowsSound, FormSound
<1> QED
  BY <1>3, <1>6, <1>7

LEMMA EditKeepsRows ==
  ASSUME RowsInv, NEW a \in Accounts \union {Blank}, EditAccount(a)
  PROVE  RowsInv'
<1>1. account # None /\ account' = a /\ a # None /\ UNCHANGED <<ensured, form, cache, policy, summary>>
  BY Absent DEF EditAccount, storeVars
<1> QED
  BY <1>1 DEF RowsInv, RowsTypeOK, RowsSound, FormSound

LEMMA DeleteKeepsRows ==
  ASSUME RowsInv, DeleteServer
  PROVE  RowsInv'
<1> USE Absent
<1>1. /\ account' = None /\ ensured' = None /\ cache' = None /\ form' = form
      /\ (policy' = NoPolicy /\ summary' = NoSummary) \/ UNCHANGED <<policy, summary>>
  BY DEF DeleteServer, storeVars
<1>2. NoPolicy \in Policies /\ NoSummary \in Summaries
  BY DEF NoPolicy, NoSummary, Policies, Summaries
<1>3. RowsTypeOK'
  BY <1>1, <1>2 DEF RowsInv, RowsTypeOK
<1>4. RowsSound'
  BY <1>1 DEF RowsInv, RowsSound, NoPolicy, NoSummary
<1> QED
  BY <1>1, <1>3, <1>4 DEF RowsInv, FormSound

LEMMA RestartKeepsRows ==
  ASSUME RowsInv, Restart
  PROVE  RowsInv'
<1> USE Absent
<1>1. account' = account /\ form' = form /\ cache' = None
  BY DEF Restart
<1>2. \/ ensured' = None /\ UNCHANGED <<policy, summary>>
      \/ /\ account \in Accounts /\ ensured' = account
         /\ summary' = ScopedSummary(account) /\ policy' = ScopedPolicy(account)
  BY DEF Restart, storeVars
<1>3. CASE ensured' = None /\ UNCHANGED <<policy, summary>>
  BY <1>1, <1>3 DEF RowsInv, RowsTypeOK, RowsSound, FormSound
<1>4. CASE /\ account \in Accounts /\ ensured' = account
           /\ summary' = ScopedSummary(account) /\ policy' = ScopedPolicy(account)
  <2>1. account # None /\ policy.rev # 0
    BY <1>4 DEF RowsInv, RowsSound
  <2>2. policy'.rev >= policy.rev /\ (policy'.rev = policy.rev => summary'.scope = summary.scope)
    <3>1. policy.rev \in Nat
      BY DEF RowsInv, RowsTypeOK, Policies
    <3>2. summary.scope # account => policy'.rev > policy.rev
      BY <1>4, <2>1, ScopedMeans
    <3> QED
      BY <1>4, <2>1, <3>1, <3>2, ScopedMeans
  <2>3. RowsSound'
    BY <1>1, <1>4, ScopedMeans DEF RowsSound
  <2>4. policy' \in Policies /\ summary' \in Summaries
    BY <1>4, ScopedMeans
  <2> QED
    BY <1>1, <1>4, <2>1, <2>2, <2>3, <2>4, FormStays DEF RowsInv, RowsTypeOK
<1> QED
  BY <1>2, <1>3, <1>4

\* Every step keeps the rows, the form and the cache in order.
LEMMA RowsStep == ActivityInv /\ [Next]_vars => RowsInv'
<1> SUFFICES ASSUME ActivityInv, [Next]_vars PROVE RowsInv'
  OBVIOUS
<1> USE Absent
<1>1. ASSUME UNCHANGED <<account, ensured, form, policy, summary>>, cache' \in Thresholds \union {0, None}
      PROVE  RowsInv'
  BY <1>1 DEF ActivityInv, RowsInv, RowsTypeOK, RowsSound, FormSound
<1>2. now \in Nat /\ cache \in Thresholds \union {0, None}
  BY DEF ActivityInv, TrackerInv, TrackerTypeOK, RowsInv, RowsTypeOK
<1>3. ASSUME NEW h \in Handlers, Report(h)
      PROVE  RowsInv'
  <2>1. CASE \/ \E kind \in {"Report", "Stopped"}, play \in Plays \union {None}, pos \in Positions \union {None} :
                   Begin(h, kind, play, pos)
             \/ Unconfirmed(h) \/ NotAllowed(h) \/ MarkRecord(h) \/ FinishStop(h)
    BY <1>1, <1>2, <2>1 DEF Begin, Unconfirmed, NotAllowed, MarkRecord, FinishStop, adminVars, storeVars
  <2>2. CASE ConfirmScope(h)
    BY <2>2, ConfirmKeepsRows
  <2>3. CASE ReadThreshold(h)
    BY <1>1, <1>2, <2>3 DEF ReadThreshold, adminVars, storeVars
  <2>4. CASE Observe(h)
    <3>1. cache' \in Thresholds \union {0, None}
      BY <1>2, <2>4 DEF Observe, At, Busy, ActivityInv, TrackerInv, EventsSound
    <3> QED
      BY <1>1, <2>4, <3>1 DEF Observe, adminVars, storeVars
  <2>5. CASE Record(h)
    BY <2>5, RecordKeepsRows
  <2> QED
    BY <1>3, <2>1, <2>2, <2>3, <2>4, <2>5 DEF Report
<1>4. ASSUME NEW keep \in BOOLEAN, ShowActivity(keep) PROVE RowsInv'
  BY <1>4, ShowKeepsRows DEF ActivityInv
<1>5. ASSUME NEW enabled \in BOOLEAN, NEW min \in Thresholds, NEW manual \in {0, now},
             SavePolicy(enabled, min, manual)
      PROVE  RowsInv'
  BY <1>2, <1>5, SaveKeepsRows DEF ActivityInv
<1>6. ASSUME NEW a \in Accounts \union {Blank}, EditAccount(a) PROVE RowsInv'
  BY <1>6, EditKeepsRows DEF ActivityInv
<1>7. CASE DeleteServer
  BY <1>7, DeleteKeepsRows DEF ActivityInv
<1>8. CASE Restart
  BY <1>8, RestartKeepsRows DEF ActivityInv
<1>9. CASE ExpireCache \/ Tick \/ UNCHANGED vars
  BY <1>1, <1>2, <1>9 DEF ExpireCache, Tick, vars, adminVars, storeVars
<1> QED
  BY <1>3, <1>4, <1>5, <1>6, <1>7, <1>8, <1>9 DEF Next

-----------------------------------------------------------------------------
(* One sample of one session.                                               *)

\* What a sample does to the session it is credited to.
LEMMA CreditMeans ==
  ASSUME NEW s \in Sessions, NEW at \in Nat, NEW pos \in Nat \union {None}
  PROVE  LET c == Credited(s, at, pos) IN
         /\ c \in Sessions /\ c.seq = s.seq /\ c.seen = s.seen /\ c.min = s.min /\ c.born = s.born
         /\ c.persisted = s.persisted /\ c.attempt = s.attempt /\ c.claimed = s.claimed
         /\ c.qualified = s.qualified
         /\ \/ /\ c.credit = s.credit /\ c.valid = s.valid
               /\ ~c.base \/ (c.base /\ c.baseAt = at) \/ (s.base /\ c.base /\ c.baseAt = s.baseAt)
            \/ /\ s.base /\ c.base /\ c.baseAt = at /\ at > s.baseAt /\ c.valid = at
               /\ c.credit >= s.credit /\ c.credit <= s.credit + (at - s.baseAt)
<1> USE Absent
<1> DEFINE c == Credited(s, at, pos)
           rebased == [s EXCEPT !.base = TRUE, !.baseAt = at, !.basePos = pos]
           elapsed == at - s.baseAt
           delta == pos - s.basePos
           gain == IF delta > elapsed THEN elapsed ELSE delta
           credited == [rebased EXCEPT !.credit = rebased.credit + gain, !.valid = at]
<1>1. CASE pos = None
  <2>1. c = [s EXCEPT !.base = FALSE]
    BY <1>1 DEF Credited
  <2> DEFINE n == [s EXCEPT !.base = FALSE]
  <2>2. /\ n \in Sessions /\ n.seq = s.seq /\ n.seen = s.seen /\ n.min = s.min /\ n.born = s.born
        /\ n.persisted = s.persisted /\ n.attempt = s.attempt /\ n.claimed = s.claimed
        /\ n.credit = s.credit /\ n.valid = s.valid /\ ~n.base
    BY DEF Sessions
  <2>3. n.qualified = s.qualified
    BY DEF Sessions
  <2> HIDE DEF n
  <2>4. c = n
    BY <2>1 DEF n
  <2> HIDE DEF c
  <2> QED
    BY <2>2, <2>3, <2>4 DEF c
<1>2. CASE pos # None
  <2>1. pos \in Nat /\ s.basePos \in Nat /\ s.baseAt \in Nat /\ s.credit \in Nat /\ s.base \in BOOLEAN
    BY <1>2 DEF Sessions
  <2>2. /\ rebased \in Sessions /\ rebased.seq = s.seq /\ rebased.seen = s.seen /\ rebased.min = s.min
        /\ rebased.born = s.born /\ rebased.persisted = s.persisted /\ rebased.attempt = s.attempt
        /\ rebased.claimed = s.claimed /\ rebased.credit = s.credit /\ rebased.valid = s.valid
        /\ rebased.base /\ rebased.baseAt = at
    BY <2>1 DEF Sessions
  <2>3. rebased.qualified = s.qualified
    BY DEF Sessions
  <2>4. c \in {rebased, s, credited}
        /\ (c = rebased \/ (c = s /\ s.base)
            \/ (c = credited /\ s.base /\ elapsed > 0 /\ delta >= 0))
    BY <1>2, <2>1 DEF Credited
  <2>5. ASSUME elapsed > 0, delta >= 0
        PROVE  /\ gain \in Nat /\ gain <= elapsed /\ rebased.credit + gain \in Nat
    BY <2>1, <2>2, <2>5
  <2>6. CASE c = rebased
    <3> HIDE DEF c, rebased
    <3> QED
      BY <2>2, <2>3, <2>6 DEF c
  <2>7. CASE c = s /\ s.base
    <3> HIDE DEF c
    <3> QED
      BY <2>7 DEF c
  <2>8. CASE c = credited /\ s.base /\ elapsed > 0 /\ delta >= 0
    <3>1. gain \in Nat /\ gain <= elapsed /\ rebased.credit + gain \in Nat
      BY <2>5, <2>8
    <3> HIDE DEF rebased, gain
    <3>2. /\ credited \in Sessions /\ credited.seq = rebased.seq /\ credited.seen = rebased.seen
          /\ credited.min = rebased.min /\ credited.born = rebased.born
          /\ credited.persisted = rebased.persisted /\ credited.attempt = rebased.attempt
          /\ credited.claimed = rebased.claimed /\ credited.credit = rebased.credit + gain
          /\ credited.valid = at /\ credited.baseAt = rebased.baseAt
      BY <2>2, <3>1 DEF Sessions
    <3>3. credited.qualified = rebased.qualified /\ credited.base = rebased.base
      BY <2>2 DEF Sessions
    <3> HIDE DEF credited, c
    <3> QED
      BY <2>1, <2>2, <2>3, <2>8, <3>1, <3>2, <3>3 DEF c
  <2> QED
    BY <2>4, <2>6, <2>7, <2>8
<1> QED
  BY <1>1, <1>2

\* A counted sample leaves a sound session that has seen it.
LEMMA SampledMeans ==
  ASSUME seq \in Nat, now \in Nat, NEW s \in Sessions, NEW e \in Events,
         e.seq \in 1..seq, e.at <= now,
         \/ SessionSound(s) /\ s.seen <= e.at
         \/ \E min \in Thresholds : s = NewSession(min)
  PROVE  LET t == Sampled(s, e) IN
         /\ t \in Sessions /\ SessionSound(t) /\ t.seq = e.seq /\ t.seen = e.at
         /\ t.persisted = s.persisted /\ t.attempt = s.attempt /\ t.claimed = s.claimed
<1> USE Absent
<1> DEFINE born == IF s.seq = 0 THEN e.at ELSE s.born
           r == [s EXCEPT !.seq = e.seq, !.seen = e.at, !.born = born]
           c == Credited(r, e.at, e.pos)
           q == c.qualified \/ (c.credit >= c.min /\ c.valid # 0)
           t == [c EXCEPT !.qualified = q]
<1>1. e.seq \in Nat /\ e.at \in Nat /\ e.pos \in Nat \union {None}
  BY DEF Events
<1>2. born \in Nat
  BY <1>1 DEF Sessions
<1> HIDE DEF born
<1>3. /\ r \in Sessions /\ r.seq = e.seq /\ r.seen = e.at /\ r.born = born /\ r.min = s.min
      /\ r.persisted = s.persisted /\ r.attempt = s.attempt /\ r.claimed = s.claimed
      /\ r.credit = s.credit /\ r.valid = s.valid /\ r.baseAt = s.baseAt
  BY <1>1, <1>2 DEF Sessions
<1>4. r.base = s.base /\ r.qualified = s.qualified
  BY DEF Sessions
<1>5. Sampled(s, e) = t
  BY DEF Sampled, born
<1> HIDE DEF r
<1>6. /\ c \in Sessions /\ c.seq = r.seq /\ c.seen = r.seen /\ c.min = r.min /\ c.born = r.born
      /\ c.persisted = r.persisted /\ c.attempt = r.attempt /\ c.claimed = r.claimed
      /\ c.qualified = r.qualified
      /\ \/ /\ c.credit = r.credit /\ c.valid = r.valid
            /\ ~c.base \/ (c.base /\ c.baseAt = e.at) \/ (r.base /\ c.base /\ c.baseAt = r.baseAt)
         \/ /\ r.base /\ c.base /\ c.baseAt = e.at /\ e.at > r.baseAt /\ c.valid = e.at
            /\ c.credit >= r.credit /\ c.credit <= r.credit + (e.at - r.baseAt)
  <2>1. r \in Sessions /\ e.at \in Nat /\ e.pos \in Nat \union {None}
    BY <1>1, <1>3
  <2> HIDE DEF c
  <2> QED
    BY ONLY <2>1, CreditMeans DEF c
<1> HIDE DEF c
<1>7. q \in BOOLEAN
  BY <1>6 DEF Sessions
<1> HIDE DEF q
<1>8. /\ t \in Sessions /\ t.seq = c.seq /\ t.seen = c.seen /\ t.born = c.born /\ t.min = c.min
      /\ t.persisted = c.persisted /\ t.attempt = c.attempt /\ t.claimed = c.claimed
      /\ t.credit = c.credit /\ t.valid = c.valid /\ t.baseAt = c.baseAt
  BY <1>6, <1>7 DEF Sessions
<1>9. t.base = c.base /\ t.qualified = q
  BY <1>6, <1>7 DEF Sessions
<1> HIDE DEF t
\* the numbers of the session before the sample
<1>10. /\ s.seq \in Nat /\ s.seen \in Nat /\ s.born \in Nat /\ s.valid \in Nat /\ s.baseAt \in Nat
       /\ s.credit \in Nat /\ s.min \in Nat /\ c.credit \in Nat /\ c.min \in Nat /\ c.baseAt \in Nat
  BY <1>6 DEF Sessions
<1>11. /\ born <= e.at /\ s.valid <= e.at
       /\ s.base => born <= s.baseAt /\ s.valid <= s.baseAt /\ s.baseAt <= e.at
       /\ s.valid = 0 => s.credit = 0
       /\ s.valid # 0 => s.credit + born <= s.valid
       /\ s.qualified => s.credit >= s.min /\ s.valid # 0
  <2>1. CASE SessionSound(s) /\ s.seen <= e.at
    <3>1. s.seq # 0 /\ born = s.born
      BY <2>1, <1>10 DEF SessionSound, born
    <3> QED
      BY <1>1, <1>10, <2>1, <3>1 DEF SessionSound
  <2>2. CASE \E min \in Thresholds : s = NewSession(min)
    <3>1. PICK min \in Thresholds : s = NewSession(min)
      BY <2>2
    <3>2. s.seq = 0 /\ s.valid = 0 /\ ~s.base /\ s.credit = 0 /\ ~s.qualified
      BY <3>1 DEF NewSession
    <3>3. born = e.at
      BY <3>2 DEF born
    <3> QED
      BY <1>1, <3>2, <3>3
  <2> QED
    BY <2>1, <2>2
<1>12. /\ t.seq \in 1..seq /\ t.seen <= now /\ t.born <= t.seen /\ t.valid <= t.seen
       /\ c.base => t.born <= t.baseAt /\ t.valid <= t.baseAt /\ t.baseAt <= t.seen
       /\ t.valid = 0 => t.credit = 0
       /\ t.valid # 0 => t.credit + t.born <= t.valid
       /\ c.qualified => t.credit >= t.min /\ t.valid # 0
  BY <1>1, <1>2, <1>3, <1>4, <1>6, <1>8, <1>10, <1>11
<1>13. t.base => c.base
  BY <1>9
<1>14. t.qualified => t.credit >= t.min /\ t.valid # 0
  BY <1>8, <1>9, <1>12 DEF q
<1>15. SessionSound(t)
  BY <1>12, <1>13, <1>14 DEF SessionSound
<1> QED
  BY <1>3, <1>5, <1>6, <1>8, <1>15

-----------------------------------------------------------------------------
(* Steps of an event.                                                       *)

\* d is where e may go: nowhere, or on with what it was given on receipt.
Carries(d, e) ==
  /\ d \in Events
  /\ d.step # "idle" => /\ e.step # "idle" /\ d.key = e.key /\ d.seq = e.seq /\ d.at = e.at
                        /\ d.step \in {"fetched", "observe"} => d.min \in Thresholds
\* A session that counts no more than it did.
Quieter(t, s) ==
  /\ t \in Sessions /\ t.seq \in s.seq..seq /\ t.seen = s.seen /\ t.born = s.born /\ t.valid = s.valid
  /\ t.credit = s.credit /\ t.min = s.min /\ (t.qualified => s.qualified)
  /\ t.base => s.base /\ t.baseAt = s.baseAt
\* A claim stays as it is, is met or given up.
ClaimKept(t, s) ==
  t.attempt # 0 => t.attempt = s.attempt /\ t.claimed = s.claimed /\ t.persisted >= s.persisted

LEMMA IdleIsEvent == Idle \in Events /\ Idle.step = "idle"
BY Absent DEF Idle, Events, Steps

LEMMA EventMoves ==
  ASSUME TrackerInv, NEW h \in Handlers, NEW d, Carries(d, event[h]), event' = [event EXCEPT ![h] = d]
  PROVE  event' \in [Handlers -> Events] /\ \A g \in Handlers : Carries(event'[g], event[g])
<1>1. event \in [Handlers -> Events]
  BY DEF TrackerInv, TrackerTypeOK
<1>2. event' \in [Handlers -> Events] /\ event'[h] = d /\ \A g \in Handlers : g # h => event'[g] = event[g]
  BY <1>1 DEF Carries
<1>3. \A g \in Handlers : Carries(event[g], event[g])
  BY <1>1 DEF Carries, TrackerInv, EventsSound, Busy
<1> QED
  BY <1>2, <1>3

LEMMA EventStays ==
  ASSUME TrackerInv, event' = event
  PROVE  event' \in [Handlers -> Events] /\ \A g \in Handlers : Carries(event'[g], event[g])
BY DEF Carries, TrackerInv, TrackerTypeOK, EventsSound, Busy

\* Events that only move on keep their order.
LEMMA EventsFollow ==
  ASSUME TrackerInv, seq' = seq, now' \in Nat, now' >= now, event' \in [Handlers -> Events],
         \A g \in Handlers : Carries(event'[g], event[g])
  PROVE  EventsSound'
<1>1. \A g \in Handlers : Busy(g)' =>
        /\ Busy(g) /\ event'[g].key = event[g].key /\ event'[g].seq = event[g].seq /\ event'[g].at = event[g].at
        /\ event'[g].step \in {"fetched", "observe"} => event'[g].min \in Thresholds
  BY DEF Carries, Busy
<1>2. \A g \in Handlers : event[g].at \in Nat
  BY DEF TrackerInv, TrackerTypeOK, Events
<1>3. now \in Nat
  BY DEF TrackerInv, TrackerTypeOK
<1> QED
  BY <1>1, <1>2, <1>3 DEF TrackerInv, EventsSound

\* Sessions that count no more stay sound, and what follows them does.
LEMMA SessionsQuiet ==
  ASSUME TrackerInv, seq' = seq, now' \in Nat, now' >= now, event' \in [Handlers -> Events],
         \A g \in Handlers : Carries(event'[g], event[g]),
         \A k \in Keys : sessions'[k] # None => sessions[k] # None /\ Quieter(sessions'[k], sessions[k])
  PROVE  SessionsSound' /\ SamplesFollow'
<1>1. seq \in Nat /\ now \in Nat /\ sessions \in [Keys -> Sessions \union {None}]
  BY DEF TrackerInv, TrackerTypeOK
<1>2. ASSUME NEW k \in Keys, sessions'[k] # None
      PROVE  SessionSound(sessions[k]) /\ Quieter(sessions'[k], sessions[k]) /\ sessions[k] \in Sessions
  BY <1>1, <1>2 DEF TrackerInv, SessionsSound, Live
<1>3. ASSUME NEW k \in Keys, sessions'[k] # None
      PROVE  SessionSound(sessions[k])'
  <2> DEFINE t == sessions'[k]
             s == sessions[k]
  <2>1. SessionSound(s) /\ Quieter(t, s) /\ s \in Sessions
    BY <1>2, <1>3
  <2>2. s.seq \in Nat /\ s.seen \in Nat
    BY <2>1 DEF Sessions
  <2>3. t.seq \in 1..seq /\ t.seen <= now'
    BY <1>1, <2>1, <2>2 DEF SessionSound, Quieter
  <2> HIDE DEF t, s
  <2>4. /\ t.seq \in 1..seq' /\ t.seen <= now' /\ t.born <= t.seen /\ t.valid <= t.seen
        /\ t.base => t.born <= t.baseAt /\ t.valid <= t.baseAt /\ t.baseAt <= t.seen
        /\ t.valid = 0 => t.credit = 0
        /\ t.valid # 0 => t.credit + t.born <= t.valid
        /\ t.qualified => t.credit >= t.min /\ t.valid # 0
    BY <2>1, <2>3 DEF SessionSound, Quieter
  <2> QED
    BY <2>4 DEF SessionSound, t
<1>4. ASSUME NEW k \in Keys, NEW h \in Handlers, sessions'[k] # None, event'[h].step # "idle",
             event'[h].key = k, event'[h].seq > sessions'[k].seq
      PROVE  sessions'[k].seen <= event'[h].at
  <2>1. /\ event[h].step # "idle" /\ event[h].key = k /\ event'[h].seq = event[h].seq
        /\ event'[h].at = event[h].at /\ event'[h].seq \in Nat
    BY <1>4 DEF Carries, Events
  <2>2. /\ sessions[k] # None /\ sessions'[k].seen = sessions[k].seen /\ sessions[k].seq \in Nat
        /\ sessions'[k].seq \in Nat /\ sessions'[k].seq >= sessions[k].seq
    BY <1>1, <1>2, <1>4 DEF Quieter, Sessions
  <2>3. event[h].seq > sessions[k].seq
    BY <1>4, <2>1, <2>2
  <2> QED
    BY <2>1, <2>2, <2>3 DEF TrackerInv, SamplesFollow, Live, Busy
<1> QED
  BY <1>3, <1>4 DEF SessionsSound, SamplesFollow, Live, Busy

\* A claim stays backed while writes go on.
LEMMA ClaimsStay ==
  ASSUME TrackerInv, sessions' \in [Keys -> Sessions \union {None}], event' \in [Handlers -> Events],
         \A k \in Keys : sessions'[k] # None => sessions[k] # None /\ ClaimKept(sessions'[k], sessions[k]),
         \A h \in Handlers : event[h].step \in {"write", "mark"} =>
            /\ event'[h].step \in {"write", "mark"} /\ event'[h].key = event[h].key /\ event'[h].at = event[h].at
            /\ event'[h].qualified = event[h].qualified
  PROVE  ClaimsBacked'
<1> SUFFICES ASSUME NEW k \in Keys, sessions'[k] # None, sessions'[k].attempt # 0
             PROVE  sessions'[k].persisted >= sessions'[k].claimed \/ \E h \in Handlers : Writing(h, k)'
  BY DEF ClaimsBacked, Live
<1>1. sessions[k] # None /\ ClaimKept(sessions'[k], sessions[k])
  OBVIOUS
<1>2. sessions[k] \in Sessions /\ sessions'[k] \in Sessions
  BY <1>1 DEF TrackerInv, TrackerTypeOK
<1>3. /\ sessions'[k].attempt = sessions[k].attempt /\ sessions'[k].claimed = sessions[k].claimed
      /\ sessions'[k].persisted >= sessions[k].persisted
      /\ {sessions[k].claimed, sessions[k].persisted, sessions'[k].persisted} \subseteq Nat
  BY <1>1, <1>2 DEF ClaimKept, Sessions
<1>4. CASE sessions[k].persisted >= sessions[k].claimed
  BY <1>3, <1>4
<1>5. CASE \E h \in Handlers : Writing(h, k)
  <2>1. PICK h \in Handlers : Writing(h, k)
    BY <1>5
  <2>2. /\ event'[h].step \in {"write", "mark"} /\ event'[h].key = k /\ event'[h].at = sessions'[k].attempt
        /\ event'[h].qualified >= sessions'[k].claimed /\ event'[h].qualified # 0
    BY <1>3, <2>1 DEF Writing
  <2> QED
    BY <2>2 DEF Writing
<1> QED
  BY <1>1, <1>3, <1>4, <1>5 DEF TrackerInv, ClaimsBacked, Live

\* A step that counts nothing and claims nothing.
LEMMA QuietStep ==
  ASSUME TrackerInv, seq' = seq, now' \in Nat, now' >= now, event' \in [Handlers -> Events],
         sessions' \in [Keys -> Sessions \union {None}],
         \A g \in Handlers : Carries(event'[g], event[g]),
         \A k \in Keys : sessions'[k] # None =>
            sessions[k] # None /\ Quieter(sessions'[k], sessions[k]) /\ ClaimKept(sessions'[k], sessions[k]),
         \A h \in Handlers : event[h].step \in {"write", "mark"} =>
            /\ event'[h].step \in {"write", "mark"} /\ event'[h].key = event[h].key /\ event'[h].at = event[h].at
            /\ event'[h].qualified = event[h].qualified
  PROVE  TrackerInv'
BY EventsFollow, SessionsQuiet, ClaimsStay DEF TrackerInv, TrackerTypeOK

LEMMA QuietNow ==
  ASSUME TrackerInv, UNCHANGED <<seq, now>>, event' \in [Handlers -> Events],
         sessions' \in [Keys -> Sessions \union {None}],
         \A g \in Handlers : Carries(event'[g], event[g]),
         \A k \in Keys : sessions'[k] # None =>
            sessions[k] # None /\ Quieter(sessions'[k], sessions[k]) /\ ClaimKept(sessions'[k], sessions[k]),
         \A h \in Handlers : event[h].step \in {"write", "mark"} => event'[h] = event[h]
  PROVE  TrackerInv'
<1>1. now \in Nat
  BY DEF TrackerInv, TrackerTypeOK
<1>2. now' \in Nat /\ now' >= now /\ seq' = seq
  BY <1>1
<1>3. \A h \in Handlers : event[h].step \in {"write", "mark"} =>
         /\ event'[h].step \in {"write", "mark"} /\ event'[h].key = event[h].key /\ event'[h].at = event[h].at
         /\ event'[h].qualified = event[h].qualified
  OBVIOUS
<1> QED
  BY <1>2, <1>3, QuietStep

\* A session is no louder than itself.
LEMMA SameSession ==
  ASSUME TrackerInv, NEW k \in Keys, sessions[k] # None
  PROVE  /\ sessions[k] \in Sessions /\ Quieter(sessions[k], sessions[k])
         /\ ClaimKept(sessions[k], sessions[k])
<1>1. sessions[k] \in Sessions /\ SessionSound(sessions[k]) /\ seq \in Nat
  BY DEF TrackerInv, TrackerTypeOK, SessionsSound, Live
<1>2. sessions[k].seq \in Nat /\ sessions[k].persisted \in Nat
  BY <1>1 DEF Sessions
<1>3. sessions[k].seq \in sessions[k].seq..seq
  BY <1>1, <1>2 DEF SessionSound
<1> QED
  BY <1>1, <1>2, <1>3 DEF Quieter, ClaimKept

LEMMA BeginKeepsActivity ==
  ASSUME ActivityInv, NEW h \in Handlers, NEW kind \in {"Report", "Stopped"}, NEW play \in Plays \union {None},
         NEW pos \in Positions \union {None}, Begin(h, kind, play, pos)
  PROVE  TrackerInv'
<1> USE Absent
<1> DEFINE d == [Idle EXCEPT !.step = "sent", !.kind = kind, !.key = <<account, play>>,
                             !.seq = seq + 1, !.at = now, !.pos = pos]
<1>1. /\ event[h].step = "idle" /\ account \in Accounts /\ seq' = seq + 1 /\ event' = [event EXCEPT ![h] = d]
      /\ now' = now /\ sessions' = sessions
  BY DEF Begin, At, Go, trackerVars
<1>2. /\ seq \in Nat /\ now \in Nat /\ event \in [Handlers -> Events]
      /\ sessions \in [Keys -> Sessions \union {None}]
  BY DEF ActivityInv, TrackerInv, TrackerTypeOK
<1>3. <<account, play>> \in Keys
  BY <1>1 DEF Keys
<1>4. /\ d \in Events /\ d.step = "sent" /\ d.key = <<account, play>> /\ d.seq = seq + 1 /\ d.at = now
  <2>1. d \in Events
    <3>1. seq + 1 \in Nat /\ now \in Nat /\ pos \in Nat \union {None} /\ "sent" \in Steps
      BY <1>2 DEF Steps
    <3> QED
      BY <1>3, <3>1, IdleIsEvent DEF Events
  <2> QED
    BY <2>1 DEF Idle
<1> HIDE DEF d
<1>5. /\ event' \in [Handlers -> Events] /\ event'[h] = d
      /\ \A g \in Handlers : g # h => event'[g] = event[g]
  BY <1>1, <1>2, <1>4
<1>6. \A g \in Handlers : event[g].seq \in Nat /\ event[g].at \in Nat
  BY <1>2 DEF Events
<1>7. EventsSound'
  <2>1. \A g \in Handlers : Busy(g)' =>
          /\ event'[g].key \in Keys /\ event'[g].seq \in 1..seq' /\ event'[g].at <= now'
          /\ event'[g].step \in {"fetched", "observe"} => event'[g].min \in Thresholds
    BY <1>1, <1>2, <1>3, <1>4, <1>5, <1>6 DEF ActivityInv, TrackerInv, EventsSound, Busy
  <2>2. \A f \in Handlers : f # h /\ Busy(f)' => event'[f].seq <= seq /\ event'[f].at <= now
    BY <1>5, <1>2, <1>6 DEF ActivityInv, TrackerInv, EventsSound, Busy
  <2>3. ASSUME NEW f \in Handlers, NEW g \in Handlers, Busy(f)', Busy(g)', event'[f].seq < event'[g].seq
        PROVE  event'[f].at <= event'[g].at
    <3>1. CASE f = h
      BY <1>2, <1>4, <1>5, <1>6, <2>2, <2>3, <3>1
    <3>2. CASE f # h /\ g = h
      BY <1>4, <1>5, <2>2, <2>3, <3>2
    <3>3. CASE f # h /\ g # h
      BY <1>5, <2>3, <3>3 DEF ActivityInv, TrackerInv, EventsSound, Busy
    <3> QED
      BY <3>1, <3>2, <3>3
  <2> QED
    BY <2>1, <2>3 DEF EventsSound
<1>8. SessionsSound'
  <2> SUFFICES ASSUME NEW k \in Keys, sessions[k] # None
               PROVE  SessionSound(sessions[k])'
    BY <1>1 DEF SessionsSound, Live
  <2>1. SessionSound(sessions[k]) /\ sessions[k].seq \in Nat
    BY <1>2 DEF ActivityInv, TrackerInv, SessionsSound, Live, Sessions
  <2>2. sessions[k].seq \in 1..(seq + 1)
    BY <1>2, <2>1 DEF SessionSound
  <2> QED
    BY <1>1, <2>1, <2>2 DEF SessionSound
<1>9. SamplesFollow'
  <2> SUFFICES ASSUME NEW k \in Keys, NEW g \in Handlers, sessions[k] # None, Busy(g)', event'[g].key = k,
                      event'[g].seq > sessions[k].seq
               PROVE  sessions[k].seen <= event'[g].at
    BY <1>1 DEF SamplesFollow, Live, Busy
  <2>1. CASE g = h
    BY <1>4, <1>5, <2>1 DEF ActivityInv, TrackerInv, SessionsSound, SessionSound, Live
  <2>2. CASE g # h
    BY <1>5, <2>2 DEF ActivityInv, TrackerInv, SamplesFollow, Live, Busy
  <2> QED
    BY <2>1, <2>2
<1>10. ClaimsBacked'
  <2>1. \A k \in Keys : sessions[k] # None => ClaimKept(sessions'[k], sessions[k])
    BY <1>1, SameSession DEF ActivityInv
  <2> QED
    BY <1>1, <1>2, <1>5, <2>1, ClaimsStay DEF ActivityInv
<1> QED
  BY <1>1, <1>2, <1>5, <1>7, <1>8, <1>9, <1>10 DEF TrackerInv, TrackerTypeOK

LEMMA FinishMeans ==
  ASSUME TrackerInv, NEW k \in Keys, Finish(k)
  PROVE  /\ sessions' \in [Keys -> Sessions \union {None}]
         /\ \A j \in Keys : sessions'[j] # None =>
              sessions[j] # None /\ Quieter(sessions'[j], sessions[j]) /\ ClaimKept(sessions'[j], sessions[j])
<1>1. sessions \in [Keys -> Sessions \union {None}]
  BY DEF TrackerInv, TrackerTypeOK
<1>2. CASE ~Live(k)
  <2>1. sessions' = sessions
    BY <1>2 DEF Finish
  <2> QED
    BY <1>1, <2>1, SameSession
<1>3. CASE Live(k)
  <2> DEFINE t == [sessions[k] EXCEPT !.stopped = TRUE]
  <2>1. sessions' = [sessions EXCEPT ![k] = t] /\ sessions[k] \in Sessions
    BY <1>1, <1>3 DEF Finish, Live
  <2>2. /\ t \in Sessions /\ t.seq = sessions[k].seq /\ t.seen = sessions[k].seen /\ t.born = sessions[k].born
        /\ t.valid = sessions[k].valid /\ t.credit = sessions[k].credit /\ t.min = sessions[k].min
        /\ t.baseAt = sessions[k].baseAt /\ t.attempt = sessions[k].attempt
        /\ t.claimed = sessions[k].claimed /\ t.persisted = sessions[k].persisted
    BY <2>1 DEF Sessions
  <2>3. t.base = sessions[k].base /\ t.qualified = sessions[k].qualified
    BY <2>1 DEF Sessions
  <2> HIDE DEF t
  <2>4. Quieter(t, sessions[k]) /\ ClaimKept(t, sessions[k])
    <3>1. Quieter(sessions[k], sessions[k]) /\ ClaimKept(sessions[k], sessions[k])
      BY <1>3, SameSession DEF Live
    <3> QED
      BY <2>2, <2>3, <3>1 DEF Quieter, ClaimKept
  <2>5. /\ sessions' \in [Keys -> Sessions \union {None}] /\ sessions'[k] = t
        /\ \A j \in Keys : j # k => sessions'[j] = sessions[j]
    BY <1>1, <2>1, <2>2
  <2> QED
    BY <1>3, <2>4, <2>5, SameSession DEF Live
<1> QED
  BY <1>2, <1>3

LEMMA UnconfirmedKeeps ==
  ASSUME ActivityInv, NEW h \in Handlers, Unconfirmed(h)
  PROVE  TrackerInv'
<1> DEFINE e == event[h]
<1>1. /\ event[h].step = "sent" /\ Busy(h) /\ event' = [event EXCEPT ![h] = Idle] /\ seq' = seq /\ now' = now
      /\ sessions' = IF e.key[2] # None /\ Live(e.key) /\ Newer(sessions[e.key], e.seq)
                     THEN [sessions EXCEPT ![e.key].seq = e.seq, ![e.key].base = FALSE] ELSE sessions
  BY DEF Unconfirmed, At, Busy, Done, Go
<1>2. TrackerInv /\ TrackerTypeOK /\ seq \in Nat /\ now \in Nat /\ sessions \in [Keys -> Sessions \union {None}]
  BY DEF ActivityInv, TrackerInv, TrackerTypeOK
<1>3. Carries(Idle, e)
  BY IdleIsEvent DEF Carries
<1>4. event' \in [Handlers -> Events] /\ \A g \in Handlers : Carries(event'[g], event[g])
  BY <1>1, <1>2, <1>3, EventMoves
<1>5. \A g \in Handlers : event[g].step \in {"write", "mark"} => event'[g] = event[g]
  BY <1>1, <1>2 DEF TrackerTypeOK
<1>6. PICK k \in Keys : k = e.key /\ e.seq \in 1..seq
  BY <1>1, <1>2 DEF TrackerInv, EventsSound
<1>7. CASE Live(k) /\ Newer(sessions[k], e.seq) /\ k[2] # None
  <2> DEFINE t == [sessions[k] EXCEPT !.seq = e.seq, !.base = FALSE]
  <2>1. sessions' = [sessions EXCEPT ![k] = t] /\ sessions[k] \in Sessions /\ e.seq > sessions[k].seq /\ e.seq \in Nat
    <3>1. sessions[k] \in Sessions
      BY <1>2, <1>7 DEF Live
    <3>2. sessions' = [sessions EXCEPT ![k].seq = e.seq, ![k].base = FALSE]
      BY <1>1, <1>6, <1>7
    <3>3. sessions' = [sessions EXCEPT ![k] = t]
      BY <1>2, <3>1, <3>2
    <3> QED
      BY <1>2, <1>6, <1>7, <3>1, <3>3 DEF Newer
  <2>2. /\ t \in Sessions /\ t.seq = e.seq /\ t.seen = sessions[k].seen /\ t.born = sessions[k].born
        /\ t.valid = sessions[k].valid /\ t.credit = sessions[k].credit /\ t.min = sessions[k].min
        /\ ~t.base /\ t.attempt = sessions[k].attempt
        /\ t.claimed = sessions[k].claimed /\ t.persisted = sessions[k].persisted
    BY <2>1 DEF Sessions
  <2>3. t.qualified = sessions[k].qualified
    BY <2>1 DEF Sessions
  <2> HIDE DEF t
  <2>4. Quieter(t, sessions[k]) /\ ClaimKept(t, sessions[k])
    <3>1. t.seq \in sessions[k].seq..seq
      BY <1>2, <1>6, <2>1, <2>2 DEF Sessions
    <3>2. sessions[k].persisted \in Nat
      BY <2>1 DEF Sessions
    <3> QED
      BY <2>2, <2>3, <3>1, <3>2 DEF Quieter, ClaimKept
  <2>5. /\ sessions' \in [Keys -> Sessions \union {None}] /\ sessions'[k] = t
        /\ \A j \in Keys : j # k => sessions'[j] = sessions[j]
    BY <1>2, <2>1, <2>2
  <2>6. \A j \in Keys : sessions'[j] # None =>
           sessions[j] # None /\ Quieter(sessions'[j], sessions[j]) /\ ClaimKept(sessions'[j], sessions[j])
    BY <1>2, <1>7, <2>4, <2>5, SameSession DEF Live
  <2> QED
    BY <1>1, <1>2, <1>4, <1>5, <2>5, <2>6, QuietNow
<1>8. CASE ~(Live(k) /\ Newer(sessions[k], e.seq) /\ k[2] # None)
  <2>1. sessions' = sessions
    BY <1>1, <1>6, <1>8
  <2>2. \A j \in Keys : sessions'[j] # None =>
           sessions[j] # None /\ Quieter(sessions'[j], sessions[j]) /\ ClaimKept(sessions'[j], sessions[j])
    BY <1>2, <2>1, SameSession
  <2> QED
    BY <1>1, <1>2, <1>4, <1>5, <2>1, <2>2, QuietNow
<1> QED
  BY <1>7, <1>8

\* An event that moves on before it is counted, while the tracker stays.
LEMMA MovesOn ==
  ASSUME TrackerInv, NEW h \in Handlers, NEW d, Carries(d, event[h]), event' = [event EXCEPT ![h] = d],
         event[h].step \notin {"write", "mark"},
         UNCHANGED <<seq, now>>, sessions' \in [Keys -> Sessions \union {None}],
         \A k \in Keys : sessions'[k] # None =>
            sessions[k] # None /\ Quieter(sessions'[k], sessions[k]) /\ ClaimKept(sessions'[k], sessions[k])
  PROVE  TrackerInv'
<1>1. event' \in [Handlers -> Events] /\ \A g \in Handlers : Carries(event'[g], event[g])
  BY EventMoves
<1>2. event \in [Handlers -> Events]
  BY DEF TrackerInv, TrackerTypeOK
<1>3. \A g \in Handlers : event[g].step \in {"write", "mark"} => event'[g] = event[g]
  BY <1>2
<1> QED
  BY <1>1, <1>3, QuietNow

LEMMA SessionsStay ==
  ASSUME TrackerInv, sessions' = sessions
  PROVE  /\ sessions' \in [Keys -> Sessions \union {None}]
         /\ \A k \in Keys : sessions'[k] # None =>
              sessions[k] # None /\ Quieter(sessions'[k], sessions[k]) /\ ClaimKept(sessions'[k], sessions[k])
BY SameSession DEF TrackerInv, TrackerTypeOK

\* The steps of an event before it is counted, and after what it claimed is written.
LEMMA EarlyKeeps ==
  ASSUME ActivityInv, NEW h \in Handlers,
         NotAllowed(h) \/ ConfirmScope(h) \/ ReadThreshold(h) \/ FinishStop(h)
  PROVE  TrackerInv'
<1> DEFINE e == event[h]
<1> USE Absent
<1>1. TrackerInv /\ e \in Events /\ RowsInv /\ cache \in Thresholds \union {0, None} /\ policy.min \in Thresholds
  BY DEF ActivityInv, TrackerInv, TrackerTypeOK, RowsInv, RowsTypeOK, Policies
<1>2. Carries(Idle, e)
  BY IdleIsEvent DEF Carries
<1>3. CASE NotAllowed(h)
  <2>1. event' = [event EXCEPT ![h] = Idle] /\ UNCHANGED <<seq, now, sessions>> /\ e.step = "sent"
    BY <1>3 DEF NotAllowed, Done, Go, At, trackerVars
  <2> QED
    BY <1>1, <1>2, <2>1, MovesOn, SessionsStay
<1>4. CASE ConfirmScope(h)
  <2> DEFINE d == [e EXCEPT !.step = "threshold"]
  <2>1. UNCHANGED <<seq, now, sessions>> /\ e.step = "sent"
        /\ (event' = [event EXCEPT ![h] = Idle] \/ event' = [event EXCEPT ![h] = d])
    BY <1>4 DEF ConfirmScope, Done, Go, At, trackerVars
  <2>2. Carries(d, e)
    <3>1. "threshold" \in Steps
      BY DEF Steps
    <3>2. d \in Events /\ d.step = "threshold" /\ d.key = e.key /\ d.seq = e.seq /\ d.at = e.at
      BY <1>1, <3>1 DEF Events
    <3> QED
      BY <2>1, <3>2 DEF Carries
  <2> HIDE DEF d
  <2> QED
    BY <1>1, <1>2, <2>1, <2>2, MovesOn, SessionsStay
<1>5. CASE FinishStop(h)
  <2>1. event' = [event EXCEPT ![h] = Idle] /\ UNCHANGED <<seq, now>> /\ e.step = "finish" /\ Finish(e.key)
    BY <1>5 DEF FinishStop, Done, Go, At
  <2>2. e.key \in Keys
    BY <1>1, <2>1 DEF TrackerInv, EventsSound, Busy
  <2> QED
    BY <1>1, <1>2, <2>1, <2>2, MovesOn, FinishMeans
<1>6. CASE ReadThreshold(h)
  <2>1. UNCHANGED <<seq, now>> /\ e.step = "threshold" /\ e.key \in Keys
    BY <1>1, <1>6 DEF ReadThreshold, At, TrackerInv, EventsSound, Busy
  <2>2. ASSUME NEW m \in Thresholds, NEW st \in {"observe", "fetched"}
        PROVE  Carries([e EXCEPT !.step = st, !.min = m], e)
    <3> DEFINE d == [e EXCEPT !.step = st, !.min = m]
    <3>1. st \in Steps /\ m \in Nat
      BY DEF Steps
    <3>2. d \in Events /\ d.step = st /\ d.key = e.key /\ d.seq = e.seq /\ d.at = e.at /\ d.min = m
      BY <1>1, <3>1 DEF Events
    <3> QED
      BY <2>1, <3>2 DEF Carries
  <2>3. CASE cache \in Thresholds /\ event' = [event EXCEPT ![h] = [e EXCEPT !.step = "observe", !.min = cache]]
             /\ sessions' = sessions
    BY <1>1, <2>1, <2>2, <2>3, MovesOn, SessionsStay
  <2>4. CASE event' = [event EXCEPT ![h] = [e EXCEPT !.step = "fetched", !.min = policy.min]] /\ sessions' = sessions
    BY <1>1, <2>1, <2>2, <2>4, MovesOn, SessionsStay
  <2>5. CASE event' = [event EXCEPT ![h] = Idle] /\ (Finish(e.key) \/ sessions' = sessions)
    BY <1>1, <1>2, <2>1, <2>5, MovesOn, SessionsStay, FinishMeans
  <2> QED
    BY <1>6, <2>3, <2>4, <2>5 DEF ReadThreshold, Done, Go, trackerVars
<1> QED
  BY <1>3, <1>4, <1>5, <1>6

LEMMA RecordKeeps ==
  ASSUME ActivityInv, NEW h \in Handlers, Record(h)
  PROVE  TrackerInv'
<1> DEFINE e == event[h]
<1> USE Absent
<1>1. TrackerInv /\ e \in Events /\ event \in [Handlers -> Events] /\ now \in Nat
  BY DEF ActivityInv, TrackerInv, TrackerTypeOK
<1>2. PICK ok \in BOOLEAN : event' = [event EXCEPT ![h] = [e EXCEPT !.step = "mark", !.stored = ok]]
  BY DEF Record, Go
<1>3. e.step = "write" /\ UNCHANGED <<seq, now, sessions>>
  BY DEF Record, At, trackerVars
<1> DEFINE d == [e EXCEPT !.step = "mark", !.stored = ok]
<1>4. /\ d \in Events /\ d.step = "mark" /\ d.key = e.key /\ d.seq = e.seq /\ d.at = e.at
      /\ d.qualified = e.qualified
  <2>1. "mark" \in Steps
    BY DEF Steps
  <2> QED
    BY <1>1, <2>1 DEF Events
<1> HIDE DEF d
<1>5. Carries(d, e)
  BY <1>3, <1>4 DEF Carries
<1>6. event' = [event EXCEPT ![h] = d]
  BY <1>2 DEF d
<1>7. event' \in [Handlers -> Events] /\ \A g \in Handlers : Carries(event'[g], event[g])
  BY <1>1, <1>5, <1>6, EventMoves
<1>8. \A g \in Handlers : event[g].step \in {"write", "mark"} =>
         /\ event'[g].step \in {"write", "mark"} /\ event'[g].key = event[g].key /\ event'[g].at = event[g].at
         /\ event'[g].qualified = event[g].qualified
  BY <1>1, <1>4, <1>6
<1>9. seq' = seq /\ now' \in Nat /\ now' >= now
  BY <1>1, <1>3
<1>10. /\ sessions' \in [Keys -> Sessions \union {None}]
       /\ \A k \in Keys : sessions'[k] # None =>
            sessions[k] # None /\ Quieter(sessions'[k], sessions[k]) /\ ClaimKept(sessions'[k], sessions[k])
  BY <1>1, <1>3, SessionsStay
<1> QED
  BY <1>1, <1>7, <1>8, <1>9, <1>10, QuietStep

\* A write that ends has met its claim or given it up.
LEMMA MarkKeeps ==
  ASSUME ActivityInv, NEW h \in Handlers, MarkRecord(h)
  PROVE  TrackerInv'
<1> DEFINE e == event[h]
<1> USE Absent
<1>1. /\ TrackerInv /\ e \in Events /\ event \in [Handlers -> Events] /\ now \in Nat
      /\ sessions \in [Keys -> Sessions \union {None}]
  BY DEF ActivityInv, TrackerInv, TrackerTypeOK
<1>2. /\ e.step = "mark" /\ UNCHANGED <<seq, now>>
      /\ (event' = [event EXCEPT ![h] = [e EXCEPT !.step = "finish"]] \/ event' = [event EXCEPT ![h] = Idle])
      /\ IF e.stored THEN Persisted(e) ELSE PersistFailed(e)
  BY DEF MarkRecord, At, Go, Done
<1>3. e.key \in Keys
  BY <1>1, <1>2 DEF TrackerInv, EventsSound, Busy
<1>4. PICK d : Carries(d, e) /\ event' = [event EXCEPT ![h] = d]
  <2> DEFINE f == [e EXCEPT !.step = "finish"]
  <2>1. f \in Events /\ f.step = "finish" /\ f.key = e.key /\ f.seq = e.seq /\ f.at = e.at
    <3>1. "finish" \in Steps
      BY DEF Steps
    <3> QED
      BY <1>1, <3>1 DEF Events
  <2>2. Carries(f, e) /\ Carries(Idle, e)
    BY <1>2, <2>1, IdleIsEvent DEF Carries
  <2> HIDE DEF f
  <2>3. event' = [event EXCEPT ![h] = f] \/ event' = [event EXCEPT ![h] = Idle]
    BY <1>2 DEF f
  <2> QED
    BY <2>2, <2>3
<1>5. /\ event' \in [Handlers -> Events] /\ \A g \in Handlers : Carries(event'[g], event[g])
      /\ \A g \in Handlers : g # h => event'[g] = event[g]
  BY <1>1, <1>4, EventMoves
<1>6. PICK k \in Keys : e.key = k
  BY <1>3
<1> DEFINE s == sessions[k]
<1>7. \/ sessions' = sessions /\ (e.qualified = 0 \/ s = None)
      \/ /\ e.qualified # 0 /\ s # None
         /\ \/ sessions' = [sessions EXCEPT ![k] = [s EXCEPT !.persisted = Later(s.persisted, e.qualified)]]
            \/ sessions' = [sessions EXCEPT ![k] = [s EXCEPT !.attempt = 0]]
  <2>1. CASE e.stored
    BY <1>1, <1>2, <1>6, <2>1 DEF Persisted, Live
  <2>2. CASE ~e.stored
    BY <1>1, <1>2, <1>6, <2>2 DEF PersistFailed, Live
  <2> QED
    BY <2>1, <2>2
<1>8. CASE sessions' = sessions /\ (e.qualified = 0 \/ s = None)
  <2>1. ClaimsBacked'
    <3> SUFFICES ASSUME NEW j \in Keys, sessions[j] # None, sessions[j].attempt # 0,
                        ~(sessions[j].persisted >= sessions[j].claimed)
                 PROVE  \E g \in Handlers : Writing(g, j)'
      BY <1>8 DEF ClaimsBacked, Live
    <3>1. PICK g \in Handlers : Writing(g, j)
      BY <1>1 DEF TrackerInv, ClaimsBacked, Live
    <3>2. g # h
      BY <1>6, <1>8, <3>1 DEF Writing
    <3> QED
      BY <1>5, <1>8, <3>1, <3>2 DEF Writing
  <2> QED
    BY <1>1, <1>2, <1>5, <1>8, <2>1, EventsFollow, SessionsQuiet, SessionsStay DEF TrackerInv, TrackerTypeOK
<1>9. ASSUME e.qualified # 0, s # None, NEW t \in Sessions, sessions' = [sessions EXCEPT ![k] = t],
             Quieter(t, s), t.attempt = 0 \/ (t.attempt = s.attempt /\ t.claimed = s.claimed
                                              /\ t.persisted >= s.persisted /\ t.persisted >= e.qualified)
      PROVE  TrackerInv'
  <2>1. /\ sessions' \in [Keys -> Sessions \union {None}] /\ sessions'[k] = t
        /\ \A j \in Keys : j # k => sessions'[j] = sessions[j]
    BY <1>1, <1>9
  <2>2. \A j \in Keys : sessions'[j] # None => sessions[j] # None /\ Quieter(sessions'[j], sessions[j])
    BY <1>1, <1>9, <2>1, SameSession
  <2>3. ASSUME NEW j \in Keys, sessions'[j] # None, sessions'[j].attempt # 0
        PROVE  sessions'[j].persisted >= sessions'[j].claimed \/ \E g \in Handlers : Writing(g, j)'
    <3>1. /\ sessions[j] # None /\ sessions'[j].attempt = sessions[j].attempt
          /\ sessions'[j].claimed = sessions[j].claimed /\ sessions[j] \in Sessions /\ sessions'[j] \in Sessions
          /\ sessions'[j].persisted >= sessions[j].persisted
          /\ j = k => sessions'[j].persisted >= e.qualified
      BY <1>1, <1>9, <2>1, <2>3 DEF Sessions
    <3>2. /\ {sessions[j].persisted, sessions[j].claimed, sessions'[j].persisted} \subseteq Nat
          /\ e.qualified \in Nat
      BY <1>1, <3>1 DEF Sessions, Events
    <3>3. CASE sessions[j].persisted >= sessions[j].claimed
      BY <3>1, <3>2, <3>3
    <3>4. CASE \E g \in Handlers : Writing(g, j)
      <4>1. PICK g \in Handlers : Writing(g, j)
        BY <3>4
      <4>2. CASE g = h
        BY <1>6, <3>1, <3>2, <4>1, <4>2 DEF Writing
      <4>3. CASE g # h
        <5>1. /\ event'[g].key = j /\ event'[g].at = sessions'[j].attempt /\ event'[g].step \in {"write", "mark"}
              /\ event'[g].qualified >= sessions'[j].claimed /\ event'[g].qualified # 0
          BY <1>5, <3>1, <4>1, <4>3 DEF Writing
        <5> QED
          BY <5>1 DEF Writing
      <4> QED
        BY <4>2, <4>3
    <3> QED
      BY <1>1, <2>3, <3>1, <3>3, <3>4 DEF TrackerInv, ClaimsBacked, Live
  <2>4. ClaimsBacked'
    BY <2>3 DEF ClaimsBacked, Live
  <2> QED
    BY <1>1, <1>2, <1>5, <2>1, <2>2, <2>4, EventsFollow, SessionsQuiet DEF TrackerInv, TrackerTypeOK
<1>10. ASSUME s # None
       PROVE  s \in Sessions /\ Quieter(s, s) /\ e.qualified \in Nat /\ s.persisted \in Nat
  BY <1>1, <1>10, SameSession DEF Events, Sessions
<1>11. CASE /\ e.qualified # 0 /\ s # None
            /\ sessions' = [sessions EXCEPT ![k] = [s EXCEPT !.persisted = Later(s.persisted, e.qualified)]]
  <2> DEFINE p == Later(s.persisted, e.qualified)
             t == [s EXCEPT !.persisted = p]
  <2>1. p \in Nat /\ p >= s.persisted /\ p >= e.qualified
    BY <1>10, <1>11 DEF Later
  <2> HIDE DEF p
  <2>2. /\ t \in Sessions /\ t.seq = s.seq /\ t.seen = s.seen /\ t.born = s.born /\ t.valid = s.valid
        /\ t.credit = s.credit /\ t.min = s.min /\ t.baseAt = s.baseAt /\ t.attempt = s.attempt
        /\ t.claimed = s.claimed /\ t.persisted = p
    BY <1>10, <1>11, <2>1 DEF Sessions
  <2>3. t.base = s.base /\ t.qualified = s.qualified
    BY <1>10, <1>11 DEF Sessions
  <2>4. sessions' = [sessions EXCEPT ![k] = t]
    BY <1>11 DEF p
  <2> HIDE DEF t
  <2>5. Quieter(t, s)
    BY <1>10, <1>11, <2>2, <2>3 DEF Quieter
  <2> QED
    BY <1>9, <1>11, <2>1, <2>2, <2>4, <2>5
<1>12. CASE e.qualified # 0 /\ s # None /\ sessions' = [sessions EXCEPT ![k] = [s EXCEPT !.attempt = 0]]
  <2> DEFINE t == [s EXCEPT !.attempt = 0]
  <2>1. /\ t \in Sessions /\ t.seq = s.seq /\ t.seen = s.seen /\ t.born = s.born /\ t.valid = s.valid
        /\ t.credit = s.credit /\ t.min = s.min /\ t.baseAt = s.baseAt /\ t.attempt = 0
    BY <1>10, <1>12 DEF Sessions
  <2>2. t.base = s.base /\ t.qualified = s.qualified
    BY <1>10, <1>12 DEF Sessions
  <2>3. sessions' = [sessions EXCEPT ![k] = t]
    BY <1>12
  <2> HIDE DEF t
  <2>4. Quieter(t, s)
    BY <1>10, <1>12, <2>1, <2>2 DEF Quieter
  <2> QED
    BY <1>9, <1>12, <2>1, <2>3, <2>4
<1> QED
  BY <1>7, <1>8, <1>11, <1>12

-----------------------------------------------------------------------------
(* An observation.                                                          *)

\* Some sessions of the tracker.
Fewer(ss) ==
  /\ ss \in [Keys -> Sessions \union {None}]
  /\ \A k \in Keys : ss[k] # None => ss[k] = sessions[k]

LEMMA KeptAreFewer == TrackerInv => Fewer(KeptSessions)
BY DEF TrackerInv, TrackerTypeOK, Fewer, KeptSessions, Live

LEMMA RoomIsFewer ==
  ASSUME NEW ss, Fewer(ss), NEW room \in RoomMade(ss)
  PROVE  Fewer(room) /\ \A k \in Keys : ss[k] = None => room[k] = None
<1>1. room = ss \/ \E k \in Keys : room = [ss EXCEPT ![k] = None]
  BY DEF RoomMade, Stoppable, Tracked
<1> QED
  BY <1>1 DEF Fewer

LEMMA FewerAreQuiet ==
  ASSUME TrackerInv, Fewer(sessions')
  PROVE  /\ sessions' \in [Keys -> Sessions \union {None}]
         /\ \A k \in Keys : sessions'[k] # None =>
              sessions[k] # None /\ Quieter(sessions'[k], sessions[k]) /\ ClaimKept(sessions'[k], sessions[k])
BY SameSession DEF Fewer

\* An observation that counts nothing: no session is credited and no time claimed.
LEMMA UncountedKeeps ==
  ASSUME TrackerInv, NEW h \in Handlers, At(h, "observe") \/ At(h, "fetched"), NEW ss, Fewer(ss),
         UNCHANGED <<seq, now>>, ActivityOnly(h, ss) \/ Ignored(h, ss)
  PROVE  TrackerInv'
<1> DEFINE e == event[h]
           d == [e EXCEPT !.step = "write", !.kind = "Report", !.activity = e.at]
<1> USE Absent
<1>1. /\ e \in Events /\ e.step \in {"observe", "fetched"} /\ sessions' = ss
      /\ (event' = [event EXCEPT ![h] = d] \/ event' = [event EXCEPT ![h] = Idle])
  BY DEF ActivityOnly, Ignored, Done, Go, At, TrackerInv, TrackerTypeOK
<1>2. Carries(d, e)
  <2>1. "write" \in Steps /\ e.at \in Nat
    BY <1>1 DEF Steps, Events
  <2>2. d \in Events /\ d.step = "write" /\ d.key = e.key /\ d.seq = e.seq /\ d.at = e.at
    BY <1>1, <2>1 DEF Events
  <2> QED
    BY <1>1, <2>2 DEF Carries
<1>3. Carries(Idle, e)
  BY IdleIsEvent DEF Carries
<1> HIDE DEF d
<1>4. e.step \notin {"write", "mark"}
  BY <1>1
<1> QED
  BY <1>1, <1>2, <1>3, <1>4, MovesOn, FewerAreQuiet

\* A counted sample: it is credited to a session that has not seen it, and what it
\* claims is written by the event that carried it.
LEMMA CountedKeeps ==
  ASSUME TrackerInv, NEW h \in Handlers, At(h, "observe") \/ At(h, "fetched"), NEW ss, Fewer(ss),
         UNCHANGED <<seq, now>>, NEW s0, Counted(h, ss, s0),
         \/ ss[event[h].key] # None /\ s0 = ss[event[h].key] /\ Newer(s0, event[h].seq)
         \/ s0 = NewSession(event[h].min)
  PROVE  TrackerInv'
<1> DEFINE e == event[h]
           s == Sampled(s0, e)
           news == QualifiedDue(s, e)
           t == IF news THEN [s EXCEPT !.attempt = e.at, !.claimed = s.valid] ELSE s
           activity == IF ActivityDue(KeptSlots, e) \/ e.kind = "Stopped" THEN e.at ELSE 0
           d == Onward(e, activity, IF news THEN s.valid ELSE 0)
<1> USE Absent
<1>1. /\ e \in Events /\ event \in [Handlers -> Events] /\ e.step \in {"observe", "fetched"} /\ Busy(h)
      /\ seq \in Nat /\ now \in Nat /\ sessions \in [Keys -> Sessions \union {None}]
  BY DEF TrackerInv, TrackerTypeOK, At, Busy
<1>2. e.key \in Keys /\ e.seq \in 1..seq /\ e.at <= now /\ e.min \in Thresholds /\ e.at \in Nat /\ e.seq \in Nat
  BY <1>1 DEF TrackerInv, EventsSound, Events
<1>3. PICK k \in Keys : e.key = k
  BY <1>2
<1>4. \/ /\ s0 = sessions[k] /\ sessions[k] # None /\ s0 \in Sessions /\ SessionSound(s0) /\ s0.seen <= e.at
         /\ e.seq > s0.seq
      \/ s0 = NewSession(e.min) /\ s0 \in Sessions /\ s0.attempt = 0
  <2>1. CASE ss[k] # None /\ s0 = ss[k] /\ Newer(s0, e.seq)
    <3>1. ss[k] = sessions[k] /\ sessions[k] # None
      BY <2>1 DEF Fewer
    <3>2. s0 \in Sessions /\ SessionSound(s0) /\ s0.seen <= e.at /\ e.seq > s0.seq
      BY <1>1, <1>3, <2>1, <3>1 DEF TrackerInv, SessionsSound, SamplesFollow, Live, Newer
    <3> QED
      BY <2>1, <3>1, <3>2
  <2>2. CASE s0 = NewSession(e.min)
    <3>1. NewSession(e.min) \in Sessions /\ NewSession(e.min).attempt = 0
      BY <1>2 DEF NewSession, Sessions
    <3> QED
      BY <2>2, <3>1
  <2> QED
    BY <1>3, <2>1, <2>2
<1>5. /\ s \in Sessions /\ SessionSound(s) /\ s.seq = e.seq /\ s.seen = e.at
      /\ s.persisted = s0.persisted /\ s.attempt = s0.attempt /\ s.claimed = s0.claimed
  BY <1>1, <1>2, <1>4, SampledMeans
<1>6. /\ sessions' = [ss EXCEPT ![k] = t] /\ event' = [event EXCEPT ![h] = d]
  BY <1>3 DEF Counted, Go
<1> HIDE DEF s, activity
<1>7. activity \in Nat /\ s.valid \in Nat /\ s.persisted \in Nat /\ (news => s.valid # 0)
  BY <1>2, <1>5 DEF activity, Sessions, QualifiedDue
<1>8. /\ t \in Sessions /\ SessionSound(t) /\ t.seq = e.seq /\ t.seen = e.at /\ t.persisted = s.persisted
      /\ news => t.attempt = e.at /\ t.claimed = s.valid
      /\ ~news => t.attempt = s.attempt /\ t.claimed = s.claimed
  <2>1. CASE ~news
    BY <1>5, <2>1
  <2>2. CASE news
    <3> DEFINE n == [s EXCEPT !.attempt = e.at, !.claimed = s.valid]
    <3>1. /\ n \in Sessions /\ n.seq = s.seq /\ n.seen = s.seen /\ n.born = s.born /\ n.valid = s.valid
          /\ n.credit = s.credit /\ n.min = s.min /\ n.baseAt = s.baseAt /\ n.persisted = s.persisted
          /\ n.attempt = e.at /\ n.claimed = s.valid
      BY <1>2, <1>5, <1>7 DEF Sessions
    <3>2. n.base = s.base /\ n.qualified = s.qualified
      BY <1>5 DEF Sessions
    <3>3. t = n
      BY <2>2
    <3> HIDE DEF n, t
    <3>4. SessionSound(n)
      BY <1>5, <3>1, <3>2 DEF SessionSound
    <3> QED
      BY <1>5, <2>2, <3>1, <3>3, <3>4
  <2> QED
    BY <2>1, <2>2
<1>9. Carries(d, e) /\ d.step \in {"write", "finish", "idle"}
      /\ (news => d.step = "write" /\ d.key = e.key /\ d.at = e.at /\ d.qualified = s.valid)
  <2> DEFINE q == IF news THEN s.valid ELSE 0
             m == [e EXCEPT !.activity = activity, !.qualified = q]
             w == [m EXCEPT !.step = "write"]
             f == [m EXCEPT !.step = "finish"]
  <2>1. q \in Nat /\ (news => q = s.valid /\ q # 0) /\ {"write", "finish"} \subseteq Steps
    BY <1>7 DEF Steps
  <2>2. d \in {w, f, Idle} /\ (activity # 0 \/ q # 0 => d = w)
    BY DEF Onward
  <2> HIDE DEF q, d
  <2>3. m \in Events /\ m.key = e.key /\ m.seq = e.seq /\ m.at = e.at /\ m.qualified = q
    BY <1>1, <1>7, <2>1 DEF Events
  <2> HIDE DEF m
  <2>4. w \in Events /\ w.step = "write" /\ w.key = m.key /\ w.seq = m.seq /\ w.at = m.at /\ w.qualified = m.qualified
    BY <2>1, <2>3 DEF Events
  <2>5. f \in Events /\ f.step = "finish" /\ f.key = m.key /\ f.seq = m.seq /\ f.at = m.at
    BY <2>1, <2>3 DEF Events
  <2> HIDE DEF w, f
  <2>6. Carries(w, e) /\ Carries(f, e) /\ Carries(Idle, e) /\ Idle.step = "idle"
    BY <1>1, <2>3, <2>4, <2>5, IdleIsEvent DEF Carries, Busy
  <2>7. news => d = w
    BY <2>1, <2>2
  <2> HIDE DEF news
  <2> QED
    BY <2>1, <2>2, <2>3, <2>4, <2>5, <2>6, <2>7
<1> HIDE DEF d, t, news
<1>10. /\ event' \in [Handlers -> Events] /\ \A g \in Handlers : Carries(event'[g], event[g])
       /\ event'[h] = d /\ \A g \in Handlers : g # h => event'[g] = event[g]
  BY <1>1, <1>6, <1>9, EventMoves
<1>11. /\ sessions' \in [Keys -> Sessions \union {None}] /\ sessions'[k] = t
       /\ \A j \in Keys : j # k /\ sessions'[j] # None => sessions'[j] = sessions[j]
  BY <1>6, <1>8 DEF Fewer
<1>12. EventsSound'
  BY <1>1, <1>10, EventsFollow
<1>13. SessionsSound'
  <2> SUFFICES ASSUME NEW j \in Keys, sessions'[j] # None PROVE SessionSound(sessions[j])'
    BY DEF SessionsSound, Live
  <2>1. SessionSound(sessions'[j])
    BY <1>8, <1>11 DEF TrackerInv, SessionsSound, Live
  <2> QED
    BY <2>1 DEF SessionSound
<1>14. SamplesFollow'
  <2> SUFFICES ASSUME NEW j \in Keys, NEW g \in Handlers, sessions'[j] # None, event'[g].step # "idle",
                      event'[g].key = j, event'[g].seq > sessions'[j].seq
               PROVE  sessions'[j].seen <= event'[g].at
    BY DEF SamplesFollow, Live, Busy
  <2>1. event[g].step # "idle" /\ event'[g].key = event[g].key /\ event'[g].seq = event[g].seq
        /\ event'[g].at = event[g].at /\ event[g].seq \in Nat
    BY <1>1, <1>10 DEF Carries, Events
  <2>2. CASE j = k
    <3>1. event[h].seq < event[g].seq
      BY <1>2, <1>8, <1>11, <2>1, <2>2
    <3>2. event[h].at <= event[g].at
      BY <1>1, <2>1, <3>1 DEF TrackerInv, EventsSound, Busy
    <3> QED
      BY <1>8, <1>11, <2>1, <2>2, <3>2
  <2>3. CASE j # k
    BY <1>11, <2>1, <2>3 DEF TrackerInv, SamplesFollow, Live, Busy
  <2> QED
    BY <2>2, <2>3
<1>15. ClaimsBacked'
  <2> SUFFICES ASSUME NEW j \in Keys, sessions'[j] # None, sessions'[j].attempt # 0,
                      ~(sessions'[j].persisted >= sessions'[j].claimed)
               PROVE  \E g \in Handlers : Writing(g, j)'
    BY DEF ClaimsBacked, Live
  <2>1. CASE j = k /\ news
    <3>1. /\ event'[h].key = j /\ event'[h].at = sessions'[j].attempt /\ event'[h].step \in {"write", "mark"}
          /\ event'[h].qualified >= sessions'[j].claimed /\ event'[h].qualified # 0
      BY <1>3, <1>7, <1>8, <1>9, <1>10, <1>11, <2>1
    <3> QED
      BY <3>1 DEF Writing
  <2>2. CASE ~(j = k /\ news)
    <3>1. /\ sessions[j] # None /\ sessions'[j].attempt = sessions[j].attempt
          /\ sessions'[j].claimed = sessions[j].claimed /\ sessions'[j].persisted = sessions[j].persisted
      <4>1. CASE j # k
        BY <1>11, <4>1
      <4>2. CASE j = k
        <5>1. ~news /\ sessions'[j] = t /\ t.attempt = s0.attempt /\ t.claimed = s0.claimed
              /\ t.persisted = s0.persisted
          BY <1>5, <1>8, <1>11, <2>2, <4>2
        <5> QED
          BY <1>4, <4>2, <5>1
      <4> QED
        BY <4>1, <4>2
    <3>2. PICK g \in Handlers : Writing(g, j)
      BY <3>1 DEF TrackerInv, ClaimsBacked, Live
    <3>3. g # h
      BY <1>1, <3>2 DEF Writing
    <3>4. /\ event'[g].key = j /\ event'[g].at = sessions'[j].attempt /\ event'[g].step \in {"write", "mark"}
          /\ event'[g].qualified >= sessions'[j].claimed /\ event'[g].qualified # 0
      BY <1>10, <3>1, <3>2, <3>3 DEF Writing
    <3> QED
      BY <3>4 DEF Writing
  <2> QED
    BY <2>1, <2>2
<1> QED
  BY <1>1, <1>10, <1>11, <1>12, <1>13, <1>14, <1>15 DEF TrackerInv, TrackerTypeOK

LEMMA ObserveKeeps ==
  ASSUME TrackerInv, NEW h \in Handlers, Observe(h)
  PROVE  TrackerInv'
<1> DEFINE e == event[h]
           ss == KeptSessions
<1> USE Absent
<1>1. (At(h, "observe") \/ At(h, "fetched")) /\ UNCHANGED <<seq, now>> /\ ObserveSample(h)
  BY DEF Observe
<1>2. e.key \in Keys
  BY <1>1 DEF TrackerInv, EventsSound, At, Busy
<1>3. Fewer(ss)
  BY KeptAreFewer
<1>4. \/ ActivityOnly(h, ss) \/ Ignored(h, ss)
      \/ ss[e.key] # None /\ Newer(ss[e.key], e.seq) /\ Counted(h, ss, ss[e.key])
      \/ \E room \in RoomMade(ss) : Counted(h, room, NewSession(e.min))
  BY <1>1 DEF ObserveSample
<1> HIDE DEF ss
<1>5. CASE ActivityOnly(h, ss) \/ Ignored(h, ss)
  BY <1>1, <1>3, <1>5, UncountedKeeps
<1>6. CASE ss[e.key] # None /\ Newer(ss[e.key], e.seq) /\ Counted(h, ss, ss[e.key])
  BY <1>1, <1>3, <1>6, CountedKeeps
<1>7. CASE \E room \in RoomMade(ss) : Counted(h, room, NewSession(e.min))
  <2>1. PICK room \in RoomMade(ss) : Counted(h, room, NewSession(e.min))
    BY <1>7
  <2>2. Fewer(room)
    BY <1>3, RoomIsFewer
  <2> QED
    BY <1>1, <2>1, <2>2, CountedKeeps
<1> QED
  BY <1>4, <1>5, <1>6, <1>7

-----------------------------------------------------------------------------
(* The specification.                                                       *)

\* Steps that leave the tracker and the events alone.
LEMMA AsideKeeps ==
  ASSUME TrackerInv, UNCHANGED <<sessions, event, seq>>, now' = now \/ now' = now + 1
  PROVE  TrackerInv'
<1>1. now \in Nat
  BY DEF TrackerInv, TrackerTypeOK
<1>2. now' \in Nat /\ now' >= now
  BY <1>1
<1>3. \A h \in Handlers : event[h].step \in {"write", "mark"} =>
         /\ event'[h].step \in {"write", "mark"} /\ event'[h].key = event[h].key /\ event'[h].at = event[h].at
         /\ event'[h].qualified = event[h].qualified
  OBVIOUS
<1> QED
  BY <1>2, <1>3, EventStays, SessionsStay, QuietStep

\* Without sessions nothing is credited and nothing claimed.
LEMMA EmptyKeeps ==
  ASSUME sessions' = NoSessions, seq' \in Nat, now' \in Nat, event' \in [Handlers -> Events], EventsSound'
  PROVE  TrackerInv'
BY DEF NoSessions, TrackerInv, TrackerTypeOK, SessionsSound, SamplesFollow, ClaimsBacked, Live

LEMMA NobodyBusy ==
  ASSUME event' = [h \in Handlers |-> Idle]
  PROVE  event' \in [Handlers -> Events] /\ EventsSound'
BY IdleIsEvent DEF EventsSound, Busy

LEMMA TrackerStep == ActivityInv /\ [Next]_vars => TrackerInv'
<1> SUFFICES ASSUME ActivityInv, [Next]_vars PROVE TrackerInv'
  OBVIOUS
<1>1. TrackerInv /\ seq \in Nat /\ now \in Nat
  BY DEF ActivityInv, TrackerInv, TrackerTypeOK
<1>2. ASSUME NEW h \in Handlers, Report(h) PROVE TrackerInv'
  <2>1. CASE \E kind \in {"Report", "Stopped"}, play \in Plays \union {None}, pos \in Positions \union {None} :
               Begin(h, kind, play, pos)
    BY <2>1, BeginKeepsActivity
  <2>2. CASE Unconfirmed(h)
    BY <2>2, UnconfirmedKeeps
  <2>3. CASE NotAllowed(h) \/ ConfirmScope(h) \/ ReadThreshold(h) \/ FinishStop(h)
    BY <2>3, EarlyKeeps
  <2>4. CASE Observe(h)
    BY <1>1, <2>4, ObserveKeeps
  <2>5. CASE Record(h)
    BY <2>5, RecordKeeps
  <2>6. CASE MarkRecord(h)
    BY <2>6, MarkKeeps
  <2> QED
    BY <1>2, <2>1, <2>2, <2>3, <2>4, <2>5, <2>6 DEF Report
<1>3. CASE \/ \E keep \in BOOLEAN : ShowActivity(keep)
           \/ \E enabled \in BOOLEAN, min \in Thresholds, manual \in {0, now} : SavePolicy(enabled, min, manual)
           \/ \E a \in Accounts \union {Blank} : EditAccount(a)
           \/ ExpireCache \/ Tick \/ UNCHANGED vars
  <2>1. UNCHANGED <<sessions, event, seq>> /\ (now' = now \/ now' = now + 1)
    BY <1>3 DEF ShowActivity, SavePolicy, EditAccount, ExpireCache, Tick, vars, trackerVars
  <2> QED
    BY <1>1, <2>1, AsideKeeps
<1>4. CASE DeleteServer
  <2>1. sessions' = NoSessions /\ UNCHANGED <<seq, now, event>>
    BY <1>4 DEF DeleteServer
  <2>2. now' \in Nat /\ now' >= now
    BY <1>1, <2>1
  <2>3. event' \in [Handlers -> Events] /\ EventsSound'
    BY <1>1, <2>1, <2>2, EventStays, EventsFollow
  <2> QED
    BY <1>1, <2>1, <2>3, EmptyKeeps
<1>5. CASE Restart
  <2>1. sessions' = NoSessions /\ UNCHANGED <<seq, now>> /\ event' = [h \in Handlers |-> Idle]
    BY <1>5 DEF Restart
  <2> QED
    BY <1>1, <2>1, NobodyBusy, EmptyKeeps
<1> QED
  BY <1>2, <1>3, <1>4, <1>5 DEF Next

LEMMA InitHolds == Init => ActivityInv
<1> SUFFICES ASSUME Init PROVE ActivityInv
  OBVIOUS
<1> USE Absent
<1>1. /\ account \in Accounts /\ ensured = account /\ cache = None
      /\ policy = NewPolicy(1) /\ summary = [NoSummary EXCEPT !.scope = account]
      /\ form = NoForm /\ sessions = NoSessions /\ seq = 0 /\ now = 1 /\ event = [h \in Handlers |-> Idle]
  BY DEF Init
<1>2. policy \in Policies /\ policy.rev = 1 /\ policy.scope = None /\ policy.manual = 0
  <2>1. NoPolicy \in Policies /\ NoPolicy.manual = 0 /\ NoPolicy.scope = None
    BY DEF NoPolicy, Policies
  <2> QED
    BY <1>1, <2>1 DEF NewPolicy, NoPolicy, Policies
<1>3. summary \in Summaries /\ summary.scope = account /\ summary.by = {} /\ summary.qualified = 0
  BY <1>1 DEF NoSummary, Summaries
<1>4. NoForm \in Forms /\ NoForm.rev = 0
  BY DEF NoForm, Forms
<1>5. RowsInv
  BY <1>1, <1>2, <1>3, <1>4 DEF RowsInv, RowsTypeOK, RowsSound, FormSound
<1>6. TrackerInv
  BY <1>1, IdleIsEvent DEF TrackerInv, TrackerTypeOK, EventsSound, Busy, NoSessions, SessionsSound,
                           SamplesFollow, ClaimsBacked, Live
<1> QED
  BY <1>5, <1>6 DEF ActivityInv

\* Rows, form, events and play sessions agree in every reachable state, whatever the
\* order of answers, account changes, deletions and restarts.
THEOREM ActivitySound == ActivitySpec => []ActivityInv
<1>1. ActivityInv /\ [Next]_vars => ActivityInv'
  BY RowsStep, TrackerStep DEF ActivityInv
<1> QED
  BY InitHolds, <1>1, PTL DEF ActivitySpec

\* No play session is credited with more viewing than the time that passed, and none
\* qualifies for the cycle with less than the minimum it was opened with (Observe).
THEOREM CreditsAreEarned == ActivitySpec => []CreditIsElapsedTime
<1>1. ActivityInv => CreditIsElapsedTime
  <2> SUFFICES ASSUME ActivityInv, NEW k \in Keys, Live(k)
               PROVE  LET s == sessions[k] IN
                      /\ s.credit <= IF s.valid = 0 THEN 0 ELSE s.valid - s.born
                      /\ s.qualified => s.credit >= s.min /\ s.valid # 0
    BY DEF CreditIsElapsedTime
  <2>1. sessions[k] \in Sessions /\ SessionSound(sessions[k])
    BY DEF ActivityInv, TrackerInv, TrackerTypeOK, SessionsSound, Live
  <2>2. /\ sessions[k].credit \in Nat /\ sessions[k].valid \in Nat /\ sessions[k].born \in Nat
        /\ sessions[k].min \in Nat
    BY <2>1 DEF Sessions
  <2> QED
    BY <2>1, <2>2 DEF SessionSound
<1> QED
  BY ActivitySound, <1>1, PTL

\* A session that waits for no further write has its last claim in the summary row, or
\* the write under way; a failed one gives the claim up (MarkPersistFailed).
THEOREM WritesAreRetried == ActivitySpec => []NoWriteForgotten
<1>1. ActivityInv => NoWriteForgotten
  BY DEF ActivityInv, TrackerInv, ClaimsBacked, NoWriteForgotten, Writing
<1> QED
  BY ActivitySound, <1>1, PTL

\* What the panel shows of the current account never rests on viewing or a manual
\* reference of another one (adminUpstreamActivityView).
THEOREM ViewsAreTheAccounts == ActivitySpec => []ViewSpeaksOfAccount
<1>1. ActivityInv => ViewSpeaksOfAccount
  <2> SUFFICES ASSUME ActivityInv, Shown.state \in {"normal", "warning", "urgent", "overdue"}
               PROVE  Shown.by = {account}
    BY DEF ViewSpeaksOfAccount
  <2> USE Absent
  <2> DEFINE known == ensured = account
             p == IF known THEN policy ELSE ScopedPolicy(account)
             s == IF known THEN summary ELSE ScopedSummary(account)
             available == account # Blank /\ health = {}
             observed == IF s.scope = account THEN s.qualified ELSE 0
             ref == Later(observed, ManualOf(p))
  <2>1. /\ Shown = View(p, s, available) /\ RowsInv
    BY DEF Shown, ActivityInv
  <2>2. available /\ ref # 0
    <3> HIDE DEF p, s, available
    <3>1. Shown.state = IF ~available THEN "unavailable" ELSE Tier(p, ref)
      BY <2>1 DEF View
    <3> QED
      BY <3>1 DEF Tier
  <2>3. Shown.by = IF ManualOf(p) > observed THEN {p.scope} ELSE s.by
    <3> HIDE DEF p, s, available
    <3> QED
      BY <2>1, <2>2 DEF View
  <2>4. /\ p.manual \in Nat /\ (p.scope = None => p.manual = 0) /\ s.qualified \in Nat
        /\ (s.qualified # 0 => s.by = {s.scope} /\ s.scope # None)
    <3>1. CASE known
      <4>1. p = policy /\ s = summary
        BY <3>1
      <4> HIDE DEF p, s
      <4> QED
        BY <2>1, <4>1 DEF RowsInv, RowsTypeOK, RowsSound, Policies, Summaries
    <3>2. CASE ~known
      <4>1. account \in Accounts
        BY <2>1, <2>2, <3>2 DEF RowsInv, RowsTypeOK, RowsSound
      <4>2. p = ScopedPolicy(account) /\ s = ScopedSummary(account)
        BY <3>2
      <4> HIDE DEF p, s
      <4> QED
        BY <2>1, <4>1, <4>2, ScopedMeans DEF Policies, Summaries
    <3> QED
      BY <3>1, <3>2
  <2> HIDE DEF p, s
  <2>5. CASE ManualOf(p) > observed
    <3>1. observed \in Nat /\ p.scope = account
      BY <2>4, <2>5 DEF ManualOf
    <3> QED
      BY <2>3, <2>5, <3>1
  <2>6. CASE ~(ManualOf(p) > observed)
    <3>1. observed # 0
      BY <2>2, <2>4, <2>6 DEF Later, ManualOf
    <3> QED
      BY <2>3, <2>4, <2>6, <3>1
  <2> QED
    BY <2>5, <2>6
<1> QED
  BY ActivitySound, <1>1, PTL

\* A form made for an account the server no longer has is refused by its revision,
\* even when the two accounts' rows differ in nothing else (SavePolicy).
THEOREM FormsAreTheAccounts == ActivitySpec => []FormsFollowTheAccount
<1>1. ActivityInv => FormsFollowTheAccount
  <2> SUFFICES ASSUME ActivityInv, form # NoForm, form.rev # 0, account \in Accounts,
                      (IF ensured = account THEN policy ELSE ScopedPolicy(account)).rev = form.rev
               PROVE  form.account = account
    BY DEF FormsFollowTheAccount
  <2>1. /\ RowsInv /\ policy.rev # 0 /\ policy.rev \in Nat /\ form.rev \in Nat /\ form.rev <= policy.rev
        /\ form.rev = policy.rev => summary.scope = form.account
    BY Absent DEF ActivityInv, RowsInv, RowsTypeOK, RowsSound, FormSound, Policies, Forms
  <2>2. CASE ensured = account
    BY <2>1, <2>2 DEF RowsInv, RowsSound
  <2>3. CASE ensured # account
    <3>1. ScopedPolicy(account) \in Policies /\ ScopedPolicy(account).rev = form.rev
      BY <2>1, <2>3, ScopedMeans
    <3>2. summary.scope = account
      <4>1. summary.scope # account => ScopedPolicy(account).rev > policy.rev
        BY <2>1, ScopedMeans
      <4> QED
        BY <2>1, <3>1, <4>1
    <3>3. ScopedPolicy(account) = policy
      BY <2>1, <3>2, ScopedMeans
    <3> QED
      BY <2>1, <3>1, <3>2, <3>3
  <2> QED
    BY <2>2, <2>3
<1> QED
  BY ActivitySound, <1>1, PTL
================================================================================
