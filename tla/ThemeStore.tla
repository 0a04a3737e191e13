------------------------------- MODULE ThemeStore -------------------------------
(***************************************************************************)
(* Installed themes of the web pages (theme_store*.go): rows of the shared *)
(* database, immutable directories named by content hash, and the store's  *)
(* copy in memory.  Every operation holds the store's lock, so only a      *)
(* crash, the file system and somebody who damages a directory come        *)
(* between its steps: files are staged before the row names them, the row  *)
(* changes in one transaction, and files go after it.                      *)
(*                                                                         *)
(* A version is a content hash and belongs to one theme (Owner).  A        *)
(* revision is random and differs from the one before; here it is fresh.   *)
(***************************************************************************)
EXTENDS Naturals, FiniteSets, FiniteSetsExt

CONSTANTS
  Themes, Versions, Owner, Bytes,
  Members,
  Builtin,      \* the builtin theme
  Site,         \* a preference that follows the site default
  Nil,
  MaxThemes, MaxThemeBytes,
  MaxThemeRevision, MaxLosses   \* bounds

ASSUME ThemeAssumption ==
  /\ Owner \in [Versions -> Themes] /\ Bytes \in [Versions -> Nat]
  /\ {Builtin, Site, Nil} \intersect (Themes \union Versions) = {}
  /\ Builtin # Site /\ Builtin # Nil /\ Site # Nil
  /\ MaxThemes \in Nat /\ MaxThemeBytes \in Nat /\ MaxThemeRevision \in Nat /\ MaxLosses \in Nat
  /\ IsFiniteSet(Versions)

\* A row of a theme, an entry of the store's memory, and a choice of a member: what is
\* not there is Nil.
Rows == [enabled : BOOLEAN, current : Versions \union {Nil}, previous : Versions \union {Nil},
         rev : Nat]
Entries == [enabled : BOOLEAN, current : Versions \union {Nil}, previous : Versions \union {Nil},
            rev : Nat, available : BOOLEAN]
Selections == [theme : Themes \union {Builtin, Site}, rev : Nat]
ASSUME NilIsAbsence == Nil \notin Rows /\ Nil \notin Entries /\ Nil \notin Selections

VARIABLES
  themeRows, registered, site, prefs,  \* the database
  dirs,         \* the directory of a version: "absent", "intact" or "damaged"
  staging,      \* the version in a staging directory, or None
  entries, versions, siteCopy,    \* the store's memory
  up,           \* the store is open
  op,           \* what the running operation has left to do
  revision,     \* the last revision given
  losses        \* directories damaged or removed behind the store

database == <<themeRows, registered, site, prefs>>
memory == <<entries, versions, siteCopy>>
files == <<dirs, staging>>
themeVars == <<database, memory, files, up, op, revision, losses>>

NoOp == [step |-> "none"]
Present(v) == dirs[v] # "absent"
Installed(es) == {t \in Themes : es[t] # Nil}
KeptVersions(es) == (UNION {{es[t].current, es[t].previous} : t \in Installed(es)}) \ {Nil}
\* a theme that may be chosen
Selectable(t) == entries[t] # Nil /\ entries[t].enabled /\ entries[t].available
NextRevision == revision + 1
\* what PublicCatalog lists, and the versions whose files ReadAsset serves after its
\* check of kind, size and digest
Listed == {entries[t].current : t \in {s \in Themes : Selectable(s)}}
Served(v) == v \in versions /\ dirs[v] = "intact"

Ready == up /\ op = NoOp
Without(ds, vs) == [v \in Versions |-> IF v \in vs THEN "absent" ELSE ds[v]]

-----------------------------------------------------------------------------
(* InstallUpdate.                                                           *)

\* themeStorePurgeUnreferencedLocked: leftovers go, as far as they can be removed.
Purged(stuck) == Without(dirs, Versions \ (KeptVersions(entries) \union stuck))

NewBytes(t, v) ==
  IF (entries[t] # Nil /\ entries[t].current = v) \/ v \in versions THEN 0 ELSE Bytes[v]
Fits(ds, new) ==
  MapThenSumSet(LAMBDA v : Bytes[v], {v \in Versions : ds[v] # "absent"}) + new <= MaxThemeBytes
\* the previous version that is given up for quota
Reclaimable(t, v) ==
  IF entries[t] = Nil \/ entries[t].current = Nil THEN {}
  ELSE {entries[t].previous} \ {Nil, entries[t].current, v}
NextPrevious(t, v) ==
  IF entries[t] = Nil THEN Nil
  ELSE IF entries[t].current \notin {Nil, v} THEN entries[t].current
  ELSE IF entries[t].current = v /\ entries[t].previous # v THEN entries[t].previous ELSE Nil

\* Revisions and quotas are tested first, with the revision the administrator saw.  A
\* version given up for quota stays lost when the install is refused or fails later.
BeginInstall(v) ==
  LET t == Owner[v] e == entries[t] IN
  /\ Ready /\ revision < MaxThemeRevision
  /\ e = Nil => Cardinality(Installed(entries)) < MaxThemes
  /\ \E stuck \in SUBSET {w \in Versions : Present(w)} :
       LET clean == Purged(stuck)
           new == NewBytes(t, v)
           give == IF new > 0 /\ ~Fits(clean, new) THEN Reclaimable(t, v) ELSE {}
           ds == Without(clean, give)
           old == IF e = Nil THEN Nil ELSE e.previous
       IN /\ dirs' = ds /\ staging' = Nil
          /\ entries' = IF give = {} THEN entries
                        ELSE [entries EXCEPT ![t].previous = Nil]
          /\ versions' = versions \ give
          /\ op' = IF new > 0 /\ ~Fits(ds, new) THEN NoOp
                   ELSE [step |-> "stage", version |-> v, before |-> NextPrevious(t, v),
                         prune |-> ({old} \union give), created |-> FALSE]
  /\ UNCHANGED <<database, siteCopy, up, revision, losses>>

\* Faulty: the new version itself may be among those that go.
PrunedAll(o) == o.prune \ {Nil}
Pruned(o) == o.prune \ {Nil, o.version, o.before}

\* themeStoreStageVersionLocked: a registered directory is used again after a check,
\* another one is replaced through a staging directory.
Stage ==
  LET v == op.version IN
  /\ up /\ op.step = "stage"
  /\ IF Present(v) /\ v \in versions
     THEN /\ op' = IF dirs[v] = "intact" THEN [op EXCEPT !.step = "commit"] ELSE NoOp
          /\ UNCHANGED files
     ELSE \/ /\ dirs' = [dirs EXCEPT ![v] = "absent"] /\ staging' = v
             /\ op' = [op EXCEPT !.step = "rename", !.created = TRUE]
          \/ dirs' \in {dirs, [dirs EXCEPT ![v] = "absent"]} /\ staging' = Nil /\ op' = NoOp
  /\ UNCHANGED <<database, memory, up, revision, losses>>

RenameStaged ==
  /\ up /\ op.step = "rename"
  /\ \/ dirs' = [dirs EXCEPT ![op.version] = "intact"] /\ op' = [op EXCEPT !.step = "commit"]
     \/ UNCHANGED dirs /\ op' = NoOp
  /\ staging' = Nil
  /\ UNCHANGED <<database, memory, up, revision, losses>>

\* The transaction; when it fails, a directory made for it is removed if possible.
CommitInstall ==
  LET v == op.version t == Owner[v] e == entries[t] IN
  /\ up /\ op.step = "commit"
  /\ \/ /\ registered' = (registered \union {v}) \ Pruned(op)
        /\ revision' = NextRevision
        /\ themeRows' = [themeRows EXCEPT ![t] =
             [enabled |-> IF e = Nil THEN TRUE ELSE e.enabled,
              current |-> v, previous |-> op.before, rev |-> NextRevision]]
        /\ op' = [op EXCEPT !.step = "publish"]
        /\ UNCHANGED files
     \/ /\ dirs' \in IF op.created THEN {dirs, [dirs EXCEPT ![v] = "absent"]} ELSE {dirs}
        /\ op' = NoOp
        /\ UNCHANGED <<themeRows, registered, revision, staging>>
  /\ UNCHANGED <<site, prefs, memory, up, losses>>

Entry(row, current, previous) ==
  [enabled |-> row.enabled, current |-> current, previous |-> previous,
   rev |-> row.rev, available |-> current # Nil]

\* The memory follows, then the pruned directories.
Publish ==
  LET v == op.version t == Owner[v]
      before == IF op.before \in versions THEN op.before ELSE Nil
      es == [entries EXCEPT ![t] = Entry(themeRows[t], v, before)]
  IN /\ up /\ op.step = "publish"
     /\ entries' = es /\ versions' = (versions \union {v}) \intersect KeptVersions(es)
     /\ op' = [step |-> "remove", gone |-> Pruned(op)]
     /\ UNCHANGED <<database, siteCopy, files, up, revision, losses>>

-----------------------------------------------------------------------------
(* Catalog changes: one transaction, then the memory.                       *)

SetSiteDefault(t) ==
  /\ Ready /\ revision < MaxThemeRevision
  /\ t # Builtin => Selectable(t)
  /\ t # siteCopy.theme
  /\ site' = [theme |-> t, rev |-> NextRevision] /\ siteCopy' = site' /\ revision' = NextRevision
  /\ UNCHANGED <<themeRows, registered, prefs, entries, versions, files, up, op, losses>>

MayDisable(t) == siteCopy.theme # t
SetEnabled(t, enabled) ==
  /\ Ready /\ revision < MaxThemeRevision
  /\ entries[t] # Nil /\ (~enabled => MayDisable(t)) /\ entries[t].enabled # enabled
  /\ themeRows' = [themeRows EXCEPT ![t] = [enabled |-> enabled, current |-> entries[t].current,
                                  previous |-> entries[t].previous, rev |-> NextRevision]]
  /\ entries' = [entries EXCEPT ![t].enabled = enabled, ![t].rev = NextRevision]
  /\ revision' = NextRevision
  /\ UNCHANGED <<registered, site, prefs, versions, siteCopy, files, up, op, losses>>

\* Faulty: personal choices of the theme stay.
KeepPreferences(t) == prefs
\* themeStoreResetPreferencesForTheme
ResetPreferences(t) ==
  [u \in Members |-> IF prefs[u] # Nil /\ prefs[u].theme = t THEN [theme |-> Builtin, rev |-> NextRevision] ELSE prefs[u]]

\* Delete: rows, personal choices and versions go in one transaction, the memory right
\* after it and the directories last.
DeleteTheme(t) ==
  /\ Ready /\ revision < MaxThemeRevision
  /\ entries[t] # Nil /\ siteCopy.theme # t
  /\ LET hashes == KeptVersions([s \in Themes |-> IF s = t THEN entries[t] ELSE Nil]) IN
       /\ themeRows' = [themeRows EXCEPT ![t] = Nil]
       /\ registered' = registered \ hashes
       /\ prefs' = ResetPreferences(t)
       /\ revision' = NextRevision
       /\ op' = [step |-> "forget", theme |-> t, gone |-> hashes]
  /\ UNCHANGED <<site, memory, files, up, losses>>
Forget ==
  /\ up /\ op.step = "forget"
  /\ entries' = [entries EXCEPT ![op.theme] = Nil] /\ versions' = versions \ op.gone
  /\ op' = [step |-> "remove", gone |-> op.gone]
  /\ UNCHANGED <<database, siteCopy, files, up, revision, losses>>

\* Directories that no row names go; one that cannot be removed stays until a purge.
RemoveDirs ==
  /\ up /\ op.step = "remove"
  /\ \E stuck \in SUBSET op.gone : dirs' = Without(dirs, op.gone \ stuck)
  /\ op' = NoOp
  /\ UNCHANGED <<database, memory, staging, up, revision, losses>>

-----------------------------------------------------------------------------
(* Preferences live in the database only.  A save names the revision the    *)
(* user was given, the row's own.                                           *)

GetPreference(u) ==
  /\ Ready /\ prefs[u] = Nil /\ revision < MaxThemeRevision
  /\ prefs' = [prefs EXCEPT ![u] = [theme |-> Site, rev |-> NextRevision]] /\ revision' = NextRevision
  /\ UNCHANGED <<themeRows, registered, site, memory, files, up, op, losses>>
SavePreference(u, t) ==
  /\ Ready /\ prefs[u] # Nil /\ revision < MaxThemeRevision
  /\ t \in Themes => Selectable(t)
  /\ prefs' = [prefs EXCEPT ![u] = [theme |-> t, rev |-> NextRevision]] /\ revision' = NextRevision
  /\ UNCHANGED <<themeRows, registered, site, memory, files, up, op, losses>>
DeleteUserPreferences(u) ==
  /\ Ready /\ prefs[u] # Nil
  /\ prefs' = [prefs EXCEPT ![u] = Nil]
  /\ UNCHANGED <<themeRows, registered, site, memory, files, up, op, revision, losses>>

-----------------------------------------------------------------------------
(* Crashes, damage and recovery.                                            *)

Crash ==
  /\ up /\ up' = FALSE /\ op' = NoOp
  /\ entries' = [t \in Themes |-> Nil] /\ versions' = {} /\ siteCopy' = [theme |-> Builtin, rev |-> 0]
  /\ UNCHANGED <<database, files, revision, losses>>

Lose(v) ==
  /\ losses < MaxLosses /\ Present(v)
  /\ dirs' \in {[dirs EXCEPT ![v] = "absent"], [dirs EXCEPT ![v] = "damaged"]}
  /\ losses' = losses + 1
  /\ UNCHANGED <<database, memory, staging, up, op, revision>>

Recoverable(v) == v # Nil /\ v \in registered /\ dirs[v] = "intact"
\* Faulty: a theme is given up with its current version.
RowWithoutFallback(t) ==
  LET r == themeRows[t] IN
  IF r = Nil THEN Nil
  ELSE IF Recoverable(r.current) THEN [r EXCEPT !.previous = IF Recoverable(@) THEN @ ELSE Nil]
  ELSE [r EXCEPT !.current = Nil, !.previous = Nil]
\* the row of a theme after recovery: its current version, the previous one in its
\* place, or none
RecoveredRow(t) ==
  LET r == themeRows[t] IN
  IF r = Nil THEN Nil
  ELSE IF Recoverable(r.current) THEN [r EXCEPT !.previous = IF Recoverable(@) THEN @ ELSE Nil]
  ELSE IF Recoverable(r.previous) THEN [r EXCEPT !.current = r.previous, !.previous = Nil, !.rev = NextRevision]
  ELSE [r EXCEPT !.current = Nil, !.previous = Nil]

\* recoverOnOpen: one transaction, then the leftovers.  A start that fails changes nothing.
Recover ==
  LET next == [t \in Themes |-> RecoveredRow(t)]
      held == {t \in Themes : next[t] # Nil}
      kept == (UNION {{next[t].current, next[t].previous} : t \in held}) \ {Nil}
      reset == site.theme # Builtin /\ ~(site.theme \in held /\ next[site.theme].current # Nil)
      new == reset \/ \E t \in held : next[t].rev # themeRows[t].rev
  IN /\ ~up /\ (new => revision < MaxThemeRevision)
     /\ themeRows' = next /\ registered' = registered \intersect kept
     /\ site' = IF reset THEN [theme |-> Builtin, rev |-> NextRevision] ELSE site
     /\ siteCopy' = site' /\ revision' = (IF new THEN NextRevision ELSE revision)
     /\ entries' = [t \in Themes |->
          IF next[t] = Nil THEN Nil ELSE Entry(next[t], next[t].current, next[t].previous)]
     /\ versions' = kept
     /\ \E stuck \in SUBSET {v \in Versions : Present(v)} : dirs' = Without(dirs, Versions \ (kept \union stuck))
     /\ staging' = Nil
     /\ up' = TRUE
     /\ UNCHANGED <<prefs, op, losses>>

ThemeInit ==
  /\ themeRows = [t \in Themes |-> Nil] /\ registered = {} /\ site = [theme |-> Builtin, rev |-> 1]
  /\ prefs = [u \in Members |-> Nil]
  /\ dirs = [v \in Versions |-> "absent"] /\ staging = Nil
  /\ entries = [t \in Themes |-> Nil] /\ versions = {} /\ siteCopy = site
  /\ up = TRUE /\ op = NoOp /\ revision = 1 /\ losses = 0

ThemeNext ==
  \/ \E v \in Versions : BeginInstall(v) \/ Lose(v)
  \/ Stage \/ RenameStaged \/ CommitInstall \/ Publish \/ Forget \/ RemoveDirs
  \/ \E t \in Themes : SetEnabled(t, TRUE) \/ SetEnabled(t, FALSE) \/ DeleteTheme(t)
  \/ \E t \in Themes \union {Builtin} : SetSiteDefault(t)
  \/ \E u \in Members : GetPreference(u) \/ DeleteUserPreferences(u)
                      \/ \E t \in Themes \union {Builtin, Site} : SavePreference(u, t)
  \/ Crash \/ Recover

ThemeSpec == ThemeInit /\ [][ThemeNext]_themeVars

-----------------------------------------------------------------------------
(* Properties.                                                              *)

(* No row without its files: at every step of an install, a delete, a      *)
(* reclaim or a crash between them, the version a theme's row names has    *)
(* its descriptor and its directory, and what the open store serves is     *)
(* what the row names; of a version to fall back to the store knows only   *)
(* what is there, and whatever it lists it also serves.  Damage by others  *)
(* apart.                                                                  *)
NoRowWithoutFiles ==
  losses = 0 =>
    /\ \A t \in Installed(themeRows) : Recoverable(themeRows[t].current)
    /\ Ready => \A v \in Listed : Served(v)
    /\ Ready => \A t \in Themes :
         /\ (entries[t] = Nil) = (themeRows[t] = Nil)
         /\ entries[t] # Nil =>
              /\ entries[t].current = themeRows[t].current /\ entries[t].rev = themeRows[t].rev
              /\ entries[t].enabled = themeRows[t].enabled
              /\ entries[t].previous # Nil => entries[t].previous = themeRows[t].previous
                                              /\ Recoverable(themeRows[t].previous)

(* What the site and the users have chosen can be found: the default is an *)
(* enabled theme that is available whenever the store opens, and no        *)
(* personal choice outlives its theme.                                     *)
SelectionsResolve ==
  /\ site.theme # Builtin => themeRows[site.theme] # Nil /\ themeRows[site.theme].enabled
  /\ up => siteCopy = site /\ (site.theme # Builtin => Selectable(site.theme))
  /\ \A u \in Members : prefs[u] # Nil /\ prefs[u].theme \in Themes => themeRows[prefs[u].theme] # Nil

(* A theme that was published is served until it is deleted: a step that   *)
(* takes its version away or changes it is a publish, a delete, or a       *)
(* recovery that found the version damaged, and the recovery falls back to *)
(* the previous version when that one is whole.                            *)
PublishedStays ==
  [][\A t \in Themes : themeRows[t] # Nil /\ themeRows[t].current # Nil
       /\ (themeRows'[t] = Nil \/ themeRows'[t].current # themeRows[t].current) =>
         IF up THEN (op.step = "commit" /\ Owner[op.version] = t) \/ themeRows'[t] = Nil
         ELSE /\ ~Recoverable(themeRows[t].current) /\ losses # 0
              /\ themeRows'[t] # Nil
              /\ Recoverable(themeRows[t].previous) => themeRows'[t].current = themeRows[t].previous]_themeVars
=================================================================================
