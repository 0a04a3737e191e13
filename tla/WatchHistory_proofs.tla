-------------------------- MODULE WatchHistory_proofs --------------------------
(* Proofs about the virtual ids, the watch rows and the listings by them,  *)
(* for every set of ids, servers, users and handlers.                      *)
EXTENDS LocalListing, TLAPS

\* The strengthening: only published ids have additional copies, and never their primary.
OthersApart ==
  \A v \in VIDs : IF primary[v] = None THEN others[v] = {} ELSE primary[v] \notin others[v]
StoreSound == IDTypeOK /\ OthersApart /\ IndexExact /\ DiskBehindMemory
IDInv == StoreSound /\ SourcesAreCopies
\* Hints that named copies still do.
SourcesKept == SourcesAreCopies => SourcesAreCopies'

LEMMA LeastIn ==
  ASSUME NEW S \in SUBSET VIDs
  PROVE  IF S = {} THEN LeastOrNone(S) = None ELSE LeastOrNone(S) \in S
BY OrderedIds DEF LeastOrNone, Least

LEMMA PromotedSurvives ==
  ASSUME IDTypeOK, NEW v \in VIDs, NEW s \in Servers, Survivors(v, s) # {}
  PROVE  Promoted(v, s) \in Survivors(v, s) /\ Promoted(v, s) \in Pairs
<1>1. Survivors(v, s) \in SUBSET Pairs
  BY DEF IDTypeOK, Survivors, Copies, CopiesBy
<1> QED
  BY <1>1, OrderedIds DEF Promoted

\* Indexes that are recomputed are exact, whatever the entries.
LEMMA RebuiltIsExact ==
  ASSUME primary' \in [VIDs -> Pairs \union {None}], others' \in [VIDs -> SUBSET Pairs],
         RebuildIndexes(primary', others')
  PROVE  /\ IndexExact'
         /\ index' \in [Pairs -> VIDs \union {None}]
         /\ known' \in [Originals -> SUBSET VIDs]
         /\ oldest' \in [Originals -> VIDs \union {None}]
<1>1. \A p \in Pairs : HoldersIn(primary', others', p) \in SUBSET VIDs
  BY DEF HoldersIn
<1>2. \A o \in Originals : NamedIn(primary', others', o) \in SUBSET VIDs
  BY DEF NamedIn
<1>3. \A S \in SUBSET VIDs : LeastOrNone(S) \in VIDs \union {None}
  BY LeastIn
<1>4. \A p \in Pairs : IF index'[p] = None THEN HoldersIn(primary', others', p) = {}
                       ELSE index'[p] \in HoldersIn(primary', others', p)
  BY <1>1, LeastIn, NoneIsNothing DEF RebuildIndexes
<1>5. \A o \in Originals : /\ known'[o] = NamedIn(primary', others', o)
                           /\ IF known'[o] = {} THEN oldest'[o] = None ELSE oldest'[o] \in known'[o]
  BY <1>2, LeastIn DEF RebuildIndexes
<1> QED
  BY <1>1, <1>2, <1>3, <1>4, <1>5 DEF RebuildIndexes, IndexExact

LEMMA InitIDs == IDInit => IDInv
<1> SUFFICES ASSUME IDInit PROVE IDInv
  OBVIOUS
<1>1. IDTypeOK /\ OthersApart
  BY DEF IDInit, IDTypeOK, OthersApart, NoDisk
<1>2. \A v \in VIDs : CopiesBy(primary, others, v) = {}
  BY DEF IDInit, CopiesBy
<1>3. IndexExact
  BY <1>2 DEF IDInit, IndexExact, HoldersIn, NamedIn
<1>4. DiskBehindMemory /\ SourcesAreCopies
  BY DEF IDInit, DiskBehindMemory, SourcesAreCopies, NoDisk
<1> QED
  BY <1>1, <1>3, <1>4 DEF IDInv, StoreSound

\* One more copy of one id: what the helpers say afterwards.
LEMMA OneMoreCopy ==
  ASSUME StoreSound, NEW v \in VIDs, NEW p \in Pairs,
         \A w \in VIDs : CopiesBy(primary', others', w) =
             IF w = v THEN CopiesBy(primary, others, v) \union {p} ELSE CopiesBy(primary, others, w),
         index' = [index EXCEPT ![p] = v], Learn(v, OriginalOf(p))
  PROVE  /\ IndexExact'
         /\ index' \in [Pairs -> VIDs \union {None}]
         /\ known' \in [Originals -> SUBSET VIDs]
         /\ oldest' \in [Originals -> VIDs \union {None}]
<1>0. OriginalOf(p) \in Originals
  BY DEF Pairs, OriginalOf
<1>1. \A q \in Pairs : HoldersIn(primary', others', q) =
         IF q = p THEN HoldersIn(primary, others, q) \union {v} ELSE HoldersIn(primary, others, q)
  BY DEF HoldersIn
<1>2. \A o \in Originals : NamedIn(primary', others', o) =
         IF o = OriginalOf(p) THEN NamedIn(primary, others, o) \union {v} ELSE NamedIn(primary, others, o)
  BY DEF NamedIn
<1>3. /\ index' \in [Pairs -> VIDs \union {None}]
      /\ known' \in [Originals -> SUBSET VIDs]
      /\ oldest' \in [Originals -> VIDs \union {None}]
  BY <1>0 DEF StoreSound, IDTypeOK, Learn
<1>4. \A q \in Pairs : IF index'[q] = None THEN HoldersIn(primary', others', q) = {}
                       ELSE index'[q] \in HoldersIn(primary', others', q)
  <2> SUFFICES ASSUME NEW q \in Pairs
               PROVE  IF index'[q] = None THEN HoldersIn(primary', others', q) = {}
                      ELSE index'[q] \in HoldersIn(primary', others', q)
    OBVIOUS
  <2>1. CASE q = p
    BY <2>1, <1>1, NoneIsNothing DEF StoreSound, IDTypeOK
  <2>2. CASE q # p
    BY <2>2, <1>1 DEF StoreSound, IDTypeOK, IndexExact
  <2> QED
    BY <2>1, <2>2
<1>5. \A o \in Originals : /\ known'[o] = NamedIn(primary', others', o)
                           /\ IF known'[o] = {} THEN oldest'[o] = None ELSE oldest'[o] \in known'[o]
  <2> SUFFICES ASSUME NEW o \in Originals
               PROVE  /\ known'[o] = NamedIn(primary', others', o)
                      /\ IF known'[o] = {} THEN oldest'[o] = None ELSE oldest'[o] \in known'[o]
    OBVIOUS
  <2>1. CASE o = OriginalOf(p)
    BY <2>1, <1>0, <1>2, NoneIsNothing DEF StoreSound, IDTypeOK, IndexExact, Learn
  <2>2. CASE o # OriginalOf(p)
    BY <2>2, <1>0, <1>2 DEF StoreSound, IDTypeOK, IndexExact, Learn
  <2> QED
    BY <2>1, <2>2
<1> QED
  BY <1>3, <1>4, <1>5 DEF IndexExact

LEMMA CreateKeeps ==
  ASSUME StoreSound, NEW v \in VIDs, NEW p \in Pairs, NEW saved \in BOOLEAN,
         GetOrCreateVirtualID(v, p, saved), UNCHANGED live
  PROVE  StoreSound' /\ SourcesKept
<1>1. others[v] = {} /\ p # None
  BY NoneIsNothing DEF StoreSound, OthersApart, GetOrCreateVirtualID
<1>2. /\ primary' \in [VIDs -> Pairs \union {None}] /\ others' \in [VIDs -> SUBSET Pairs]
      /\ primary' = [primary EXCEPT ![v] = p] /\ others' = others
  BY <1>1 DEF StoreSound, IDTypeOK, GetOrCreateVirtualID
<1>3. \A w \in VIDs : CopiesBy(primary', others', w) =
         IF w = v THEN CopiesBy(primary, others, v) \union {p} ELSE CopiesBy(primary, others, w)
  BY <1>1, <1>2 DEF CopiesBy, GetOrCreateVirtualID, StoreSound, IDTypeOK
<1>4. /\ IndexExact'
      /\ index' \in [Pairs -> VIDs \union {None}]
      /\ known' \in [Originals -> SUBSET VIDs]
      /\ oldest' \in [Originals -> VIDs \union {None}]
  BY <1>3, OneMoreCopy DEF GetOrCreateVirtualID
<1>5. IDTypeOK'
  BY <1>2, <1>4 DEF StoreSound, IDTypeOK, GetOrCreateVirtualID
<1>6. OthersApart'
  BY <1>1, <1>2 DEF StoreSound, IDTypeOK, OthersApart
<1>7. DiskBehindMemory'
  BY <1>1, <1>2 DEF StoreSound, IDTypeOK, DiskBehindMemory, GetOrCreateVirtualID
<1>8. SourcesKept
  BY <1>3 DEF SourcesKept, StoreSound, IDTypeOK, SourcesAreCopies, Copies, Published, GetOrCreateVirtualID
<1> QED
  BY <1>4, <1>5, <1>6, <1>7, <1>8 DEF StoreSound

LEMMA AssociateKeeps ==
  ASSUME StoreSound, NEW v \in VIDs, NEW p \in Pairs, NEW saved \in BOOLEAN,
         AssociateAdditionalInstance(v, p, saved), UNCHANGED live
  PROVE  StoreSound' /\ SourcesKept
<1>1. /\ primary' = primary /\ others' = [others EXCEPT ![v] = @ \union {p}]
      /\ others' \in [VIDs -> SUBSET Pairs]
  BY DEF StoreSound, IDTypeOK, AssociateAdditionalInstance
<1>2. \A w \in VIDs : CopiesBy(primary', others', w) =
         IF w = v THEN CopiesBy(primary, others, v) \union {p} ELSE CopiesBy(primary, others, w)
  BY <1>1 DEF CopiesBy, AssociateAdditionalInstance, Published, StoreSound, IDTypeOK
<1>3. /\ IndexExact'
      /\ index' \in [Pairs -> VIDs \union {None}]
      /\ known' \in [Originals -> SUBSET VIDs]
      /\ oldest' \in [Originals -> VIDs \union {None}]
  BY <1>2, OneMoreCopy DEF AssociateAdditionalInstance
<1>4. IDTypeOK'
  BY <1>1, <1>3 DEF StoreSound, IDTypeOK, AssociateAdditionalInstance
<1>5. OthersApart'
  BY <1>1 DEF StoreSound, IDTypeOK, OthersApart, AssociateAdditionalInstance, Published
<1>6. DiskBehindMemory'
  BY <1>1 DEF StoreSound, IDTypeOK, DiskBehindMemory, AssociateAdditionalInstance
<1>7. SourcesKept
  BY <1>2 DEF SourcesKept, StoreSound, IDTypeOK, SourcesAreCopies, Copies, Published, AssociateAdditionalInstance
<1> QED
  BY <1>3, <1>4, <1>5, <1>6, <1>7 DEF StoreSound

\* After the removal of a server an id has the copies that survive it.
LEMMA RemovedCopies ==
  ASSUME StoreSound, NEW s \in Servers, RemoveByServerID(s)
  PROVE  \A v \in VIDs : CopiesBy(primary', others', v) = Survivors(v, s)
<1>1. \A v \in VIDs : /\ Survivors(v, s) \in SUBSET Pairs
                      /\ Survivors(v, s) # {} => Promoted(v, s) \in Survivors(v, s)
                      /\ primary[v] = None => Survivors(v, s) = {}
  BY PromotedSurvives DEF StoreSound, IDTypeOK, Survivors, Copies, CopiesBy
<1>2. \A v \in VIDs : Published(v) /\ Survivors(v, s) # {} => RouteAfter(v, s) \in Survivors(v, s)
  BY <1>1, NoneIsNothing
     DEF RouteAfter, Moves, Vanishes, Survivors, Copies, CopiesBy, Published, StoreSound, IDTypeOK
<1> SUFFICES ASSUME NEW v \in VIDs PROVE CopiesBy(primary', others', v) = Survivors(v, s)
  OBVIOUS
<1>3. CASE ~Published(v)
  BY <1>1, <1>3 DEF RemoveByServerID, CopiesBy, Published
<1>4. CASE Published(v) /\ Survivors(v, s) = {}
  BY <1>4 DEF RemoveByServerID, CopiesBy, RouteAfter, Vanishes, Moves
<1>5. CASE Published(v) /\ Survivors(v, s) # {}
  <2>1. primary'[v] = RouteAfter(v, s) /\ others'[v] = Survivors(v, s) \ {RouteAfter(v, s)}
    BY <1>5 DEF RemoveByServerID, OthersAfter
  <2>2. RouteAfter(v, s) # None
    BY <1>1, <1>2, <1>5, NoneIsNothing
  <2> QED
    BY <1>2, <1>5, <2>1, <2>2 DEF CopiesBy
<1> QED
  BY <1>3, <1>4, <1>5

LEMMA RemoveKeeps ==
  ASSUME StoreSound, NEW s \in Servers, RemoveByServerID(s), UNCHANGED live
  PROVE  StoreSound' /\ SourcesKept
<1>0. \A v \in VIDs : /\ Survivors(v, s) \in SUBSET Pairs
                      /\ Survivors(v, s) # {} => Promoted(v, s) \in Survivors(v, s)
                      /\ primary[v] = None => Survivors(v, s) = {}
  BY PromotedSurvives DEF StoreSound, IDTypeOK, Survivors, Copies, CopiesBy
<1>1. \A v \in VIDs : Published(v) => RouteAfter(v, s) \in Pairs \union {None}
  BY <1>0 DEF RouteAfter, Moves, Published, StoreSound, IDTypeOK
<1>2. primary' \in [VIDs -> Pairs \union {None}] /\ others' \in [VIDs -> SUBSET Pairs]
  BY <1>0, <1>1 DEF RemoveByServerID, OthersAfter
<1>3. \A v \in VIDs : Published(v) /\ Survivors(v, s) # {} => RouteAfter(v, s) \in Survivors(v, s)
  BY <1>0, NoneIsNothing
     DEF RouteAfter, Moves, Vanishes, Survivors, Copies, CopiesBy, Published, StoreSound, IDTypeOK
<1>4. \A v \in VIDs : CopiesBy(primary', others', v) = Survivors(v, s)
  BY RemovedCopies
<1>5. /\ IndexExact'
      /\ index' \in [Pairs -> VIDs \union {None}]
      /\ known' \in [Originals -> SUBSET VIDs]
      /\ oldest' \in [Originals -> VIDs \union {None}]
  BY <1>2, RebuiltIsExact DEF RemoveByServerID
<1>6. disk' \in [primary : [VIDs -> Pairs \union {None}], others : [VIDs -> SUBSET Pairs]]
  BY <1>0 DEF RemoveByServerID, DiskAfter, Moves, StoreSound, IDTypeOK
<1>7. IDTypeOK'
  BY <1>2, <1>5, <1>6 DEF StoreSound, IDTypeOK, RemoveByServerID, RemoveHints
<1>8. OthersApart'
  BY <1>0, <1>3, NoneIsNothing
     DEF OthersApart, RemoveByServerID, OthersAfter, RouteAfter, Vanishes, Moves, Published
<1>9. DiskBehindMemory'
  <2> SUFFICES ASSUME NEW v \in VIDs
               PROVE  /\ disk'.primary[v] # None => primary'[v] = disk'.primary[v]
                      /\ primary'[v] # None => disk'.others[v] \subseteq others'[v]
    BY DEF DiskBehindMemory
  <2>1. disk.primary[v] # None => primary[v] = disk.primary[v]
    BY DEF StoreSound, DiskBehindMemory
  <2>2. ASSUME disk'.primary[v] # None PROVE primary'[v] = disk'.primary[v]
    BY <2>1, <2>2 DEF RemoveByServerID, DiskAfter, RouteAfter, Vanishes, Moves, Published
  <2>3. ASSUME primary'[v] # None PROVE disk'.others[v] \subseteq others'[v]
    <3>1. Published(v) /\ ~Vanishes(v, s)
      BY <2>3 DEF RemoveByServerID, RouteAfter, Vanishes, Moves
    <3>2. disk.others[v] \subseteq others[v] /\ primary[v] \notin others[v]
      BY <3>1 DEF StoreSound, DiskBehindMemory, OthersApart, Published
    <3>3. disk'.others[v] = {p \in disk.others[v] : ServerOf(p) # s /\ ~(Moves(v, s) /\ p = Promoted(v, s))}
      BY <3>1 DEF RemoveByServerID, DiskAfter
    <3>4. others'[v] = {p \in Copies(v) : ServerOf(p) # s} \ {RouteAfter(v, s)}
      BY <3>1 DEF RemoveByServerID, OthersAfter, Survivors
    <3> QED
      BY <3>1, <3>2, <3>3, <3>4 DEF RouteAfter, Copies, CopiesBy, Published
  <2> QED
    BY <2>2, <2>3
<1>10. SourcesKept
  <2> SUFFICES ASSUME SourcesAreCopies, NEW v \in VIDs, Published(v)', source'[v] # None,
                      ServerOf(source'[v]) \in live
               PROVE  source'[v] \in Copies(v)'
    BY DEF SourcesAreCopies, SourcesKept
  <2>0. Published(v)
    BY DEF RemoveByServerID, Published
  <2>1. source'[v] = source[v] /\ ServerOf(source[v]) # s
    BY DEF RemoveByServerID, RemoveHints
  <2>2. source'[v] \in Survivors(v, s)
    BY <2>0, <2>1 DEF SourcesAreCopies, Survivors
  <2> QED
    BY <2>2, <1>4 DEF Copies
<1> QED
  BY <1>5, <1>7, <1>8, <1>9, <1>10 DEF StoreSound

LEMMA LoadKeeps ==
  ASSUME StoreSound, Load, UNCHANGED live
  PROVE  StoreSound' /\ SourcesKept
<1>1. \A v \in VIDs : disk.primary[v] # None =>
         disk.primary[v] \notin disk.others[v]
  BY DEF StoreSound, DiskBehindMemory, OthersApart
<1>2. primary' \in [VIDs -> Pairs \union {None}] /\ others' \in [VIDs -> SUBSET Pairs]
  BY DEF StoreSound, IDTypeOK, Load
<1>3. /\ IndexExact'
      /\ index' \in [Pairs -> VIDs \union {None}]
      /\ known' \in [Originals -> SUBSET VIDs]
      /\ oldest' \in [Originals -> VIDs \union {None}]
  BY <1>2, RebuiltIsExact DEF Load
<1>4. IDTypeOK'
  BY <1>2, <1>3 DEF StoreSound, IDTypeOK, Load
<1>5. OthersApart' /\ DiskBehindMemory' /\ SourcesKept
  BY <1>1 DEF SourcesKept, OthersApart, DiskBehindMemory, SourcesAreCopies, Load
<1> QED
  BY <1>3, <1>4, <1>5 DEF StoreSound

LEMMA UnchangedKeeps ==
  StoreSound /\ UNCHANGED idVars /\ live' \subseteq live => StoreSound' /\ SourcesKept
BY DEF SourcesKept, StoreSound, IDTypeOK, OthersApart, IndexExact, DiskBehindMemory, SourcesAreCopies, idVars,
       HoldersIn, NamedIn, Copies, CopiesBy, Published

LEMMA HintKeeps ==
  ASSUME StoreSound, NEW v \in VIDs, Hint(v)
  PROVE  StoreSound' /\ SourcesKept
<1>1. /\ UNCHANGED <<primary, others, index, known, oldest, disk>>
      /\ stream' \in [VIDs -> Servers \union {None}]
      /\ \/ source' = source
         \/ \E p \in Pairs : Offers(v, p) /\ source' = [source EXCEPT ![v] = p]
      /\ UNCHANGED live
  BY DEF Hint, watchVars, SetActiveStream, EvictExpiredStreamState, SetSource, StoreSound, IDTypeOK
<1>2. Copies(v) \subseteq Pairs
  BY DEF StoreSound, IDTypeOK, Copies, CopiesBy
<1>3. IDTypeOK'
  BY <1>1, <1>2 DEF StoreSound, IDTypeOK
<1>4. OthersApart' /\ IndexExact' /\ DiskBehindMemory'
  BY <1>1 DEF StoreSound, OthersApart, IndexExact, DiskBehindMemory, HoldersIn, NamedIn, CopiesBy
<1>5. SourcesKept
  BY <1>1 DEF SourcesKept, StoreSound, IDTypeOK, SourcesAreCopies, Copies, CopiesBy, Published, Offers
<1> QED
  BY <1>3, <1>4, <1>5 DEF StoreSound

\* Steps of the handlers and of the users leave the ids alone.
LEMMA ReportLeavesIds == \A h \in Handlers : Report(h) => UNCHANGED <<idVars, live>>
BY DEF Report, Arrive, Forwarded, Verdict, Read, Accept, Enrich, Write, Register

LEMMA StepKeepsStore == StoreSound /\ [Next]_vars => StoreSound' /\ SourcesKept
<1> SUFFICES ASSUME StoreSound, [Next]_vars PROVE StoreSound' /\ SourcesKept
  OBVIOUS
<1>1. CASE \E h \in Handlers : Report(h)
  BY <1>1, ReportLeavesIds, UnchangedKeeps
<1>2. CASE \E u \in Users, v \in VIDs : Flag(u, v)
  <2>1. UNCHANGED <<idVars, live>>
    BY <1>2 DEF Flag, MarkPlayed, SetFavorite
  <2> QED
    BY <2>1, UnchangedKeeps
<1>3. CASE \E u \in Users : DeleteUser(u)
  BY <1>3, UnchangedKeeps DEF DeleteUser
<1>4. CASE \E v \in VIDs, p \in Pairs : Publish(v, p)
  BY <1>4, CreateKeeps DEF Publish
<1>5. CASE \E v \in VIDs, p \in Pairs : Associate(v, p)
  BY <1>5, AssociateKeeps DEF Associate
<1>6. CASE \E v \in VIDs : Hint(v)
  BY <1>6, HintKeeps
<1>7. CASE \E s \in Servers : CommitRemoval(s)
  BY <1>7, UnchangedKeeps DEF CommitRemoval
<1>8. CASE \E s \in Servers : RemoveServer(s)
  BY <1>8, RemoveKeeps DEF RemoveServer
<1>9. CASE ExpireSession
  BY <1>9, UnchangedKeeps DEF ExpireSession
<1>10. CASE Restart
  BY <1>10, LoadKeeps DEF Restart
<1>11. CASE UNCHANGED vars
  BY <1>11, UnchangedKeeps DEF vars, watchVars
<1> QED
  BY <1>1, <1>2, <1>3, <1>4, <1>5, <1>6, <1>7, <1>8, <1>9, <1>10, <1>11 DEF Next, Work

LEMMA StepKeepsIds == IDInv /\ [Next]_vars => IDInv'
BY StepKeepsStore DEF IDInv, SourcesKept

(* The indexes of the id store (originalToVirtual and originalIDToVirtual) *)
(* say exactly what its entries say, after any sequence of publications,   *)
(* merges, removals of servers, failed writes and restarts.                *)
THEOREM IndexesAreExact == WatchSpec => []IndexExact
<1>1. Init => IDInv
  BY InitIDs DEF Init
<1>2. IDInv => IndexExact
  BY DEF IDInv, StoreSound
<1> QED
  BY <1>1, <1>2, StepKeepsIds, PTL DEF WatchSpec

(* What the database says of a virtual id is what the running process says *)
(* of it, also while writes fail and while a removal promotes copies.      *)
THEOREM DiskNeverAhead == WatchSpec => []DiskBehindMemory
<1>1. Init => IDInv
  BY InitIDs DEF Init
<1>2. IDInv => DiskBehindMemory
  BY DEF IDInv, StoreSound
<1> QED
  BY <1>1, <1>2, StepKeepsIds, PTL DEF WatchSpec

(* Artwork hints of a published item name a copy that it still has, or one *)
(* of a server that was removed while a merge was under way.               *)
THEOREM SourcesStayCopies == WatchSpec => []SourcesAreCopies
<1>1. Init => IDInv
  BY InitIDs DEF Init
<1>2. IDInv => SourcesAreCopies
  BY DEF IDInv, StoreSound
<1> QED
  BY <1>1, <1>2, StepKeepsIds, PTL DEF WatchSpec

(* The three together, the invariant that the runs check: the indexes, the *)
(* database and the artwork hints agree with the entries.                  *)
THEOREM StoreStaysConsistent == WatchSpec => []StoreConsistent
<1>1. IndexExact /\ DiskBehindMemory /\ SourcesAreCopies => StoreConsistent
  BY DEF StoreConsistent
<1> QED
  BY <1>1, IndexesAreExact, DiskNeverAhead, SourcesStayCopies, PTL

-----------------------------------------------------------------------------
(* The rows.                                                                *)

\* The strengthening: rows and events are typed, and an event being served is a whole one.
Event == [step : Steps, kind : Kinds, user : Users, item : VIDs, server : Servers,
          session : Sessions \union {None}, body : Bodies, seen : Rows, typed : BOOLEAN]
RowInv ==
  /\ rows \in [Users -> [VIDs -> Rows]]
  /\ handler \in [Handlers -> Event \union {Idle}]

LEMMA NoRowTyped == NoRow \in Rows
BY WatchBounds DEF NoRow, Rows, Positions

LEMMA IdleIsIdle == Idle.step = "idle"
BY DEF Idle

LEMMA ReportedTyped ==
  ASSUME NEW e \in Event, NEW row \in Rows
  PROVE  /\ Upsert(row, Reported(e)) \in Rows
         /\ row.fav => Upsert(row, Reported(e)).fav
         /\ row.played => Upsert(row, Reported(e)).played
         /\ row.typed => Upsert(row, Reported(e)).typed
         /\ row.run > 0 => Upsert(row, Reported(e)).run > 0
<1>1. e.body \in [pos : 0 .. Full \union {None}, run : {0, Full, None}] /\ e.seen \in Rows
  BY WatchBounds DEF Event
<1>2. Reported(e).run \in {0, Full} /\ Reported(e).pos \in Positions
  BY <1>1, WatchBounds DEF Reported, Rows, Positions, NearEnd
<1>3. Reported(e).server \in Servers /\ Reported(e).played \in BOOLEAN /\ Reported(e).typed \in BOOLEAN
  BY <1>1, SMT DEF Reported, Event, Rows, NearEnd, Kinds
<1> QED
  BY <1>2, <1>3, WatchBounds DEF Upsert, Rows

\* A handler that moves on keeps a whole event.
LEMMA GoesTyped ==
  ASSUME RowInv, NEW h \in Handlers, handler[h].step # "idle", NEW s \in Steps,
         Goes(h, s) \/ Done(h)
  PROVE  handler' \in [Handlers -> Event \union {Idle}]
<1>1. handler[h] \in Event
  BY IdleIsIdle DEF RowInv
<1>2. [handler[h] EXCEPT !.step = s] \in Event
  BY <1>1 DEF Event
<1> QED
  BY <1>2 DEF RowInv, Goes, Done, Step

LEMMA ArriveTyped ==
  ASSUME RowInv, IDInv, NEW h \in Handlers, NEW k \in Kinds, NEW u \in Users, NEW v \in VIDs,
         NEW x \in Sessions \union {None}, NEW body \in Bodies, NEW s \in Servers,
         Arrive(h, k, u, v, x, body, s)
  PROVE  RowInv'
<1>1. \A st \in {"forward", "verdict"} :
        [Idle EXCEPT !.step = st, !.kind = k, !.user = u, !.item = v, !.server = s,
                     !.session = x, !.body = body] \in Event
  BY NoRowTyped DEF Idle, Event, Steps
<1> QED
  BY <1>1 DEF RowInv, Arrive, Step

LEMMA ReportTyped ==
  ASSUME RowInv, IDInv, NEW h \in Handlers, Report(h)
  PROVE  RowInv'
<1>0. Steps = {"idle", "forward", "verdict", "read", "accept", "enrich", "write", "register"}
  BY DEF Steps
<1>1. ASSUME handler[h].step # "idle" PROVE handler[h] \in Event
  BY <1>1, IdleIsIdle DEF RowInv
<1>2. CASE \E k \in Kinds, u \in Users, v \in VIDs, x \in Sessions \union {None}, body \in Bodies,
            s \in Servers : Arrive(h, k, u, v, x, body, s)
  BY <1>2, ArriveTyped
<1>3. CASE Forwarded(h)
  BY <1>3, <1>0, GoesTyped DEF Forwarded, At, RowInv
<1>4. CASE Verdict(h)
  BY <1>4, <1>0, GoesTyped DEF Verdict, At, RowInv
<1>5. CASE Read(h)
  <2>1. handler[h] \in Event /\ rows' = rows
    BY <1>5, <1>1 DEF Read, At
  <2>2. rows[handler[h].user][handler[h].item] \in Rows
    BY <2>1 DEF RowInv, Event
  <2>3. PICK seen \in Rows : handler' = [handler EXCEPT ![h] = [handler[h] EXCEPT !.step = "accept", !.seen = seen]]
    BY <1>5, <2>2, NoRowTyped DEF Read, Step
  <2>4. [handler[h] EXCEPT !.step = "accept", !.seen = seen] \in Event
    BY <2>1, <1>0 DEF Event
  <2> QED
    BY <2>1, <2>3, <2>4 DEF RowInv
<1>6. CASE Accept(h)
  BY <1>6, <1>0, GoesTyped DEF Accept, AfterRecord, At, RowInv
<1>7. CASE Enrich(h)
  <2>1. handler[h] \in Event /\ rows' = rows
    BY <1>7, <1>1 DEF Enrich, At
  <2>2. \A b \in BOOLEAN : [handler[h] EXCEPT !.step = "write", !.typed = b] \in Event
    BY <2>1, <1>0 DEF Event
  <2> QED
    BY <1>7, <2>1, <2>2 DEF Enrich, Step, RowInv
<1>8. CASE Write(h)
  <2>1. handler[h] \in Event
    BY <1>8, <1>1 DEF Write, At
  <2>2. rows' \in [Users -> [VIDs -> Rows]]
    BY <1>8, <2>1, ReportedTyped DEF Write, RowInv, Event
  <2>3. handler' \in [Handlers -> Event \union {Idle}]
    BY <1>8, <1>0, GoesTyped DEF Write, AfterRecord, At
  <2> QED
    BY <2>2, <2>3 DEF RowInv
<1>9. CASE Register(h)
  BY <1>9, <1>0, GoesTyped DEF Register, At, RowInv
<1> QED
  BY <1>2, <1>3, <1>4, <1>5, <1>6, <1>7, <1>8, <1>9 DEF Report

LEMMA RehomedTyped ==
  ASSUME IDInv, NEW row \in Rows, NEW v \in VIDs, NEW s \in Servers
  PROVE  Rehomed(row, v, s) \in Rows /\ (Rehomed(row, v, s).exists =>
           Rehomed(row, v, s) = [row EXCEPT !.server = Rehomed(row, v, s).server])
<1>1. CASE Vanishes(v, s) \/ (row.server = s /\ ~Touched(v, s))
  BY <1>1, NoRowTyped DEF Rehomed, NoRow
<1>2. CASE ~(Vanishes(v, s) \/ (row.server = s /\ ~Touched(v, s))) /\ row.server = s
  <2>1. RouteAfter(v, s) \in Pairs
    BY <1>2, PromotedSurvives
       DEF IDInv, StoreSound, IDTypeOK, RouteAfter, Moves, Vanishes, Touched, Published
  <2>2. ServerOf(RouteAfter(v, s)) \in Servers
    BY <2>1 DEF Pairs, ServerOf
  <2> QED
    BY <1>2, <2>2 DEF Rehomed, Rows
<1>3. CASE ~(Vanishes(v, s) \/ (row.server = s /\ ~Touched(v, s))) /\ row.server # s
  BY <1>3 DEF Rehomed, Rows
<1> QED
  BY <1>1, <1>2, <1>3

LEMMA StepKeepsRows == IDInv /\ RowInv /\ [Next]_vars => RowInv'
<1> SUFFICES ASSUME IDInv, RowInv, [Next]_vars PROVE RowInv'
  OBVIOUS
<1>1. CASE \E h \in Handlers : Report(h)
  BY <1>1, ReportTyped
<1>2. CASE \E u \in Users, v \in VIDs : Flag(u, v)
  <2>1. \A row \in Rows, b \in BOOLEAN : /\ [row EXCEPT !.exists = TRUE, !.played = b] \in Rows
                                        /\ [row EXCEPT !.exists = TRUE, !.fav = b] \in Rows
    BY DEF Rows
  <2>2. PICK u \in Users, v \in VIDs, b \in BOOLEAN : MarkPlayed(u, v, b) \/ SetFavorite(u, v, b)
    BY <1>2 DEF Flag
  <2>3. CASE MarkPlayed(u, v, b)
    BY <2>1, <2>3 DEF MarkPlayed, RowInv
  <2>4. CASE SetFavorite(u, v, b)
    BY <2>1, <2>4 DEF SetFavorite, RowInv
  <2> QED
    BY <2>2, <2>3, <2>4
<1>3. CASE \E u \in Users : DeleteUser(u)
  BY <1>3, NoRowTyped DEF DeleteUser, RowInv
<1>4. CASE \E s \in Servers : RemoveServer(s)
  BY <1>4, RehomedTyped DEF RemoveServer, RowInv
<1>5. CASE Restart
  <2>1. \A row \in Rows : Migrated(row) \in Rows
    BY DEF Migrated, Rows
  <2> QED
    BY <1>5, <2>1 DEF Restart, RowInv
<1>6. CASE UNCHANGED <<rows, handler>>
  BY <1>6 DEF RowInv
<1> QED
  BY <1>1, <1>2, <1>3, <1>4, <1>5, <1>6
     DEF Next, Work, Publish, Associate, Hint, CommitRemoval, ExpireSession, vars, watchVars

\* What a step may do to a row without the user.
Kept(u, v) ==
  rows[u][v].exists /\ rows'[u][v].exists =>
     /\ rows[u][v].fav /\ ~rows'[u][v].fav => \E w \in VIDs : SetFavorite(u, w, FALSE)
     /\ rows[u][v].played /\ ~rows'[u][v].played => MarkPlayed(u, v, FALSE)
     /\ rows[u][v].typed => rows'[u][v].typed
     /\ rows[u][v].run > 0 => rows'[u][v].run > 0

LEMMA StepsKeep ==
  IDInv /\ RowInv /\ [Next]_vars =>
    \A u \in Users, v \in VIDs : Kept(u, v)
<1> USE DEF Kept
<1>1. ASSUME IDInv, RowInv, [Next]_vars, NEW u \in Users, NEW v \in VIDs PROVE Kept(u, v)
  <2>0. rows[u][v] \in Rows
    BY <1>1 DEF RowInv
  <2>1. CASE rows'[u][v] = rows[u][v]
    BY <2>1, <2>0 DEF Rows
  <2>2. CASE \E h \in Handlers : Report(h)
    <3>1. PICK h \in Handlers : Report(h)
      BY <2>2
    <3>2. CASE rows' = rows
      BY <3>2, <2>1
    <3>3. CASE Write(h)
      <4>1. handler[h] \in Event
        BY <3>3, <1>1, IdleIsIdle DEF Write, At, RowInv
      <4>2. rows'[u][v] = rows[u][v] \/ rows'[u][v] = Upsert(rows[u][v], Reported(handler[h]))
        BY <3>3, <4>1, <1>1 DEF Write, RowInv, Event
      <4> QED
        BY <4>1, <4>2, <2>0, <2>1, ReportedTyped
    <3> QED
      BY <3>1, <3>2, <3>3 DEF Report, Arrive, Forwarded, Verdict, Read, Accept, Enrich, Register
  <2>3. CASE \E w \in Users, y \in VIDs : Flag(w, y)
    <3>1. PICK w \in Users, y \in VIDs, b \in BOOLEAN : MarkPlayed(w, y, b) \/ SetFavorite(w, y, b)
      BY <2>3 DEF Flag
    <3>2. CASE MarkPlayed(w, y, b)
      <4>1. rows'[u][v] = rows[u][v] \/ (w = u /\ y = v /\ rows'[u][v] = [rows[u][v] EXCEPT !.exists = TRUE, !.played = b])
        BY <3>2, <1>1 DEF MarkPlayed, RowInv
      <4> QED
        BY <3>2, <4>1, <2>0, <2>1 DEF Rows
    <3>3. CASE SetFavorite(w, y, b)
      <4>1. rows'[u][v] = rows[u][v] \/ (w = u /\ rows'[u][v] = [rows[u][v] EXCEPT !.exists = TRUE, !.fav = b])
        BY <3>3, <1>1 DEF SetFavorite, RowInv
      <4> QED
        BY <3>3, <4>1, <2>0, <2>1 DEF Rows
    <3> QED
      BY <3>1, <3>2, <3>3
  <2>4. CASE \E w \in Users : DeleteUser(w)
    <3>1. rows'[u][v] = rows[u][v] \/ rows'[u][v] = NoRow
      BY <2>4, <1>1 DEF DeleteUser, RowInv
    <3>2. NoRow.exists = FALSE
      BY DEF NoRow
    <3> QED
      BY <3>1, <3>2, <2>1
  <2>5. CASE \E s \in Servers : RemoveServer(s)
    <3>1. PICK s \in Servers : rows'[u][v] = Rehomed(rows[u][v], v, s)
      BY <2>5, <1>1 DEF RemoveServer, RowInv
    <3>0. Rehomed(rows[u][v], v, s).exists => Rehomed(rows[u][v], v, s) =
             [rows[u][v] EXCEPT !.server = Rehomed(rows[u][v], v, s).server]
      BY <2>0, <1>1, RehomedTyped
    <3>2. ASSUME rows'[u][v].exists
          PROVE  \E x : rows'[u][v] = [rows[u][v] EXCEPT !.server = x]
      BY <3>0, <3>1, <3>2
    <3>3. \A x : LET new == [rows[u][v] EXCEPT !.server = x] IN
             new.fav = rows[u][v].fav /\ new.played = rows[u][v].played
             /\ new.typed = rows[u][v].typed /\ new.run = rows[u][v].run
      BY <2>0 DEF Rows
    <3> QED
      BY <3>2, <3>3
  <2>6. CASE Restart
    <3>1. rows'[u][v] = Migrated(rows[u][v])
      BY <2>6, <1>1 DEF Restart, RowInv
    <3> QED
      BY <3>1, <2>0 DEF Migrated, Rows
  <2> QED
    BY <1>1, <2>1, <2>2, <2>3, <2>4, <2>5, <2>6
       DEF Next, Work, Publish, Associate, Hint, CommitRemoval, ExpireSession, vars, watchVars
<1> QED
  BY <1>1

(* Whatever a session event read before other requests wrote, its record   *)
(* takes no favourite, no played mark, no metadata and no runtime away;    *)
(* nor does a removed server or a restart.                                 *)
THEOREM ReportsTakeNothing == WatchSpec => ReportsForgetNothing
<1>2. IDInv /\ RowInv /\ [Next]_vars
      => [\A u \in Users, v \in VIDs : Kept(u, v)]_vars
  BY StepsKeep
<1>3. Init => IDInv /\ RowInv
  BY InitIDs, NoRowTyped DEF Init, RowInv
<1>4. ReportsForgetNothing <=> [][\A u \in Users, v \in VIDs : Kept(u, v)]_vars
  BY DEF ReportsForgetNothing, Kept
<1> QED
  BY <1>2, <1>3, <1>4, StepKeepsIds, StepKeepsRows, PTL DEF WatchSpec

\* Which rows a step may delete.
Lasts(u, v) ==
  rows[u][v].exists /\ ~rows'[u][v].exists /\ Published(v)' =>
    DeleteUser(u) \/ rows[u][v].server \notin Routes(v) \union {None}

LEMMA StepsLast ==
  IDInv /\ RowInv /\ [Next]_vars =>
    \A u \in Users, v \in VIDs : Lasts(u, v)
<1> USE DEF Lasts
<1>1. ASSUME IDInv, RowInv, [Next]_vars, NEW u \in Users, NEW v \in VIDs PROVE Lasts(u, v)
  <2> SUFFICES ASSUME rows[u][v].exists, ~rows'[u][v].exists, Published(v)'
               PROVE  DeleteUser(u) \/ rows[u][v].server \notin Routes(v) \union {None}
    OBVIOUS
  <2>0. rows[u][v] \in Rows /\ rows'[u][v] # rows[u][v]
    BY <1>1 DEF RowInv
  <2>1. CASE \E h \in Handlers : Report(h)
    <3>1. PICK h \in Handlers : Write(h)
      BY <2>0, <2>1 DEF Report, Arrive, Forwarded, Verdict, Read, Accept, Enrich, Register
    <3>2. handler[h] \in Event
      BY <3>1, <1>1, IdleIsIdle DEF Write, At, RowInv
    <3>3. rows'[u][v] = Upsert(rows[u][v], Reported(handler[h]))
      BY <2>0, <3>1, <3>2, <1>1 DEF Write, RowInv, Event
    <3> QED
      BY <3>3 DEF Upsert
  <2>2. CASE \E w \in Users, y \in VIDs : Flag(w, y)
    <3>1. PICK w \in Users, y \in VIDs, b \in BOOLEAN : MarkPlayed(w, y, b) \/ SetFavorite(w, y, b)
      BY <2>2 DEF Flag
    <3>2. CASE MarkPlayed(w, y, b)
      <4>1. rows'[u][v] = [rows[u][v] EXCEPT !.exists = TRUE, !.played = b]
        BY <1>1, <2>0, <3>2 DEF MarkPlayed, RowInv
      <4> QED
        BY <2>0, <4>1 DEF Rows
    <3>3. CASE SetFavorite(w, y, b)
      <4>1. rows'[u][v] = [rows[u][v] EXCEPT !.exists = TRUE, !.fav = b]
        BY <1>1, <2>0, <3>3 DEF SetFavorite, RowInv
      <4> QED
        BY <2>0, <4>1 DEF Rows
    <3> QED
      BY <3>1, <3>2, <3>3
  <2>3. CASE \E w \in Users : DeleteUser(w)
    BY <1>1, <2>0, <2>3 DEF DeleteUser, RowInv
  <2>4. CASE \E s \in Servers : RemoveServer(s)
    <3>1. PICK s \in Servers : RemoveServer(s)
      BY <2>4
    <3>2. rows'[u][v] = Rehomed(rows[u][v], v, s) /\ RemoveByServerID(s)
      BY <1>1, <3>1 DEF RemoveServer, RowInv
    <3>3. Published(v) /\ ~Vanishes(v, s)
      BY <3>2 DEF RemoveByServerID, Published, RouteAfter, Vanishes, Moves
    <3>4. rows[u][v].server = s /\ ~Touched(v, s)
      <4>1. \A x : [rows[u][v] EXCEPT !.server = x].exists = rows[u][v].exists
        BY <2>0 DEF Rows
      <4> QED
        BY <3>2, <3>3, <4>1 DEF Rehomed
    <3>5. s # None /\ s \notin Routes(v)
      BY <3>3, <3>4, NoneIsNothing DEF Touched, Survivors, Routes
    <3> QED
      BY <3>4, <3>5
  <2>5. CASE Restart
    <3>1. rows'[u][v] = Migrated(rows[u][v])
      BY <2>5, <1>1 DEF Restart, RowInv
    <3> QED
      BY <2>0, <3>1 DEF Migrated, Rows
  <2> QED
    BY <1>1, <2>0, <2>1, <2>2, <2>3, <2>4, <2>5
       DEF Next, Work, Publish, Associate, Hint, CommitRemoval, ExpireSession, vars, watchVars
<1> QED
  BY <1>1

(* The history of an item lives as long as some copy of it: a removal of a *)
(* server deletes rows of ids that vanish, and stale rows that name it     *)
(* although their item had no copy there (removeServerRows).               *)
THEOREM RemovalsKeepHistory == WatchSpec => HistorySurvivesRemoval
<1>2. IDInv /\ RowInv /\ [Next]_vars => [\A u \in Users, v \in VIDs : Lasts(u, v)]_vars
  BY StepsLast
<1>3. Init => IDInv /\ RowInv
  BY InitIDs, NoRowTyped DEF Init, RowInv
<1>4. HistorySurvivesRemoval <=> [][\A u \in Users, v \in VIDs : Lasts(u, v)]_vars
  BY DEF HistorySurvivesRemoval, Lasts
<1> QED
  BY <1>2, <1>3, <1>4, StepKeepsIds, StepKeepsRows, PTL DEF WatchSpec

-----------------------------------------------------------------------------
(* Where the rows point.                                                    *)

\* The strengthening: as long as the database took every write, it knows what memory knows,
\* so a restart changes no copies; and rows and events under way, of whatever id, name a
\* server that has a copy, or one that is gone for good.
Synced == disk.primary = primary /\ disk.others = others
Routed(v, s) == s \in live => s \in Routes(v)
RoutedInv ==
  /\ live \subseteq Servers
  /\ ~unsaved => /\ Synced
                 /\ \A u \in Users, v \in VIDs : Routed(v, rows[u][v].server)
                 /\ \A h \in Handlers : handler[h] \in Event => Routed(handler[h].item, handler[h].server)

LEMMA RoutesStay ==
  ASSUME NEW v \in VIDs, Copies(v) \subseteq Copies(v)', live' \subseteq live, NEW s, Routed(v, s)
  PROVE  Routed(v, s)'
BY DEF Routed, Routes

\* The ids and the rows stay, or gain copies.
LEMMA CopiesGrow ==
  ASSUME IDInv, RoutedInv, UNCHANGED <<rows, handler>>, live' \subseteq live, ~unsaved' => ~unsaved /\ Synced',
         \A v \in VIDs : Copies(v) \subseteq Copies(v)'
  PROVE  RoutedInv'
<1> SUFFICES ASSUME ~unsaved' PROVE RoutedInv'
  BY DEF RoutedInv
<1>1. ASSUME NEW u \in Users, NEW v \in VIDs PROVE Routed(v, rows[u][v].server)'
  BY RoutesStay DEF RoutedInv
<1>2. ASSUME NEW h \in Handlers, handler[h] \in Event PROVE Routed(handler[h].item, handler[h].server)'
  BY <1>2, RoutesStay DEF RoutedInv, Event
<1> QED
  BY <1>1, <1>2 DEF RoutedInv

LEMMA IdleIsNoEvent == Idle \notin Event
BY NoneIsNothing DEF Idle, Event

\* A handler keeps to the item and the server its event was attributed to.
LEMMA EventKept ==
  ASSUME RowInv, NEW h \in Handlers,
         Forwarded(h) \/ Verdict(h) \/ Read(h) \/ Accept(h) \/ Enrich(h) \/ Write(h) \/ Register(h)
  PROVE  /\ handler[h] \in Event
         /\ \/ handler'[h] = Idle
            \/ handler'[h].item = handler[h].item /\ handler'[h].server = handler[h].server
         /\ \A g \in Handlers : g # h => handler'[g] = handler[g]
<1>1. handler[h] \in Event /\ handler \in [Handlers -> Event \union {Idle}]
  BY IdleIsIdle DEF RowInv, Forwarded, Verdict, Read, Accept, Enrich, Write, Register, At
<1>2. \A e : Step(h, e) => handler'[h] = e /\ \A g \in Handlers : g # h => handler'[g] = handler[g]
  BY <1>1 DEF Step
<1>3. \A s : LET e == [handler[h] EXCEPT !.step = s] IN e.item = handler[h].item /\ e.server = handler[h].server
  BY <1>1 DEF Event
<1>4. CASE Done(h) \/ \E s : Goes(h, s)
  BY <1>1, <1>2, <1>3, <1>4 DEF Done, Goes
<1>5. CASE Read(h)
  <2>1. PICK seen : Step(h, [handler[h] EXCEPT !.step = "accept", !.seen = seen])
    BY <1>5 DEF Read
  <2>2. LET e == [handler[h] EXCEPT !.step = "accept", !.seen = seen] IN
        e.item = handler[h].item /\ e.server = handler[h].server
    BY <1>1 DEF Event
  <2> QED
    BY <1>1, <1>2, <2>1, <2>2
<1>6. CASE Enrich(h)
  <2>1. PICK b \in BOOLEAN : Step(h, [handler[h] EXCEPT !.step = "write", !.typed = b])
    BY <1>6 DEF Enrich
  <2>2. LET e == [handler[h] EXCEPT !.step = "write", !.typed = b] IN
        e.item = handler[h].item /\ e.server = handler[h].server
    BY <1>1 DEF Event
  <2> QED
    BY <1>1, <1>2, <2>1, <2>2
<1> QED
  BY <1>4, <1>5, <1>6 DEF Forwarded, Verdict, Accept, AfterRecord, Write, Register

LEMMA ReportRouted ==
  ASSUME IDInv, RowInv, RoutedInv, NEW h \in Handlers, Report(h) PROVE RoutedInv'
<1>0. UNCHANGED <<idVars, live, unsaved>>
  BY ReportLeavesIds DEF Report, Arrive, Forwarded, Verdict, Read, Accept, Enrich, Write, Register
<1> SUFFICES ASSUME ~unsaved' PROVE RoutedInv'
  BY <1>0 DEF RoutedInv
<1>1. Synced' /\ \A v \in VIDs : Copies(v)' = Copies(v)
  BY <1>0 DEF RoutedInv, Synced, idVars, Copies, CopiesBy
<1>2. \A v \in VIDs, s \in Servers \union {None} : s \in live' => (s \in Routes(v)' <=> s \in Routes(v)) /\ s \in live
  BY <1>0, <1>1 DEF Routes
<1>3. /\ \A u \in Users, v \in VIDs : rows[u][v].server \in Servers \union {None} /\ Routed(v, rows[u][v].server)
      /\ \A g \in Handlers : handler[g] \in Event => /\ Routed(handler[g].item, handler[g].server)
                                                     /\ handler[g].item \in VIDs /\ handler[g].server \in Servers
  BY <1>0 DEF RoutedInv, RowInv, Rows, Event
<1>4. CASE \E k \in Kinds, u \in Users, v \in VIDs, x \in Sessions \union {None}, body \in Bodies,
            s \in Servers : Arrive(h, k, u, v, x, body, s)
  <2>1. PICK k \in Kinds, u \in Users, v \in VIDs, x \in Sessions \union {None}, body \in Bodies,
             s \in Servers : Arrive(h, k, u, v, x, body, s)
    BY <1>4
  <2>2. PICK st : handler' = [handler EXCEPT ![h] = [Idle EXCEPT !.step = st, !.kind = k,
                               !.user = u, !.item = v, !.server = s, !.session = x, !.body = body]]
    BY <2>1 DEF Arrive, Step
  <2>3. PICK e : e = [Idle EXCEPT !.step = st, !.kind = k, !.user = u, !.item = v, !.server = s,
                                  !.session = x, !.body = body]
    OBVIOUS
  <2>4. e.item = v /\ e.server = s
    BY <2>3 DEF Idle
  <2>5. \A g \in Handlers : handler'[g] = IF g = h THEN e ELSE handler[g]
    BY <2>2, <2>3 DEF RowInv
  <2>6. s \in Routes(v) /\ rows' = rows
    BY <2>1 DEF Arrive
  <2>7. ASSUME NEW g \in Handlers, handler'[g] \in Event PROVE Routed(handler[g].item, handler[g].server)'
    BY <1>2, <1>3, <2>4, <2>5, <2>6, <2>7 DEF Routed
  <2>8. ASSUME NEW w \in Users, NEW y \in VIDs PROVE Routed(y, rows[w][y].server)'
    BY <1>2, <1>3, <2>6 DEF Routed
  <2> QED
    BY <1>0, <1>1, <2>7, <2>8 DEF RoutedInv
<1>5. CASE Forwarded(h) \/ Verdict(h) \/ Read(h) \/ Accept(h) \/ Enrich(h) \/ Write(h) \/ Register(h)
  <2>1. ASSUME NEW g \in Handlers, handler'[g] \in Event PROVE Routed(handler[g].item, handler[g].server)'
    <3>1. handler'[g].item = handler[g].item /\ handler'[g].server = handler[g].server /\ handler[g] \in Event
      BY <1>5, <2>1, EventKept, IdleIsNoEvent
    <3> QED
      BY <1>2, <1>3, <3>1 DEF Routed
  <2>2. ASSUME NEW w \in Users, NEW y \in VIDs PROVE Routed(y, rows[w][y].server)'
    <3>1. CASE rows' = rows
      BY <1>2, <1>3, <3>1 DEF Routed
    <3>2. CASE Write(h)
      <4>1. handler[h] \in Event
        BY <1>5, EventKept
      <4>2. rows'[w][y] = rows[w][y] \/ (y = handler[h].item /\ rows'[w][y] = Upsert(rows[w][y], Reported(handler[h])))
        BY <3>2, <4>1 DEF Write, RowInv, Event
      <4>3. Upsert(rows[w][y], Reported(handler[h])).server = handler[h].server
        BY DEF Upsert, Reported
      <4> QED
        BY <1>2, <1>3, <4>1, <4>2, <4>3 DEF Routed
    <3> QED
      BY <1>5, <3>1, <3>2 DEF Forwarded, Verdict, Read, Accept, Enrich, Register
  <2> QED
    BY <1>0, <1>1, <2>1, <2>2 DEF RoutedInv
<1> QED
  BY <1>4, <1>5 DEF Report

\* Marks of the user and the end of an account: a row keeps its server or is gone.
LEMMA MarksRouted ==
  ASSUME RowInv, RoutedInv, UNCHANGED <<idVars, handler, live, unsaved>>,
         \A u \in Users, v \in VIDs : rows'[u][v].server \in {rows[u][v].server, None}
  PROVE  RoutedInv'
<1>1. None \notin live
  BY NoneIsNothing DEF RoutedInv
<1>2. \A v \in VIDs : Copies(v)' = Copies(v)
  BY DEF idVars, Copies, CopiesBy
<1>3. \A s : \A v \in VIDs : Routed(v, s) => (s \in live' => s \in Routes(v)')
  BY <1>2 DEF Routed, Routes
<1>4. ASSUME ~unsaved, NEW u \in Users, NEW v \in VIDs PROVE Routed(v, rows[u][v].server)'
  <2>1. Routed(v, rows[u][v].server)
    BY <1>4 DEF RoutedInv
  <2>2. CASE rows'[u][v].server = None
    BY <1>1, <2>2 DEF Routed
  <2>3. CASE rows'[u][v].server = rows[u][v].server
    BY <1>3, <2>1, <2>3 DEF Routed
  <2> QED
    BY <2>2, <2>3
<1>5. ASSUME ~unsaved, NEW h \in Handlers, handler'[h] \in Event PROVE Routed(handler[h].item, handler[h].server)'
  BY <1>3, <1>5 DEF RoutedInv, Routed, Event
<1>6. Synced => Synced'
  BY DEF Synced, idVars
<1> QED
  BY <1>4, <1>5, <1>6 DEF RoutedInv

LEMMA RemoveRouted ==
  ASSUME IDInv, RowInv, RoutedInv, NEW s \in Servers, RemoveServer(s) PROVE RoutedInv'
<1> SUFFICES ASSUME ~unsaved PROVE RoutedInv'
  BY DEF RoutedInv, RemoveServer
<1>1. /\ RemoveByServerID(s) /\ s \notin live /\ UNCHANGED <<handler, live, unsaved>>
      /\ rows' = [u \in Users |-> [v \in VIDs |-> Rehomed(rows[u][v], v, s)]]
  BY DEF RemoveServer
<1>2. /\ Synced
      /\ \A u \in Users, v \in VIDs : Routed(v, rows[u][v].server)
      /\ \A h \in Handlers : handler[h] \in Event => Routed(handler[h].item, handler[h].server)
  BY DEF RoutedInv
<1>3. \A v \in VIDs : Copies(v)' = Survivors(v, s)
  BY <1>1, RemovedCopies DEF Copies, IDInv
<1>4. \A t : \A v \in VIDs : Routed(v, t) => (t \in live => t \in Routes(v)')
  BY <1>1, <1>3 DEF Routed, Routes, Survivors
<1>5. Synced'
  <2>1. disk'.primary = [v \in VIDs |-> disk'.primary[v]] /\ disk'.others = [v \in VIDs |-> disk'.others[v]]
    BY <1>1 DEF RemoveByServerID, DiskAfter
  <2>2. primary' = [v \in VIDs |-> primary'[v]] /\ others' = [v \in VIDs |-> others'[v]]
    BY <1>1 DEF RemoveByServerID
  <2>3. ASSUME NEW v \in VIDs PROVE disk'.primary[v] = primary'[v]
    <3>1. disk.primary[v] = primary[v]
      BY <1>2 DEF Synced
    <3>2. Survivors(v, s) # {} => Promoted(v, s) \in Survivors(v, s) /\ Promoted(v, s) \in Pairs
      BY PromotedSurvives DEF IDInv, StoreSound
    <3>3. primary'[v] = IF Published(v) THEN RouteAfter(v, s) ELSE None
      BY <1>1 DEF RemoveByServerID
    <3>4. disk'.primary[v] = LET moved == IF disk.primary[v] # None /\ Moves(v, s) THEN Promoted(v, s) ELSE disk.primary[v]
                             IN  IF Vanishes(v, s) \/ (moved # None /\ ServerOf(moved) = s) THEN None ELSE moved
      BY <1>1 DEF RemoveByServerID, DiskAfter
    <3> QED
      BY <3>1, <3>2, <3>3, <3>4, NoneIsNothing DEF RouteAfter, Moves, Vanishes, Published, Survivors
  <2>4. ASSUME NEW v \in VIDs PROVE disk'.others[v] = others'[v]
    <3>1. disk.others[v] = others[v]
      BY <1>2 DEF Synced
    <3>2. others'[v] = IF Published(v) THEN Survivors(v, s) \ {RouteAfter(v, s)} ELSE {}
      BY <1>1 DEF RemoveByServerID, OthersAfter
    <3>3. disk'.others[v] = IF Vanishes(v, s) THEN {}
                            ELSE {p \in disk.others[v] : ServerOf(p) # s /\ ~(Moves(v, s) /\ p = Promoted(v, s))}
      BY <1>1 DEF RemoveByServerID, DiskAfter
    <3>4. IF primary[v] = None THEN others[v] = {} ELSE primary[v] \notin others[v]
      BY DEF IDInv, StoreSound, OthersApart
    <3>5. CASE ~Published(v)
      BY <3>1, <3>2, <3>3, <3>4, <3>5 DEF Published
    <3>6. CASE Vanishes(v, s)
      BY <3>2, <3>3, <3>6 DEF Vanishes
    <3>7. CASE Published(v) /\ ~Vanishes(v, s)
      <4>1. Survivors(v, s) = {p \in {primary[v]} \union others[v] : ServerOf(p) # s}
        BY <3>7 DEF Survivors, Copies, CopiesBy, Published
      <4>2. RouteAfter(v, s) = IF Moves(v, s) THEN Promoted(v, s) ELSE primary[v]
        BY <3>7 DEF RouteAfter
      <4>3. Moves(v, s) <=> ServerOf(primary[v]) = s
        BY <3>7 DEF Moves, Vanishes
      <4> QED
        BY <3>1, <3>2, <3>3, <3>4, <3>7, <4>1, <4>2, <4>3 DEF Published
    <3> QED
      BY <3>5, <3>6, <3>7
  <2> QED
    BY <2>1, <2>2, <2>3, <2>4 DEF Synced
<1>6. ASSUME NEW u \in Users, NEW v \in VIDs PROVE Routed(v, rows[u][v].server)'
  <2>1. rows[u][v] \in Rows /\ rows'[u][v] = Rehomed(rows[u][v], v, s)
    BY <1>1 DEF RowInv
  <2>2. CASE Vanishes(v, s) \/ (rows[u][v].server = s /\ ~Touched(v, s))
    <3>1. rows'[u][v].server = None
      BY <2>1, <2>2 DEF Rehomed, NoRow
    <3> QED
      BY <1>1, <3>1, NoneIsNothing DEF RoutedInv, Routed
  <2>3. CASE ~(Vanishes(v, s) \/ (rows[u][v].server = s /\ ~Touched(v, s))) /\ rows[u][v].server = s
    <3>1. rows'[u][v].server = ServerOf(RouteAfter(v, s))
      BY <2>1, <2>3 DEF Rehomed, Rows
    <3>2. RouteAfter(v, s) \in Copies(v)'
      BY <1>3, <2>3, PromotedSurvives DEF Touched, RouteAfter, Vanishes, Moves, Published, Survivors, Copies, CopiesBy, IDInv, StoreSound
    <3> QED
      BY <3>1, <3>2 DEF Routed, Routes
  <2>4. CASE ~(Vanishes(v, s) \/ (rows[u][v].server = s /\ ~Touched(v, s))) /\ rows[u][v].server # s
    <3>1. rows'[u][v] = rows[u][v]
      BY <2>1, <2>4 DEF Rehomed
    <3> QED
      BY <1>1, <1>2, <1>4, <3>1 DEF Routed
  <2> QED
    BY <2>2, <2>3, <2>4
<1>7. ASSUME NEW h \in Handlers, handler'[h] \in Event PROVE Routed(handler[h].item, handler[h].server)'
  BY <1>1, <1>2, <1>4, <1>7 DEF Event, Routed
<1> QED
  BY <1>1, <1>5, <1>6, <1>7 DEF RoutedInv

LEMMA CreateRouted ==
  ASSUME IDInv, RoutedInv, NEW v \in VIDs, NEW p \in Pairs, NEW saved \in BOOLEAN,
         GetOrCreateVirtualID(v, p, saved), unsaved' = (unsaved \/ ~saved), UNCHANGED <<rows, handler, live>>
  PROVE  RoutedInv'
<1>1. \A w \in VIDs : Copies(w) \subseteq Copies(w)'
  <2>1. primary[v] = None /\ primary' = [primary EXCEPT ![v] = p] /\ others' = [others EXCEPT ![v] = {}]
    BY DEF GetOrCreateVirtualID
  <2> QED
    BY <2>1 DEF Copies, CopiesBy, IDInv, StoreSound, IDTypeOK
<1>2. ~unsaved' => ~unsaved /\ Synced'
  <2> SUFFICES ASSUME ~unsaved' PROVE Synced'
    OBVIOUS
  <2>1. saved /\ Synced
    BY DEF RoutedInv
  <2>2. others' = others
    BY DEF GetOrCreateVirtualID, IDInv, StoreSound, IDTypeOK, OthersApart
  <2>3. disk' = [disk EXCEPT !.primary[v] = p] /\ primary' = [primary EXCEPT ![v] = p]
    BY <2>1 DEF GetOrCreateVirtualID
  <2> QED
    BY <2>1, <2>2, <2>3 DEF Synced, IDInv, StoreSound, IDTypeOK
<1> QED
  BY <1>1, <1>2, CopiesGrow

LEMMA AssociateRouted ==
  ASSUME IDInv, RoutedInv, NEW v \in VIDs, NEW p \in Pairs, NEW saved \in BOOLEAN,
         AssociateAdditionalInstance(v, p, saved), unsaved' = (unsaved \/ ~saved), UNCHANGED <<rows, handler, live>>
  PROVE  RoutedInv'
<1>1. \A w \in VIDs : Copies(w) \subseteq Copies(w)'
  <2>1. primary' = primary /\ others' = [others EXCEPT ![v] = @ \union {p}]
    BY DEF AssociateAdditionalInstance
  <2> QED
    BY <2>1 DEF Copies, CopiesBy, IDInv, StoreSound, IDTypeOK
<1>2. ~unsaved' => ~unsaved /\ Synced'
  <2> SUFFICES ASSUME ~unsaved' PROVE Synced'
    OBVIOUS
  <2>1. saved /\ Synced
    BY DEF RoutedInv
  <2>2. disk' = [disk EXCEPT !.others[v] = @ \union {p}] /\ primary' = primary /\ others' = [others EXCEPT ![v] = @ \union {p}]
    BY <2>1 DEF AssociateAdditionalInstance
  <2> QED
    BY <2>1, <2>2 DEF Synced, IDInv, StoreSound, IDTypeOK
<1> QED
  BY <1>1, <1>2, CopiesGrow

LEMMA RestartRouted == ASSUME IDInv, RowInv, RoutedInv, Restart PROVE RoutedInv'
<1> SUFFICES ASSUME ~unsaved PROVE RoutedInv'
  BY DEF RoutedInv, Restart
<1>1. Synced /\ Load /\ UNCHANGED <<live, unsaved, disk>> /\ handler' = [h \in Handlers |-> Idle]
  BY DEF RoutedInv, Restart, Load
<1>2. primary' = primary /\ others' = others
  <2>1. others' = [v \in VIDs |-> IF primary[v] = None THEN {} ELSE others[v]]
    BY <1>1 DEF Load, Synced
  <2>2. \A v \in VIDs : primary[v] = None => others[v] = {}
    BY DEF IDInv, StoreSound, OthersApart
  <2>3. others' = others
    BY <2>1, <2>2 DEF IDInv, StoreSound, IDTypeOK
  <2> QED
    BY <1>1, <2>3 DEF Load, Synced
<1>3. \A v \in VIDs : Routes(v)' = Routes(v)
  BY <1>2 DEF Routes, Copies, CopiesBy
<1>4. ASSUME NEW u \in Users, NEW v \in VIDs PROVE Routed(v, rows[u][v].server)'
  <2>1. rows[u][v] \in Rows /\ rows'[u][v] = Migrated(rows[u][v])
    BY DEF RowInv, Restart
  <2>2. rows'[u][v].server = rows[u][v].server
    BY <2>1 DEF Migrated, Rows
  <2> QED
    BY <1>1, <1>3, <2>2 DEF RoutedInv, Routed
<1>5. \A h \in Handlers : handler'[h] \notin Event
  BY <1>1, IdleIsNoEvent
<1> QED
  BY <1>1, <1>2, <1>4, <1>5 DEF RoutedInv, Synced

LEMMA StepKeepsRoutes == IDInv /\ RowInv /\ RoutedInv /\ [Next]_vars => RoutedInv'
<1> SUFFICES ASSUME IDInv, RowInv, RoutedInv, [Next]_vars PROVE RoutedInv'
  OBVIOUS
<1>1. CASE \E h \in Handlers : Report(h)
  BY <1>1, ReportRouted
<1>2. CASE \E u \in Users, v \in VIDs : Flag(u, v)
  <2>1. PICK w \in Users, y \in VIDs, b \in BOOLEAN : MarkPlayed(w, y, b) \/ SetFavorite(w, y, b)
    BY <1>2 DEF Flag
  <2>2. UNCHANGED <<idVars, handler, live, unsaved>>
    BY <2>1 DEF MarkPlayed, SetFavorite
  <2>3. ASSUME NEW u \in Users, NEW v \in VIDs PROVE rows'[u][v].server = rows[u][v].server
    <3>1. rows[u][v] \in Rows
      BY DEF RowInv
    <3>2. CASE MarkPlayed(w, y, b)
      <4>1. rows'[u][v] \in {rows[u][v], [rows[u][v] EXCEPT !.exists = TRUE, !.played = b]}
        BY <3>2 DEF MarkPlayed, RowInv
      <4> QED
        BY <3>1, <4>1 DEF Rows
    <3>3. CASE SetFavorite(w, y, b)
      <4>1. rows'[u][v] \in {rows[u][v], [rows[u][v] EXCEPT !.exists = TRUE, !.fav = b]}
        BY <3>3 DEF SetFavorite, RowInv
      <4> QED
        BY <3>1, <4>1 DEF Rows
    <3> QED
      BY <2>1, <3>2, <3>3
  <2> QED
    BY <2>2, <2>3, MarksRouted
<1>3. CASE \E w \in Users : DeleteUser(w)
  <2>1. UNCHANGED <<idVars, handler, live, unsaved>>
    BY <1>3 DEF DeleteUser
  <2>2. ASSUME NEW u \in Users, NEW v \in VIDs PROVE rows'[u][v].server \in {rows[u][v].server, None}
    <3>1. rows'[u][v] = rows[u][v] \/ rows'[u][v] = NoRow
      BY <1>3 DEF DeleteUser, RowInv
    <3> QED
      BY <3>1 DEF NoRow
  <2> QED
    BY <2>1, <2>2, MarksRouted
<1>4. CASE \E v \in VIDs, p \in Pairs : Publish(v, p)
  BY <1>4, CreateRouted DEF Publish
<1>5. CASE \E v \in VIDs, p \in Pairs : Associate(v, p)
  BY <1>5, AssociateRouted DEF Associate
<1>6. CASE \E v \in VIDs : Hint(v)
  <2>1. UNCHANGED <<primary, others, disk, rows, handler, live, unsaved>>
    BY <1>6 DEF Hint, watchVars, SetActiveStream, EvictExpiredStreamState, SetSource
  <2> QED
    BY <2>1, CopiesGrow DEF RoutedInv, Synced, Copies, CopiesBy
<1>7. CASE \E s \in Servers : CommitRemoval(s)
  <2>1. UNCHANGED <<primary, others, disk, rows, handler, unsaved>> /\ live' \subseteq live
    BY <1>7 DEF CommitRemoval, idVars
  <2> QED
    BY <2>1, CopiesGrow DEF RoutedInv, Synced, Copies, CopiesBy
<1>8. CASE \E s \in Servers : RemoveServer(s)
  BY <1>8, RemoveRouted
<1>9. CASE Restart
  BY <1>9, RestartRouted
<1>10. CASE ExpireSession \/ UNCHANGED vars
  <2>1. UNCHANGED <<primary, others, disk, rows, handler, live, unsaved>>
    BY <1>10 DEF ExpireSession, idVars, watchVars, vars
  <2> QED
    BY <2>1, CopiesGrow DEF RoutedInv, Synced, Copies, CopiesBy
<1> QED
  BY <1>1, <1>2, <1>3, <1>4, <1>5, <1>6, <1>7, <1>8, <1>9, <1>10 DEF Next, Work

LEMMA RoutesStart == Init => RoutedInv
<1> SUFFICES ASSUME Init PROVE RoutedInv
  OBVIOUS
<1>1. Synced /\ live \subseteq Servers
  BY DEF Init, IDInit, NoDisk, Synced
<1>2. ASSUME NEW u \in Users, NEW v \in VIDs PROVE Routed(v, rows[u][v].server)
  <2>1. rows[u][v].server = None
    BY DEF Init, NoRow
  <2> QED
    BY <1>1, <2>1, NoneIsNothing DEF Routed
<1>3. \A h \in Handlers : handler[h] \notin Event
  BY IdleIsNoEvent DEF Init
<1> QED
  BY <1>1, <1>2, <1>3 DEF RoutedInv

(* A row points to a server that has a copy of its item, to none, or to    *)
(* one that is no longer configured, as long as the database took every    *)
(* id: whatever is merged, promoted, removed and reloaded while events are *)
(* on their way (recordSessionToWatchStore, RemoveByServerID).             *)
THEOREM RowsAlwaysRouted == WatchSpec => []RowsRouted
<1>1. Init => IDInv /\ RowInv
  BY InitIDs, NoRowTyped DEF Init, RowInv
<1>3. RoutedInv => RowsRouted
  BY DEF RoutedInv, Routed, RowsRouted
<1> QED
  BY <1>1, <1>3, RoutesStart, StepKeepsIds, StepKeepsRows, StepKeepsRoutes, PTL DEF WatchSpec

-----------------------------------------------------------------------------
(* The tracker.                                                             *)

Entry == [user : Users, item : VIDs, session : Sessions]
\* One entry for each user and item.
Distinct(t) == \A i, k \in DOMAIN t : t[i].user = t[k].user /\ t[i].item = t[k].item => i = k
TrackerOK(t) == t \in Seq(Entry) /\ Distinct(t) /\ Len(t) <= MaxWatchEntries

LEMMA EvictedOK ==
  ASSUME NEW t, TrackerOK(t)
  PROVE  TrackerOK(Evicted(t)) /\ Len(Evicted(t)) < MaxWatchEntries
<1>1. t \in Seq(Entry) /\ Len(t) \in Nat /\ MaxWatchEntries \in Nat \ {0}
  BY WatchBounds DEF TrackerOK
<1>2. CASE Len(t) < MaxWatchEntries
  BY <1>2 DEF Evicted
<1>3. CASE ~(Len(t) < MaxWatchEntries)
  <2>1. t # <<>> /\ Len(t) > 0
    BY <1>1, <1>3 DEF TrackerOK
  <2>2. PICK r : r = Tail(t)
    OBVIOUS
  <2>3. r \in Seq(Entry) /\ Len(r) = Len(t) - 1 /\ \A i \in 1..Len(r) : r[i] = t[i + 1]
    BY <1>1, <2>1, <2>2
  <2>4. Distinct(r)
    <3>1. SUFFICES ASSUME NEW i \in 1..Len(r), NEW k \in 1..Len(r),
                          r[i].user = r[k].user, r[i].item = r[k].item
                   PROVE  i = k
      BY <2>3 DEF Distinct
    <3>2. i + 1 \in DOMAIN t /\ k + 1 \in DOMAIN t /\ r[i] = t[i + 1] /\ r[k] = t[k + 1]
      BY <1>1, <2>3
    <3>3. i + 1 = k + 1
      BY <3>1, <3>2 DEF TrackerOK, Distinct
    <3> QED
      BY <3>3
  <2> QED
    BY <1>1, <1>3, <2>2, <2>3, <2>4 DEF TrackerOK, Evicted
<1> QED
  BY <1>2, <1>3

LEMMA RemovedEntry ==
  ASSUME NEW t \in Seq(Entry), NEW p \in 1..Len(t), NEW r, r = RemoveAt(t, p)
  PROVE  /\ r \in Seq(Entry) /\ Len(r) = Len(t) - 1
         /\ \A i \in 1..Len(r) : r[i] = t[IF i < p THEN i ELSE i + 1]
<1>1. PICK a, b : a = SubSeq(t, 1, p - 1) /\ b = SubSeq(t, p + 1, Len(t))
  OBVIOUS
<1> HIDE DEF Entry
<1>2. a \in Seq(Entry) /\ Len(a) = p - 1
  BY <1>1
<1>3. b \in Seq(Entry) /\ Len(b) = Len(t) - p
  BY <1>1
<1>4. /\ \A i \in 1..(p - 1) : a[i] = t[i]
      /\ \A i \in 1..(Len(t) - p) : b[i] = t[p + i]
  BY <1>1
<1>5. r = a \o b
  BY <1>1 DEF RemoveAt
<1>6. r \in Seq(Entry) /\ Len(r) = Len(t) - 1
  BY <1>2, <1>3, <1>5
<1>7. \A i \in 1..Len(r) : r[i] = t[IF i < p THEN i ELSE i + 1]
  <2>1. Len(t) \in Nat
    OBVIOUS
  <2> SUFFICES ASSUME NEW i \in 1..Len(r) PROVE r[i] = t[IF i < p THEN i ELSE i + 1]
    OBVIOUS
  <2>2. CASE i < p
    BY <1>2, <1>3, <1>4, <1>5, <1>6, <2>1, <2>2
  <2>3. CASE ~(i < p)
    <3>1. i - (p - 1) \in 1..(Len(t) - p) /\ r[i] = b[i - (p - 1)]
      BY <1>2, <1>3, <1>5, <1>6, <2>1, <2>3
    <3> QED
      BY <1>4, <2>1, <2>3, <3>1
  <2> QED
    BY <2>2, <2>3
<1> QED
  BY <1>6, <1>7

\* The place of an entry, found by its key.
LEMMA EntryFound ==
  ASSUME NEW t, TrackerOK(t), NEW i \in DOMAIN t
  PROVE  EntryOf(t, t[i].user, t[i].item) = i /\ Holds(t, t[i].user, t[i].item) /\ t[i] \in Entry
<1>1. \E k \in DOMAIN t : t[k].user = t[i].user /\ t[k].item = t[i].item
  OBVIOUS
<1>2. PICK k \in DOMAIN t : k = EntryOf(t, t[i].user, t[i].item) /\ t[k].user = t[i].user /\ t[k].item = t[i].item
  BY <1>1 DEF EntryOf
<1>3. k = i
  BY <1>2 DEF TrackerOK, Distinct
<1>4. t[i] \in Entry
  BY DEF TrackerOK
<1> QED
  BY <1>1, <1>2, <1>3, <1>4 DEF Holds

\* The latest session of a key comes last, its earlier entry is gone, the others stay.
LEMMA PutOK ==
  ASSUME NEW t, TrackerOK(t), Len(t) < MaxWatchEntries,
         NEW u \in Users, NEW v \in VIDs, NEW x \in Sessions, NEW n, n = Put(t, u, v, x)
  PROVE  /\ TrackerOK(n)
         /\ \A i \in DOMAIN n : \/ n[i] = [user |-> u, item |-> v, session |-> x]
                                \/ \E k \in DOMAIN t : n[i] = t[k]
<1>1. t \in Seq(Entry) /\ Len(t) \in Nat /\ MaxWatchEntries \in Nat \ {0} /\ DOMAIN t = 1..Len(t)
  BY WatchBounds DEF TrackerOK
<1>2. PICK e \in Entry : e = [user |-> u, item |-> v, session |-> x]
  BY DEF Entry
<1>3. PICK rest : rest = IF Holds(t, u, v) THEN RemoveAt(t, EntryOf(t, u, v)) ELSE t
  OBVIOUS
\* What is left of the other keys.
<1>4. /\ rest \in Seq(Entry) /\ Len(rest) <= Len(t) /\ Distinct(rest)
      /\ \A i \in DOMAIN rest : /\ \E k \in DOMAIN t : rest[i] = t[k]
                                /\ ~(rest[i].user = u /\ rest[i].item = v)
  <2>1. CASE ~Holds(t, u, v)
    BY <1>1, <1>3, <2>1 DEF TrackerOK, Holds
  <2>2. CASE Holds(t, u, v)
    <3>1. PICK p \in 1..Len(t) : p = EntryOf(t, u, v) /\ t[p].user = u /\ t[p].item = v
      BY <1>1, <2>2 DEF Holds, EntryOf
    <3>2. /\ rest \in Seq(Entry) /\ Len(rest) = Len(t) - 1
          /\ \A i \in 1..Len(rest) : rest[i] = t[IF i < p THEN i ELSE i + 1]
      <4>1. rest = RemoveAt(t, p) /\ t \in Seq(Entry)
        BY <1>1, <1>3, <2>2, <3>1
      <4> QED
        BY <4>1, RemovedEntry
    <3>3. PICK from : from = [i \in 1..Len(rest) |-> IF i < p THEN i ELSE i + 1]
      OBVIOUS
    <3>4. /\ \A i \in 1..Len(rest) : from[i] \in 1..Len(t) /\ from[i] # p /\ rest[i] = t[from[i]]
          /\ \A i, k \in 1..Len(rest) : from[i] = from[k] => i = k
      <4>1. PICK m \in Nat : m = Len(t) /\ Len(rest) = m - 1 /\ p \in 1..m
        BY <1>1, <3>1, <3>2
      <4>2. \A i \in 1..(m - 1) : from[i] = IF i < p THEN i ELSE i + 1
        BY <3>3, <4>1
      <4>3. \A i \in 1..(m - 1) : from[i] \in 1..m /\ from[i] # p
        BY <4>1, <4>2
      <4>4. \A i, k \in 1..(m - 1) : from[i] = from[k] => i = k
        BY <4>1, <4>2
      <4>5. \A i \in 1..(m - 1) : rest[i] = t[from[i]]
        BY <3>2, <4>1, <4>2
      <4> QED
        BY <4>1, <4>3, <4>4, <4>5
    <3>5. DOMAIN rest = 1..Len(rest)
      BY <3>2
    <3>6. Distinct(rest)
      BY <1>1, <3>4, <3>5 DEF TrackerOK, Distinct
    <3>7. \A i \in DOMAIN rest : ~(rest[i].user = u /\ rest[i].item = v)
      BY <1>1, <3>1, <3>4, <3>5 DEF TrackerOK, Distinct
    <3> QED
      BY <1>1, <3>2, <3>4, <3>5, <3>6, <3>7
  <2> QED
    BY <2>1, <2>2
<1>5. n = Append(rest, e)
  BY <1>2, <1>3 DEF Put
<1>6. n \in Seq(Entry) /\ Len(n) = Len(rest) + 1
  <2> HIDE DEF Entry
  <2> QED
    BY <1>2, <1>4, <1>5
<1>7. /\ DOMAIN n = 1..(Len(rest) + 1) /\ DOMAIN rest = 1..Len(rest) /\ Len(rest) \in Nat
      /\ n[Len(rest) + 1] = e /\ \A i \in 1..Len(rest) : n[i] = rest[i]
  <2> HIDE DEF Entry
  <2> QED
    BY <1>2, <1>4, <1>5, <1>6
<1>8. Distinct(n)
  <2> SUFFICES ASSUME NEW i \in DOMAIN n, NEW k \in DOMAIN n, n[i].user = n[k].user, n[i].item = n[k].item
               PROVE  i = k
    BY DEF Distinct
  <2>1. e.user = u /\ e.item = v
    BY <1>2
  <2>2. CASE i \in DOMAIN rest /\ k \in DOMAIN rest
    BY <1>4, <1>7, <2>2 DEF Distinct
  <2>3. CASE i \notin DOMAIN rest \/ k \notin DOMAIN rest
    <3>1. \A m \in DOMAIN n : m \notin DOMAIN rest => m = Len(rest) + 1 /\ n[m] = e
      BY <1>7
    <3>2. \A m \in DOMAIN rest : ~(n[m].user = u /\ n[m].item = v)
      BY <1>4, <1>7
    <3> QED
      BY <2>1, <2>3, <3>1, <3>2
  <2> QED
    BY <2>2, <2>3
<1>9. Len(n) <= MaxWatchEntries
  BY <1>1, <1>4, <1>6
<1>10. \A i \in DOMAIN n : n[i] = e \/ \E k \in DOMAIN t : n[i] = t[k]
  BY <1>4, <1>7
<1> QED
  BY <1>2, <1>6, <1>8, <1>9, <1>10 DEF TrackerOK

\* What a step may put into the tracker: an entry it holds, one for a key it does not hold,
\* or the session of a start that registers.
Keeps(t, n) ==
  \A i \in DOMAIN n : \/ \E k \in DOMAIN t : n[i] = t[k]
                      \/ ~Holds(t, n[i].user, n[i].item)
                      \/ \E h \in Handlers : At(h, "register") /\ handler[h].session = n[i].session

LEMMA EntriesKept ==
  ASSUME NEW t, NEW n, \A i \in DOMAIN n : \E k \in DOMAIN t : n[i] = t[k]
  PROVE  Keeps(t, n)
BY DEF Keeps

LEMMA ReportTracks ==
  ASSUME RowInv, TrackerOK(tracker), NEW h \in Handlers, Report(h)
  PROVE  TrackerOK(tracker') /\ (Len(tracker) < MaxWatchEntries => Keeps(tracker, tracker'))
<1>1. CASE tracker' = tracker
  BY <1>1, EntriesKept
<1>2. PICK t : t = Evicted(tracker)
  OBVIOUS
<1>3. TrackerOK(t) /\ Len(t) < MaxWatchEntries /\ (Len(tracker) < MaxWatchEntries => t = tracker)
  BY <1>2, EvictedOK DEF Evicted
<1>4. CASE Accept(h) \/ Register(h)
  <2>1. PICK u, v, x : /\ u = handler[h].user /\ v = handler[h].item /\ x = handler[h].session
                       /\ u \in Users /\ v \in VIDs /\ x \in Sessions \union {None}
    BY <1>4, IdleIsIdle DEF Accept, Register, At, RowInv, Event
  <2>2. CASE x = None
    BY <1>1, <1>4, <2>1, <2>2 DEF Accept, Register, AfterAccept, AfterStart
  <2>3. CASE x # None
    <3>0. x \in Sessions
      BY <2>1, <2>3
    <3>1. PICK n : n = Put(t, u, v, x)
      OBVIOUS
    <3>2. /\ TrackerOK(n)
          /\ \A i \in DOMAIN n : \/ n[i] = [user |-> u, item |-> v, session |-> x]
                                 \/ \E k \in DOMAIN t : n[i] = t[k]
      BY <1>3, <2>1, <3>0, <3>1, PutOK
    <3>3. CASE Register(h)
      <4>1. tracker' = n /\ At(h, "register")
        BY <1>2, <2>1, <2>3, <3>1, <3>3 DEF Register, AfterStart
      <4>2. \A i \in DOMAIN n : n[i] = [user |-> u, item |-> v, session |-> x] => n[i].session = handler[h].session
        BY <2>1
      <4>3. t = tracker => Keeps(tracker, n)
        BY <3>2, <4>1, <4>2 DEF Keeps
      <4> QED
        BY <1>3, <3>2, <4>1, <4>3
    <3>4. CASE Accept(h)
      <4>1. tracker' = IF Accepts(u, v, x) THEN n ELSE t
        BY <1>2, <2>1, <2>3, <3>1, <3>4 DEF Accept, AfterAccept
      <4>2. CASE ~Accepts(u, v, x)
        BY <1>3, <4>1, <4>2, EntriesKept
      <4>3. CASE Accepts(u, v, x)
        <5>1. ~Holds(t, u, v) \/ \E k \in DOMAIN t : t[k] = [user |-> u, item |-> v, session |-> x]
          BY <1>2, <2>3, <4>3 DEF Accepts, Belongs
        <5>2. \A i \in DOMAIN n : n[i] = [user |-> u, item |-> v, session |-> x] => n[i].user = u /\ n[i].item = v
          OBVIOUS
        <5>3. Keeps(t, n)
          BY <3>2, <5>1, <5>2 DEF Keeps
        <5> QED
          BY <1>3, <3>2, <4>1, <4>3, <5>3
      <4> QED
        BY <4>2, <4>3
    <3> QED
      BY <1>4, <3>3, <3>4
  <2> QED
    BY <2>2, <2>3
<1> QED
  BY <1>1, <1>4 DEF Report, Arrive, Forwarded, Verdict, Read, Enrich, Write

LEMMA StepTracks ==
  ASSUME RowInv, TrackerOK(tracker), [Next]_vars
  PROVE  TrackerOK(tracker') /\ (Len(tracker) < MaxWatchEntries => Keeps(tracker, tracker'))
<1>1. CASE \E h \in Handlers : Report(h)
  BY <1>1, ReportTracks
<1>2. CASE ExpireSession
  <2>1. tracker \in Seq(Entry) /\ tracker # <<>> /\ Len(tracker) \in Nat /\ MaxWatchEntries \in Nat
    BY <1>2, WatchBounds DEF ExpireSession, TrackerOK
  <2>2. PICK r : r = Tail(tracker)
    OBVIOUS
  <2>3. /\ r \in Seq(Entry) /\ Len(r) = Len(tracker) - 1 /\ Len(tracker) > 0
        /\ \A i \in 1..Len(r) : r[i] = tracker[i + 1] /\ i + 1 \in DOMAIN tracker
    BY <2>1, <2>2
  <2>4. Distinct(r) /\ Len(r) <= MaxWatchEntries
    <3>1. Len(r) <= MaxWatchEntries
      BY <2>1, <2>3 DEF TrackerOK
    <3>2. \A i \in DOMAIN r : i \in Nat /\ i + 1 \in DOMAIN tracker /\ r[i] = tracker[i + 1]
      BY <2>3
    <3>3. ASSUME NEW i \in DOMAIN r, NEW k \in DOMAIN r, r[i].user = r[k].user, r[i].item = r[k].item PROVE i = k
      <4>1. i + 1 = k + 1
        BY <3>2, <3>3 DEF TrackerOK, Distinct
      <4> QED
        BY <3>2, <4>1
    <3> QED
      BY <3>1, <3>3 DEF Distinct
  <2>5. \A i \in DOMAIN r : \E k \in DOMAIN tracker : r[i] = tracker[k]
    BY <2>3
  <2>6. tracker' = r
    BY <1>2, <2>2 DEF ExpireSession
  <2> QED
    BY <2>3, <2>4, <2>5, <2>6, EntriesKept DEF TrackerOK
<1>3. CASE Restart
  <2>1. tracker' = <<>>
    BY <1>3 DEF Restart
  <2> QED
    BY <2>1, WatchBounds DEF TrackerOK, Distinct, Keeps
<1>4. CASE tracker' = tracker
  BY <1>4, EntriesKept
<1> QED
  BY <1>1, <1>2, <1>3, <1>4
     DEF Next, Work, Flag, MarkPlayed, SetFavorite, DeleteUser, Publish, Associate, Hint, CommitRemoval,
         RemoveServer, vars, watchVars

LEMMA TrackerStarts == Init => TrackerOK(tracker)
<1> SUFFICES ASSUME Init PROVE TrackerOK(tracker)
  OBVIOUS
<1>1. tracker = <<>>
  BY DEF Init
<1> QED
  BY <1>1, WatchBounds DEF TrackerOK, Distinct

LEMMA StepKeepsTracker == RowInv /\ TrackerOK(tracker) /\ [Next]_vars => TrackerOK(tracker)'
BY StepTracks DEF TrackerOK, Distinct

\* Which tracked sessions a step may replace.
Stays(u, v) ==
  Tracked(u, v) /\ Len(tracker) < MaxWatchEntries /\ Tracked(u, v)' =>
     \/ SessionOf(u, v)' = SessionOf(u, v)
     \/ \E h \in Handlers : At(h, "register") /\ handler[h].session = SessionOf(u, v)'

LEMMA StepsStay ==
  RowInv /\ TrackerOK(tracker) /\ [Next]_vars =>
    \A u \in Users, v \in VIDs : Stays(u, v)
<1> USE DEF Stays
<1>1. ASSUME RowInv, TrackerOK(tracker), [Next]_vars, NEW u \in Users, NEW v \in VIDs PROVE Stays(u, v)
  <2> SUFFICES ASSUME Tracked(u, v), Len(tracker) < MaxWatchEntries, Tracked(u, v)'
               PROVE  \/ SessionOf(u, v)' = SessionOf(u, v)
                      \/ \E h \in Handlers : At(h, "register") /\ handler[h].session = SessionOf(u, v)'
    OBVIOUS
  <2>1. PICK n : n = tracker'
    OBVIOUS
  <2>2. TrackerOK(n) /\ Keeps(tracker, n)
    BY <1>1, <2>1, StepTracks
  <2>3. PICK i \in DOMAIN n : n[i].user = u /\ n[i].item = v
    BY <2>1 DEF Tracked, Holds
  <2>4. SessionOf(u, v)' = n[i].session
    <3>1. EntryOf(n, u, v) = i
      BY <2>2, <2>3, EntryFound
    <3>2. SessionOf(u, v)' = n[EntryOf(n, u, v)].session
      BY <2>1 DEF SessionOf, Tracked, Holds, EntryOf
    <3> QED
      BY <3>1, <3>2
  <2>5. CASE \E k \in DOMAIN tracker : n[i] = tracker[k]
    <3>1. PICK k \in DOMAIN tracker : n[i] = tracker[k]
      BY <2>5
    <3>2. SessionOf(u, v) = n[i].session
      BY <1>1, <2>3, <3>1, EntryFound DEF SessionOf
    <3> QED
      BY <2>4, <3>2
  <2>6. CASE \E h \in Handlers : At(h, "register") /\ handler[h].session = n[i].session
    BY <2>4, <2>6
  <2> QED
    BY <2>2, <2>3, <2>5, <2>6 DEF Keeps, Tracked
<1> QED
  BY <1>1

(* A report of an earlier session that arrives after the next one started  *)
(* does not take the tracker over: while it has room, only the start of    *)
(* another session replaces a tracked one (AcceptEvent, StartSession).     *)
THEOREM LateReportsReplaceNothing == WatchSpec => OnlyStartsReplaceSessions
<1>2. RowInv /\ TrackerOK(tracker) /\ [Next]_vars => [\A u \in Users, v \in VIDs : Stays(u, v)]_vars
  BY StepsStay
<1>3. Init => IDInv /\ RowInv
  BY InitIDs, NoRowTyped DEF Init, RowInv
<1>4. OnlyStartsReplaceSessions <=> [][\A u \in Users, v \in VIDs : Stays(u, v)]_vars
  BY DEF OnlyStartsReplaceSessions, Stays
<1> QED
  BY <1>2, <1>3, <1>4, TrackerStarts, StepKeepsIds, StepKeepsRows, StepKeepsTracker, PTL DEF WatchSpec

(* Ids, rows, tracker and handlers keep their types, and the tracker its   *)
(* capacity and one entry for each user and item.                          *)
THEOREM WatchTypesCorrect == WatchSpec => []TypeOK
<1>1. Init => IDInv /\ RowInv /\ TrackerOK(tracker) /\ live \subseteq Servers /\ unsaved \in BOOLEAN
  BY InitIDs, NoRowTyped, TrackerStarts DEF Init, RowInv
<1>2. live \subseteq Servers /\ unsaved \in BOOLEAN /\ [Next]_vars => (live \subseteq Servers /\ unsaved \in BOOLEAN)'
  <2> SUFFICES ASSUME live \subseteq Servers, unsaved \in BOOLEAN, [Next]_vars
               PROVE  live' \subseteq Servers /\ unsaved' \in BOOLEAN
    OBVIOUS
  <2>1. CASE \E h \in Handlers : Report(h)
    BY <2>1 DEF Report, Arrive, Forwarded, Verdict, Read, Accept, Enrich, Write, Register
  <2> QED
    BY <2>1 DEF Next, Work, Flag, MarkPlayed, SetFavorite, DeleteUser, Publish, Associate, Hint, CommitRemoval,
                RemoveServer, ExpireSession, Restart, vars, watchVars
<1>3. IDInv /\ RowInv /\ TrackerOK(tracker) /\ live \subseteq Servers /\ unsaved \in BOOLEAN => TypeOK
  <2> SUFFICES ASSUME IDInv, RowInv, TrackerOK(tracker), live \subseteq Servers, unsaved \in BOOLEAN PROVE TypeOK
    OBVIOUS
  <2>1. \A i \in DOMAIN tracker : tracker[i] \in Entry
    BY DEF TrackerOK
  <2> QED
    BY <2>1 DEF IDInv, StoreSound, RowInv, TrackerOK, Distinct, TypeOK, Entry, Event
<1> QED
  BY <1>1, <1>2, <1>3, StepKeepsIds, StepKeepsRows, StepKeepsTracker, PTL DEF WatchSpec

-----------------------------------------------------------------------------
(* Listings by the user's own state.                                        *)

Busy == listing.step \in {"fetch", "merge"}
Records == [step : {"idle", "fetch", "merge", "filter", "overlay", "done"},
            user : Users \union {None}, filter : Filters \union {{}},
            named : VIDs \union {None}, asked : SUBSET Servers, due : SUBSET Pairs,
            got : SUBSET Pairs, budget : 0 .. RequestBudget, marked : BOOLEAN,
            from : [VIDs -> Pairs \union {None}], shown : SUBSET VIDs, unread : BOOLEAN,
            owed : SUBSET Pairs, steady : SUBSET VIDs, missed : SUBSET VIDs]

\* What is asked for, and owed, is on a server that was asked; nothing is due in a merge.
Askings ==
  /\ \A p \in listing.due \union listing.got \union listing.owed : ServerOf(p) \in listing.asked
  /\ listing.step = "merge" => listing.due = {}
  /\ Busy => listing.missed = {} /\ listing.filter \in Filters
  /\ listing.step = "idle" => listing.missed = {}
\* The steady ids match.
SteadyMatch ==
  Busy => \A u \in {listing.user}, f \in {listing.filter}, v \in listing.steady : Satisfies(u, v, f)
\* Until something marks the listing, what is owed is still to be asked for, or merged, or
\* listed; and what is listed is an item of a server that was asked.
OwedIsComing ==
  Busy /\ ~listing.marked /\ listing.asked \subseteq live =>
    /\ \A p \in listing.owed : \/ p \in listing.due \union listing.got
                               \/ \E w \in Listed : p \in Copies(w)
    /\ \A w \in Listed : \E q \in Copies(w) : ServerOf(q) \in listing.asked
ListInv == StoreSound /\ listing \in Records /\ Askings /\ SteadyMatch /\ OwedIsComing
           /\ UnmarkedListingIsWhole

LEMMA AliasIsClosed ==
  ASSUME NEW v \in VIDs
  PROVE  /\ v \in AliasVirtualIDs(v) /\ AliasVirtualIDs(v) \subseteq VIDs
         /\ \A w \in AliasVirtualIDs(v), x \in VIDs : Share(w, x) => x \in AliasVirtualIDs(v)
BY DEF AliasVirtualIDs

LEMMA AliasIsWithin ==
  ASSUME NEW v \in VIDs, NEW w \in AliasVirtualIDs(v)
  PROVE  AliasVirtualIDs(w) \subseteq AliasVirtualIDs(v)
BY DEF AliasVirtualIDs

LEMMA AliasIsMutual ==
  ASSUME NEW v \in VIDs, NEW w \in AliasVirtualIDs(v)
  PROVE  v \in AliasVirtualIDs(w)
<1>1. w \in VIDs
  BY DEF AliasVirtualIDs
<1>2. SUFFICES ASSUME NEW S \in SUBSET VIDs, w \in S, v \notin S,
                      \A x \in S, y \in VIDs : Share(x, y) => y \in S
               PROVE  FALSE
  BY DEF AliasVirtualIDs
<1>3. PICK T \in SUBSET VIDs : T = VIDs \ S
  OBVIOUS
<1>4. \A x \in T, y \in VIDs : Share(x, y) => y \in T
  <2>1. \A x, y : Share(x, y) => Share(y, x)
    BY DEF Share
  <2>2. QED
    BY <1>2, <1>3, <2>1
<1>5. w \in T
  BY <1>2, <1>3, <1>4 DEF AliasVirtualIDs
<1>6. QED
  BY <1>2, <1>3, <1>5

\* The aliases of an item are the aliases of each of its aliases, and match together.
LEMMA AliasesAgree ==
  ASSUME NEW v \in VIDs, NEW w \in AliasVirtualIDs(v)
  PROVE  /\ AliasVirtualIDs(w) = AliasVirtualIDs(v)
         /\ \A u, f : Satisfies(u, v, f) => Satisfies(u, w, f)
<1>1. w \in VIDs
  BY AliasIsClosed
<1>2. v \in AliasVirtualIDs(w)
  BY AliasIsMutual
<1>3. AliasVirtualIDs(w) = AliasVirtualIDs(v)
  BY <1>1, <1>2, AliasIsWithin
<1>4. \A u : Window(u, w) = Window(u, v)
  BY <1>3 DEF Window
<1>5. QED
  BY <1>3, <1>4 DEF Satisfies

\* The narrow selection of rows misses no item that matches, under any of its ids.
LEMMA MatchingIsWhole ==
  ASSUME NEW u, NEW f \in Filters, NEW v \in VIDs, Satisfies(u, v, f)
  PROVE  AliasVirtualIDs(v) \subseteq Matching(u, f)
<1>1. \E r \in Window(u, v) : IF "favorite" \in f THEN r.fav
                              ELSE IF "resumable" \in f THEN r.pos > 0 /\ ~r.played
                              ELSE r.played
  <2>1. CASE "favorite" \in f
    BY <2>1 DEF Satisfies
  <2>2. CASE "favorite" \notin f /\ "resumable" \in f
    BY <2>2 DEF Satisfies
  <2>3. CASE "favorite" \notin f /\ "resumable" \notin f
    <3>1. "played" \in f
      BY <2>3 DEF Filters
    <3>2. QED
      BY <2>3, <3>1 DEF Satisfies
  <2>4. QED
    BY <2>1, <2>2, <2>3
<1>2. PICK w \in AliasVirtualIDs(v) :
         IF "favorite" \in f THEN rows[u][w].fav
         ELSE IF "resumable" \in f THEN rows[u][w].pos > 0 /\ ~rows[u][w].played
         ELSE rows[u][w].played
  BY <1>1 DEF Window
<1>3. w \in VIDs
  BY AliasIsClosed
<1>4. w \in Selected(u, f)
  BY <1>2, <1>3 DEF Selected
<1>5. Satisfies(u, w, f) /\ AliasVirtualIDs(w) = AliasVirtualIDs(v)
  BY AliasesAgree
<1>6. QED
  BY <1>3, <1>4, <1>5 DEF Matching

LEMMA SharedCopyIsAlias ==
  ASSUME NEW v \in VIDs, NEW w \in VIDs, NEW p, p \in Copies(v), p \in Copies(w)
  PROVE  w \in AliasVirtualIDs(v)
BY AliasIsClosed DEF Share

LEMMA UnchangedMatches ==
  UNCHANGED vars => \A u, v, f : Satisfies(u, v, f)' <=> Satisfies(u, v, f)
BY DEF vars, idVars, watchVars, Satisfies, Window, AliasVirtualIDs, Share, Copies, CopiesBy

LEMMA UnchangedCopies == UNCHANGED vars => \A v : Copies(v)' = Copies(v)
BY DEF vars, idVars, watchVars, Copies, CopiesBy

\* What goes on meanwhile takes no copy away from a configured server.
LEMMA WorkKeepsCopies ==
  ASSUME StoreSound, Work, NEW v \in VIDs, NEW p \in Copies(v), ServerOf(p) \in live
  PROVE  p \in Copies(v)'
<1>1. CASE UNCHANGED idVars
  BY <1>1 DEF idVars, Copies, CopiesBy
<1>2. CASE \E w \in VIDs, q \in Pairs : Publish(w, q)
  <2>1. PICK w \in VIDs, q \in Pairs, saved \in BOOLEAN : GetOrCreateVirtualID(w, q, saved)
    BY <1>2 DEF Publish
  <2>2. v # w
    BY <2>1 DEF GetOrCreateVirtualID, Copies, CopiesBy
  <2>3. QED
    BY <2>1, <2>2 DEF GetOrCreateVirtualID, Copies, CopiesBy, StoreSound, IDTypeOK
<1>3. CASE \E w \in VIDs, q \in Pairs : Associate(w, q)
  <2>1. PICK w \in VIDs, q \in Pairs, saved \in BOOLEAN : AssociateAdditionalInstance(w, q, saved)
    BY <1>3 DEF Associate
  <2>2. QED
    BY <2>1 DEF AssociateAdditionalInstance, Copies, CopiesBy, StoreSound, IDTypeOK
<1>4. CASE \E s \in Servers : RemoveServer(s)
  <2>1. PICK s \in Servers : s \notin live /\ RemoveByServerID(s)
    BY <1>4 DEF RemoveServer
  <2>2. p \in Survivors(v, s)
    BY <2>1 DEF Survivors
  <2>3. QED
    BY <2>1, <2>2, RemovedCopies DEF Copies
<1>5. CASE \E w \in VIDs : Hint(w)
  BY <1>5 DEF Hint, SetActiveStream, EvictExpiredStreamState, SetSource, Copies, CopiesBy
<1>6. CASE \/ \E h \in Handlers : Report(h)
           \/ \E u \in Users, w \in VIDs : Flag(u, w)
           \/ \E u \in Users : DeleteUser(u)
           \/ \E s \in Servers : CommitRemoval(s)
           \/ ExpireSession
  <2>1. UNCHANGED idVars
    BY <1>6, ReportLeavesIds DEF Flag, MarkPlayed, SetFavorite, DeleteUser, CommitRemoval, ExpireSession
  <2>2. QED
    BY <1>1, <2>1
<1>7. QED
  BY <1>2, <1>3, <1>4, <1>5, <1>6 DEF Work

LEMMA WorkKeepsServers == Work => live' \subseteq live
<1>1. ASSUME Work PROVE live' \subseteq live
  <2>1. CASE \E h \in Handlers : Report(h)
    BY <2>1, ReportLeavesIds
  <2>2. CASE \E u \in Users, w \in VIDs : Flag(u, w)
    BY <2>2 DEF Flag, MarkPlayed, SetFavorite
  <2>3. CASE \E w \in VIDs : Hint(w)
    BY <2>3 DEF Hint, watchVars
  <2>4. CASE \E s \in Servers : CommitRemoval(s)
    BY <2>4 DEF CommitRemoval
  <2>5. QED
    BY <1>1, <2>1, <2>2, <2>3, <2>4 DEF Work, DeleteUser, Publish, Associate, RemoveServer, ExpireSession
<1>2. QED
  BY <1>1

LEMMA ListingStarts == ListingInit => ListInv
<1> SUFFICES ASSUME ListingInit PROVE ListInv
  OBVIOUS
<1>1. StoreSound
  BY InitIDs DEF ListingInit, Init, IDInv
<1>2. listing \in Records
  BY ListingBounds DEF ListingInit, Unasked, Records
<1>3. QED
  BY <1>1, <1>2 DEF ListingInit, Unasked, ListInv, Askings, SteadyMatch, OwedIsComing, Busy,
                    UnmarkedListingIsWhole

LEMMA BeginKeeps ==
  ASSUME ListInv, NEW u \in Users, NEW f \in Filters, NEW named \in VIDs \union {None},
         NEW servers \in SUBSET Servers, Begin(u, f, named, servers)
  PROVE  ListInv'
<1>1. UNCHANGED vars /\ servers \subseteq live /\ StoreSound
  BY DEF Begin, ListInv
<1>2. PICK owed : owed = {p \in Pairs : /\ ServerOf(p) \in servers /\ Named(p, named)
                                        /\ \E v \in VIDs : p \in Copies(v) /\ Satisfies(u, v, f)}
  OBVIOUS
<1>3. PICK steady : steady = {v \in VIDs : Satisfies(u, v, f)}
  OBVIOUS
<1>4. PICK asked : asked = {p \in Targets(Matching(u, f), servers) : Named(p, named)}
  OBVIOUS
<1>a. PICK readable \in BOOLEAN :
       listing' = [Unasked EXCEPT
         !.step = "fetch", !.user = u, !.filter = f, !.named = named, !.asked = servers,
         !.budget = RequestBudget,
         !.due = IF readable THEN asked ELSE {},
         !.marked = ~readable \/ Unresolved(Matching(u, f), servers),
         !.owed = owed, !.steady = steady]
  BY <1>2, <1>3, <1>4 DEF Begin
<1>b. PICK due : due = IF readable THEN asked ELSE {}
  OBVIOUS
<1>c. PICK marked \in BOOLEAN : marked = (~readable \/ Unresolved(Matching(u, f), servers))
  BY DEF Unresolved
<1>d. due = asked \/ (due = {} /\ marked)
  BY <1>b, <1>c
<1>e. listing' = [Unasked EXCEPT
        !.step = "fetch", !.user = u, !.filter = f, !.named = named, !.asked = servers,
        !.budget = RequestBudget, !.due = due, !.marked = marked,
        !.owed = owed, !.steady = steady]
  BY <1>a, <1>b, <1>c
<1>5. (due = asked \/ (due = {} /\ marked)) /\ marked \in BOOLEAN
  BY <1>d
<1>6. \A v \in VIDs : Copies(v) \subseteq Pairs
  BY DEF ListInv, StoreSound, IDTypeOK, Copies, CopiesBy
<1>7. \A v \in Matching(u, f) : v \in VIDs
  BY AliasIsClosed DEF Matching, Selected
<1>8. asked \in SUBSET Pairs /\ \A p \in asked : ServerOf(p) \in servers
  BY <1>4, <1>6, <1>7 DEF Targets
<1>9. owed \subseteq asked
  <2>1. SUFFICES ASSUME NEW p \in owed PROVE p \in asked
    OBVIOUS
  <2>2. PICK v \in VIDs : p \in Copies(v) /\ Satisfies(u, v, f)
    BY <1>2
  <2>3. v \in Matching(u, f)
    BY <2>2, MatchingIsWhole, AliasIsClosed
  <2>4. QED
    BY <1>2, <1>4, <2>2, <2>3 DEF Targets
<1>10. /\ listing'.step = "fetch" /\ listing'.user = u /\ listing'.filter = f
       /\ listing'.named = named /\ listing'.asked = servers /\ listing'.due = due
       /\ listing'.got = {} /\ listing'.budget = RequestBudget /\ listing'.marked = marked
       /\ listing'.from = [v \in VIDs |-> None] /\ listing'.shown = {} /\ listing'.unread = FALSE
       /\ listing'.owed = owed /\ listing'.steady = steady /\ listing'.missed = {}
  BY <1>e DEF Unasked
<1>11. listing' \in Records
  <2>1. due \in SUBSET Pairs /\ owed \in SUBSET Pairs /\ steady \in SUBSET VIDs
    BY <1>2, <1>3, <1>5, <1>8
  <2>2. listing' = [step |-> "fetch", user |-> u, filter |-> f, named |-> named,
                    asked |-> servers, due |-> due, got |-> {}, budget |-> RequestBudget,
                    marked |-> marked, from |-> [v \in VIDs |-> None], shown |-> {},
                    unread |-> FALSE, owed |-> owed, steady |-> steady, missed |-> {}]
    BY <1>e DEF Unasked
  <2>3. RequestBudget \in 0 .. RequestBudget
    BY ListingBounds
  <2>4. [v \in VIDs |-> None] \in [VIDs -> Pairs \union {None}]
    OBVIOUS
  <2>5. QED
    BY <1>5, <2>1, <2>2, <2>3, <2>4 DEF Records
<1>12. StoreSound'
  BY <1>1, UnchangedKeeps DEF vars, watchVars
<1>13. Askings'
  BY <1>2, <1>5, <1>8, <1>10 DEF Askings, Busy
<1>14. SteadyMatch'
  BY <1>1, <1>3, <1>10, UnchangedMatches DEF SteadyMatch, Busy
<1>15. OwedIsComing'
  BY <1>5, <1>9, <1>10 DEF OwedIsComing, Busy, Listed
<1>16. UnmarkedListingIsWhole'
  BY <1>10 DEF UnmarkedListingIsWhole
<1>17. QED
  BY <1>11, <1>12, <1>13, <1>14, <1>15, <1>16 DEF ListInv

\* Steps that fetch change neither the ids nor the rows; nothing that is owed gets lost
\* unless the listing is marked.
LEMMA FetchKeeps ==
  ASSUME ListInv, UNCHANGED vars, listing' \in Records,
         listing.step = "fetch", listing'.step \in {"fetch", "merge"},
         listing'.step = "merge" => listing'.due = {},
         UNCHANGED <<listing.user, listing.filter, listing.asked, listing.from,
                     listing.steady, listing.missed>>,
         listing'.due \subseteq listing.due, listing'.owed \subseteq listing.owed,
         listing'.got \subseteq listing.got \union listing.due,
         ~listing'.marked => /\ ~listing.marked
                             /\ \A p \in listing'.owed :
                                  p \in listing.due \union listing.got =>
                                    p \in listing'.due \union listing'.got
  PROVE  ListInv'
<1>1. StoreSound'
  BY UnchangedKeeps DEF ListInv, vars, watchVars
<1>2. Askings'
  BY DEF ListInv, Askings, Busy
<1>3. SteadyMatch'
  BY UnchangedMatches DEF ListInv, SteadyMatch, Busy
<1>4. OwedIsComing'
  BY UnchangedCopies DEF ListInv, OwedIsComing, Busy, Listed, vars, watchVars
<1>5. UnmarkedListingIsWhole'
  BY DEF ListInv, Askings, Busy, UnmarkedListingIsWhole
<1>6. QED
  BY <1>1, <1>2, <1>3, <1>4, <1>5 DEF ListInv

LEMMA BatchAnsweredKeeps ==
  ASSUME ListInv, NEW s \in Servers, BatchAnswered(s)
  PROVE  ListInv'
<1>1. PICK batch : batch = FirstOf(DueOn(s))
  OBVIOUS
<1>2. PICK found \in SUBSET batch, strange \in BOOLEAN :
       listing' = [listing EXCEPT
         !.budget = @ - 1, !.due = @ \ batch, !.got = @ \union found,
         !.owed = @ \ (batch \ found), !.marked = @ \/ strange]
  BY <1>1 DEF BatchAnswered
<1>3. batch \subseteq listing.due
  BY <1>1 DEF FirstOf, DueOn
<1>4. listing \in Records /\ listing.budget > 0 /\ listing.step = "fetch" /\ UNCHANGED vars
  BY DEF BatchAnswered, ListInv
<1>5. PICK due \in SUBSET Pairs : due = listing.due \ batch
  BY <1>4 DEF Records
<1>6. PICK got \in SUBSET Pairs : got = listing.got \union found
  BY <1>3, <1>4 DEF Records
<1>7. PICK owed \in SUBSET Pairs : owed = listing.owed \ (batch \ found)
  BY <1>4 DEF Records
<1>8. PICK marked \in BOOLEAN : marked = (listing.marked \/ strange)
  BY <1>4 DEF Records
<1>9. PICK budget \in 0 .. RequestBudget : budget = listing.budget - 1
  BY <1>4, ListingBounds DEF Records
<1>10. listing' = [listing EXCEPT !.budget = budget, !.due = due, !.got = got, !.owed = owed,
                                  !.marked = marked]
  BY <1>2, <1>5, <1>6, <1>7, <1>8, <1>9
<1>11. listing' \in Records
  BY <1>4, <1>10 DEF Records
<1>12. /\ listing'.step = "fetch" /\ listing'.due = due /\ listing'.got = got
       /\ listing'.owed = owed /\ listing'.marked = marked
       /\ UNCHANGED <<listing.user, listing.filter, listing.asked, listing.from,
                      listing.steady, listing.missed>>
  BY <1>4, <1>10 DEF Records
<1>13. \A p \in owed : p \in listing.due \union listing.got => p \in due \union got
  BY <1>5, <1>6, <1>7
<1>14. due \subseteq listing.due /\ got \subseteq listing.got \union listing.due
       /\ owed \subseteq listing.owed /\ (~marked => ~listing.marked)
  BY <1>3, <1>5, <1>6, <1>7, <1>8
<1>15. QED
  BY <1>4, <1>11, <1>12, <1>13, <1>14, FetchKeeps

LEMMA LeftOutKeeps ==
  ASSUME ListInv, NEW s \in Servers, BatchUnsent(s) \/ Stops(s)
  PROVE  ListInv'
<1>1. PICK gone : /\ listing' = [listing EXCEPT !.due = @ \ gone, !.marked = TRUE]
                  /\ listing.step = "fetch" /\ UNCHANGED vars
  BY DEF BatchUnsent, Stops
<1>2. listing \in Records
  BY DEF ListInv
<1>3. PICK due \in SUBSET Pairs : due = listing.due \ gone
  BY <1>2 DEF Records
<1>4. listing' = [listing EXCEPT !.due = due, !.marked = TRUE]
  BY <1>1, <1>3
<1>5. listing' \in Records
  BY <1>2, <1>4 DEF Records
<1>6. /\ listing'.step = "fetch" /\ listing'.due = due /\ listing'.got = listing.got
      /\ listing'.owed = listing.owed /\ listing'.marked = TRUE
      /\ UNCHANGED <<listing.user, listing.filter, listing.asked, listing.from,
                     listing.steady, listing.missed>>
  BY <1>1, <1>2, <1>4 DEF Records
<1>7. QED
  BY <1>1, <1>3, <1>5, <1>6, FetchKeeps

LEMMA CollectedKeeps ==
  ASSUME ListInv, Collected
  PROVE  ListInv'
<1>1. PICK late \in SUBSET listing.asked :
        /\ \A s \in listing.asked : DueOn(s) # {} => s \in late
        /\ listing' = [listing EXCEPT
             !.step = "merge", !.due = {}, !.marked = @ \/ late # {},
             !.got = {p \in @ : ServerOf(p) \notin late}]
        /\ listing.step = "fetch" /\ UNCHANGED vars
  BY DEF Collected
<1>2. listing \in Records
  BY DEF ListInv
<1>3. PICK got \in SUBSET Pairs : got = {p \in listing.got : ServerOf(p) \notin late}
  BY <1>2 DEF Records
<1>4. PICK marked \in BOOLEAN : marked = (listing.marked \/ late # {})
  BY <1>2 DEF Records
<1>5. listing' = [listing EXCEPT !.step = "merge", !.due = {}, !.marked = marked, !.got = got]
  BY <1>1, <1>3, <1>4
<1>6. listing' \in Records
  BY <1>2, <1>5 DEF Records
<1>7. /\ listing'.step = "merge" /\ listing'.due = {} /\ listing'.got = got
      /\ listing'.owed = listing.owed /\ listing'.marked = marked
      /\ UNCHANGED <<listing.user, listing.filter, listing.asked, listing.from,
                     listing.steady, listing.missed>>
  BY <1>1, <1>2, <1>5 DEF Records
<1>8. ~marked => got = listing.got /\ listing.due = {}
  <2>1. ASSUME late = {} PROVE listing.due = {}
    <3>1. \A p \in listing.due : ServerOf(p) \in listing.asked
      BY DEF ListInv, Askings
    <3>2. QED
      BY <1>1, <2>1, <3>1 DEF DueOn
  <2>2. QED
    BY <1>3, <1>4, <2>1
<1>9. ~marked => ~listing.marked
  BY <1>4
<1>10. got \subseteq listing.got
  BY <1>3
<1>11. QED
  BY <1>1, <1>6, <1>7, <1>8, <1>9, <1>10, FetchKeeps

\* An id is steady only as long as it matches.
LEMMA SteadilyIs ==
  ASSUME NEW next \in Records, Steadily(next), next.user = listing.user, next.filter = listing.filter
  PROVE  /\ listing' \in Records /\ listing'.steady \subseteq next.steady
         /\ \A u \in {listing'.user}, f \in {listing'.filter}, v \in listing'.steady : Satisfies(u, v, f)'
         /\ listing'.step = next.step /\ listing'.user = next.user /\ listing'.filter = next.filter
         /\ listing'.asked = next.asked /\ listing'.due = next.due /\ listing'.got = next.got
         /\ listing'.marked = next.marked /\ listing'.from = next.from
         /\ listing'.unread = next.unread /\ listing'.owed = next.owed /\ listing'.missed = next.missed
<1>1. PICK u \in {listing.user}, f \in {listing.filter} :
         listing' = [next EXCEPT !.steady = {v \in @ : Satisfies(u, v, f)'}]
  BY DEF Steadily
<1>2. PICK steady : steady = {v \in next.steady : Satisfies(u, v, f)'}
  OBVIOUS
<1>3. steady \in SUBSET VIDs
  BY <1>2 DEF Records
<1>4. listing' = [next EXCEPT !.steady = steady]
  BY <1>1, <1>2
<1>5. listing' \in Records
  BY <1>3, <1>4 DEF Records
<1>6. /\ listing'.steady = steady
      /\ listing'.step = next.step /\ listing'.user = next.user /\ listing'.filter = next.filter
      /\ listing'.asked = next.asked /\ listing'.due = next.due /\ listing'.got = next.got
      /\ listing'.marked = next.marked /\ listing'.from = next.from
      /\ listing'.unread = next.unread /\ listing'.owed = next.owed /\ listing'.missed = next.missed
  BY <1>4 DEF Records
<1>7. \A v \in steady : Satisfies(u, v, f)'
  BY <1>2
<1>8. listing'.user = u /\ listing'.filter = f
  BY <1>1, <1>6
<1>9. \A u_ \in {listing'.user}, f_ \in {listing'.filter}, v \in listing'.steady : Satisfies(u_, v, f_)'
  BY <1>6, <1>7, <1>8
<1>10. QED
  BY <1>2, <1>5, <1>6, <1>9

LEMMA MeanwhileKeeps ==
  ASSUME ListInv, Meanwhile
  PROVE  ListInv'
<1>1. Work /\ Steadily(listing) /\ listing \in Records /\ StoreSound /\ live' \subseteq live
  BY WorkKeepsServers DEF Meanwhile, ListInv
<1>2. /\ listing' \in Records /\ listing'.steady \subseteq listing.steady
      /\ \A u \in {listing'.user}, f \in {listing'.filter}, v \in listing'.steady : Satisfies(u, v, f)'
      /\ UNCHANGED <<listing.step, listing.user, listing.filter, listing.asked, listing.due,
                     listing.got, listing.marked, listing.from, listing.unread, listing.owed,
                     listing.missed>>
  BY <1>1, SteadilyIs
<1>3. StoreSound'
  BY <1>1, StepKeepsStore DEF Next
<1>4. Askings'
  BY <1>2 DEF ListInv, Askings, Busy
<1>5. SteadyMatch'
  BY <1>2 DEF SteadyMatch
<1>6. OwedIsComing'
  <2>1. SUFFICES ASSUME Busy, ~listing.marked, listing.asked \subseteq live, listing.asked \subseteq live'
                 PROVE  /\ \A p \in listing.owed : \/ p \in listing.due \union listing.got
                                                   \/ \E w \in Listed : p \in Copies(w)'
                        /\ \A w \in Listed : \E q \in Copies(w)' : ServerOf(q) \in listing.asked
    BY <1>1, <1>2 DEF OwedIsComing, Busy, Listed
  <2>2. /\ \A p \in listing.owed : \/ p \in listing.due \union listing.got
                                   \/ \E w \in Listed : p \in Copies(w)
        /\ \A w \in Listed : \E q \in Copies(w) : ServerOf(q) \in listing.asked
    BY <2>1 DEF ListInv, OwedIsComing
  <2>3. \A w \in Listed : \A q \in Copies(w) : ServerOf(q) \in listing.asked => q \in Copies(w)'
    BY <1>1, <2>1, WorkKeepsCopies DEF Listed
  <2>4. \A p \in listing.owed : ServerOf(p) \in listing.asked
    BY DEF ListInv, Askings
  <2>5. QED
    BY <2>2, <2>3, <2>4
<1>7. UnmarkedListingIsWhole'
  BY <1>1, <1>2 DEF ListInv, UnmarkedListingIsWhole
<1>8. QED
  BY <1>2, <1>3, <1>4, <1>5, <1>6, <1>7 DEF ListInv

\* The merge of an item: under an id that has it as a copy, at least while no server that
\* was asked is removed.
LEMMA MergedKeeps ==
  ASSUME ListInv, StoreSound', UNCHANGED live, listing.step = "merge",
         \A w \in VIDs : Copies(w) \subseteq Copies(w)',
         NEW p \in listing.got, NEW v \in VIDs, NEW shown \in Pairs, Merged(p, v, shown),
         ~listing.marked /\ listing.asked \subseteq live => p \in Copies(v)'
  PROVE  ListInv'
<1>1. listing \in Records
  BY DEF ListInv
<1>2. PICK next : next = [listing EXCEPT !.got = @ \ {p}, !.from[v] = shown]
  OBVIOUS
<1>3. PICK got \in SUBSET Pairs : got = listing.got \ {p}
  BY <1>1 DEF Records
<1>4. PICK from : from = [listing.from EXCEPT ![v] = shown]
  OBVIOUS
<1>5. from \in [VIDs -> Pairs \union {None}] /\ from[v] = shown
      /\ \A w \in VIDs : w # v => from[w] = listing.from[w]
  BY <1>1, <1>4 DEF Records
<1>6. next = [listing EXCEPT !.got = got, !.from = from]
  BY <1>1, <1>2, <1>3, <1>4 DEF Records
<1>7. next \in Records
  BY <1>1, <1>5, <1>6 DEF Records
<1>8. /\ next.got = got /\ next.from = from
      /\ next.step = listing.step /\ next.user = listing.user /\ next.filter = listing.filter
      /\ next.asked = listing.asked /\ next.due = listing.due
      /\ next.marked = listing.marked /\ next.unread = listing.unread
      /\ next.owed = listing.owed /\ next.missed = listing.missed
  BY <1>1, <1>6 DEF Records
<1>9. Steadily(next)
  BY <1>2 DEF Merged
<1>10. /\ listing' \in Records
       /\ \A u \in {listing'.user}, f \in {listing'.filter}, w \in listing'.steady : Satisfies(u, w, f)'
       /\ listing'.got = got /\ listing'.from = from
       /\ UNCHANGED <<listing.step, listing.user, listing.filter, listing.asked, listing.due,
                      listing.marked, listing.unread, listing.owed, listing.missed>>
  BY <1>7, <1>8, <1>9, SteadilyIs
<1>11. Listed' = Listed \union {v}
  BY <1>5, <1>10, NoneIsNothing DEF Listed
<1>12. Askings'
  BY <1>3, <1>10 DEF ListInv, Askings, Busy
<1>13. SteadyMatch'
  BY <1>10 DEF SteadyMatch
<1>14. OwedIsComing'
  <2>1. SUFFICES ASSUME ~listing.marked, listing.asked \subseteq live
                 PROVE  /\ \A q \in listing.owed : \/ q \in listing.due \union got
                                                   \/ \E w \in Listed \union {v} : q \in Copies(w)'
                        /\ \A w \in Listed \union {v} : \E q \in Copies(w)' : ServerOf(q) \in listing.asked
    BY <1>10, <1>11 DEF OwedIsComing
  <2>2. /\ \A q \in listing.owed : \/ q \in listing.due \union listing.got
                                   \/ \E w \in Listed : q \in Copies(w)
        /\ \A w \in Listed : \E q \in Copies(w) : ServerOf(q) \in listing.asked
    BY <2>1 DEF ListInv, OwedIsComing, Busy
  <2>3. \A w \in Listed : Copies(w) \subseteq Copies(w)'
    BY DEF Listed
  <2>4. p \in Copies(v)' /\ ServerOf(p) \in listing.asked
    BY <2>1 DEF ListInv, Askings
  <2>5. QED
    BY <1>3, <2>2, <2>3, <2>4
<1>15. UnmarkedListingIsWhole'
  BY <1>10 DEF ListInv, Askings, Busy, UnmarkedListingIsWhole
<1>16. QED
  BY <1>10, <1>12, <1>13, <1>14, <1>15 DEF ListInv

LEMMA MergeFirstKeeps ==
  ASSUME ListInv, NEW p \in Pairs, MergeFirst(p)
  PROVE  ListInv'
<1>1. StoreSound /\ listing \in Records /\ listing.step = "merge" /\ p \in listing.got /\ p # None
  BY NoneIsNothing DEF ListInv, MergeFirst
<1>2. CASE index[p] # None
  <2>1. UNCHANGED vars /\ Merged(p, index[p], p)
    BY <1>2 DEF MergeFirst
  <2>2. index[p] \in VIDs /\ p \in Copies(index[p])
    BY <1>1, <1>2 DEF StoreSound, IDTypeOK, IndexExact, HoldersIn, Copies
  <2>3. \A w \in VIDs : Copies(w)' = Copies(w)
    BY <2>1, UnchangedCopies
  <2>4. StoreSound' /\ UNCHANGED live
    BY <1>1, <2>1, UnchangedKeeps DEF vars, watchVars
  <2>5. PICK v \in VIDs : v = index[p]
    BY <2>2
  <2>6. p \in Copies(v)' /\ Merged(p, v, p)
    BY <2>1, <2>2, <2>3, <2>5
  <2>7. QED
    BY <1>1, <2>3, <2>4, <2>6, MergedKeeps
<1>3. CASE index[p] = None
  <2>1. PICK v \in VIDs : Publish(v, p) /\ Merged(p, v, p)
    BY <1>3 DEF MergeFirst
  <2>2. PICK saved \in BOOLEAN : GetOrCreateVirtualID(v, p, saved) /\ UNCHANGED live
    BY <2>1 DEF Publish
  <2>3. StoreSound'
    BY <1>1, <2>2, CreateKeeps
  <2>4. \A w \in VIDs : Copies(w) \subseteq Copies(w)'
    BY <1>1, <2>2 DEF GetOrCreateVirtualID, Copies, CopiesBy, StoreSound, IDTypeOK
  <2>5. p \in Copies(v)'
    BY <1>1, <2>2 DEF GetOrCreateVirtualID, Copies, CopiesBy, StoreSound, IDTypeOK
  <2>6. QED
    BY <1>1, <2>1, <2>2, <2>3, <2>4, <2>5, MergedKeeps
<1>4. QED
  BY <1>2, <1>3

LEMMA MergeDuplicateKeeps ==
  ASSUME ListInv, NEW p \in Pairs, NEW v \in VIDs, MergeDuplicate(p, v)
  PROVE  ListInv'
<1>1. StoreSound /\ listing \in Records /\ listing.step = "merge" /\ p \in listing.got /\ v \in Listed
  BY DEF ListInv, MergeDuplicate
<1>2. PICK shown \in Pairs : Merged(p, v, shown)
  BY <1>1 DEF MergeDuplicate, Listed, Records
<1>3. CASE Published(v) /\ primary[v] # p /\ p \notin others[v]
  <2>1. PICK saved \in BOOLEAN : AssociateAdditionalInstance(v, p, saved) /\ UNCHANGED live
    BY <1>3 DEF MergeDuplicate, Associate
  <2>2. StoreSound'
    BY <1>1, <2>1, AssociateKeeps
  <2>3. \A w \in VIDs : Copies(w) \subseteq Copies(w)'
    BY <1>1, <2>1 DEF AssociateAdditionalInstance, Copies, CopiesBy, StoreSound, IDTypeOK
  <2>4. p \in Copies(v)'
    BY <1>1, <1>3, <2>1 DEF AssociateAdditionalInstance, Published, Copies, CopiesBy, StoreSound, IDTypeOK
  <2>5. QED
    BY <1>1, <1>2, <2>1, <2>2, <2>3, <2>4, MergedKeeps
<1>4. CASE ~(Published(v) /\ primary[v] # p /\ p \notin others[v])
  <2>1. UNCHANGED vars
    BY <1>4 DEF MergeDuplicate
  <2>2. \A w \in VIDs : Copies(w)' = Copies(w)
    BY <2>1, UnchangedCopies
  <2>3. StoreSound' /\ UNCHANGED live
    BY <1>1, <2>1, UnchangedKeeps DEF vars, watchVars
  <2>4. ASSUME ~listing.marked, listing.asked \subseteq live PROVE p \in Copies(v)'
    <3>1. \E q : q \in Copies(v)
      BY <1>1, <2>4 DEF ListInv, OwedIsComing, Busy
    <3>2. Published(v)
      BY <3>1 DEF Copies, CopiesBy, Published
    <3>3. p \in Copies(v)
      BY <1>4, <3>2 DEF Copies, CopiesBy, Published
    <3>4. QED
      BY <2>2, <3>3
  <2>5. QED
    BY <1>1, <1>2, <2>2, <2>3, <2>4, MergedKeeps
<1>5. QED
  BY <1>3, <1>4

\* Where the items are shown from is no matter of the copies.
LEMMA FilterKeepsStore ==
  ASSUME ListInv, Filter
  PROVE  StoreSound' /\ UNCHANGED live
<1>1. /\ UNCHANGED <<primary, others, index, known, oldest, disk, stream, watchVars>>
      /\ source' = [v \in VIDs |-> IF v \in Listed THEN listing.from[v] ELSE source[v]]
  BY DEF Filter
<1>2. source' \in [VIDs -> Pairs \union {None}]
  BY <1>1 DEF ListInv, StoreSound, IDTypeOK, Records
<1>3. QED
  BY <1>1, <1>2 DEF ListInv, StoreSound, IDTypeOK, OthersApart, IndexExact, DiskBehindMemory,
                    HoldersIn, NamedIn, CopiesBy, watchVars

\* An item that matched all along and is owed a copy is listed under one of its ids, and
\* what is listed of it matches.
LEMMA FilterKeeps ==
  ASSUME ListInv, Filter
  PROVE  ListInv'
<1>1. StoreSound' /\ UNCHANGED live
  BY FilterKeepsStore
<1>2. PICK readable \in BOOLEAN, shown \in SUBSET VIDs :
        /\ shown = IF readable THEN Listed \intersect Matching(listing.user, listing.filter) ELSE {}
        /\ listing' = [Unasked EXCEPT !.step = "overlay", !.asked = listing.asked,
                                      !.marked = listing.marked, !.unread = ~readable,
                                      !.shown = shown, !.missed = Missed(shown)]
  BY DEF Filter, Listed
<1>3. listing \in Records /\ listing.step = "merge" /\ listing.got = {} /\ listing.due = {}
  BY DEF ListInv, Askings, Filter
<1>4. PICK missed \in SUBSET VIDs : missed = Missed(shown)
  BY <1>3 DEF Missed, Records
<1>5. PICK unread \in BOOLEAN : unread = ~readable
  OBVIOUS
<1>6. shown \in SUBSET VIDs
  OBVIOUS
<1>7. listing' = [step |-> "overlay", user |-> None, filter |-> {}, named |-> None,
                  asked |-> listing.asked, due |-> {}, got |-> {}, budget |-> 0,
                  marked |-> listing.marked, from |-> [v \in VIDs |-> None], shown |-> shown,
                  unread |-> unread, owed |-> {}, steady |-> {}, missed |-> missed]
  BY <1>2, <1>4, <1>5 DEF Unasked
<1>8. listing' \in Records
  <2>1. 0 \in 0 .. RequestBudget
    BY ListingBounds
  <2>2. [v \in VIDs |-> None] \in [VIDs -> Pairs \union {None}]
    OBVIOUS
  <2>3. listing.asked \in SUBSET Servers /\ listing.marked \in BOOLEAN
    BY <1>3 DEF Records
  <2>4. QED
    BY <1>4, <1>5, <1>6, <1>7, <2>1, <2>2, <2>3 DEF Records
<1>9. Askings' /\ SteadyMatch' /\ OwedIsComing'
  BY <1>7 DEF Askings, SteadyMatch, OwedIsComing, Busy
<1>10. UnmarkedListingIsWhole'
  <2>1. SUFFICES ASSUME ~listing.marked, readable, listing.asked \subseteq live, NEW v \in missed
                 PROVE  FALSE
    BY <1>1, <1>5, <1>7 DEF UnmarkedListingIsWhole
  <2>2. /\ v \in listing.steady /\ v \in VIDs
        /\ AliasVirtualIDs(v) \intersect shown = {}
    BY <1>4, <2>1 DEF Missed
  <2>3. PICK p \in listing.owed : p \in Copies(v)
    BY <1>4, <2>1 DEF Missed
  <2>4. PICK w \in Listed : p \in Copies(w)
    BY <1>3, <2>1, <2>3 DEF ListInv, OwedIsComing, Busy
  <2>5. w \in AliasVirtualIDs(v)
    BY <2>2, <2>3, <2>4, SharedCopyIsAlias DEF Listed
  <2>6. Satisfies(listing.user, v, listing.filter) /\ listing.filter \in Filters
    BY <1>3, <2>2 DEF ListInv, SteadyMatch, Askings, Busy
  <2>7. w \in Matching(listing.user, listing.filter)
    BY <2>2, <2>5, <2>6, MatchingIsWhole
  <2>8. w \in shown
    BY <1>2, <2>1, <2>4, <2>7
  <2>9. QED
    BY <2>2, <2>5, <2>8
<1>11. QED
  BY <1>1, <1>8, <1>9, <1>10 DEF ListInv

LEMMA UnaskedKeeps ==
  ASSUME StoreSound', listing' = Unasked
  PROVE  ListInv'
<1>1. listing' \in Records
  BY ListingBounds DEF Unasked, Records
<1>2. QED
  BY <1>1 DEF Unasked, ListInv, Askings, SteadyMatch, OwedIsComing, Busy, UnmarkedListingIsWhole

LEMMA OverlayKeeps ==
  ASSUME ListInv, Overlay
  PROVE  ListInv'
<1>1. StoreSound' /\ UNCHANGED live
  BY UnchangedKeeps DEF ListInv, Overlay, vars, watchVars
<1>2. CASE listing' = [listing EXCEPT !.step = "done"]
  <2>1. listing \in Records
    BY DEF ListInv
  <2>2. listing' \in Records
    BY <1>2, <2>1 DEF Records
  <2>3. /\ listing'.step = "done"
        /\ UNCHANGED <<listing.asked, listing.due, listing.got, listing.owed, listing.marked,
                       listing.unread, listing.missed>>
    BY <1>2, <2>1 DEF Records
  <2>4. QED
    BY <1>1, <2>2, <2>3 DEF ListInv, Askings, SteadyMatch, OwedIsComing, Busy, UnmarkedListingIsWhole
<1>3. CASE listing' = Unasked
  BY <1>1, <1>3, UnaskedKeeps
<1>4. QED
  BY <1>2, <1>3 DEF Overlay

LEMMA ListingStepKeeps == ListInv /\ [ListingNext]_listVars => ListInv'
<1> SUFFICES ASSUME ListInv, [ListingNext]_listVars PROVE ListInv'
  OBVIOUS
<1>1. CASE Meanwhile
  BY <1>1, MeanwhileKeeps
<1>2. CASE Lost
  <2>1. StoreSound'
    BY <1>2, StepKeepsStore DEF Lost, Next, ListInv
  <2>2. QED
    BY <1>2, <2>1, UnaskedKeeps DEF Lost
<1>3. CASE \E u \in Users, f \in Filters, named \in VIDs \union {None}, servers \in SUBSET Servers :
             Begin(u, f, named, servers)
  BY <1>3, BeginKeeps
<1>4. CASE \E s \in Servers : BatchAnswered(s) \/ BatchUnsent(s) \/ Stops(s)
  BY <1>4, BatchAnsweredKeeps, LeftOutKeeps
<1>5. CASE Collected
  BY <1>5, CollectedKeeps
<1>6. CASE \E p \in Pairs : MergeFirst(p) \/ \E v \in VIDs : MergeDuplicate(p, v)
  BY <1>6, MergeFirstKeeps, MergeDuplicateKeeps
<1>7. CASE Filter
  BY <1>7, FilterKeeps
<1>8. CASE Overlay
  BY <1>8, OverlayKeeps
<1>9. CASE UNCHANGED listVars
  <2>1. UNCHANGED vars /\ UNCHANGED listing
    BY <1>9 DEF listVars
  <2>2. StoreSound' /\ UNCHANGED live
    BY <2>1, UnchangedKeeps DEF ListInv, vars, watchVars
  <2>3. SteadyMatch'
    BY <2>1, UnchangedMatches DEF ListInv, SteadyMatch, Busy
  <2>4. OwedIsComing'
    BY <2>1, <2>2, UnchangedCopies DEF ListInv, OwedIsComing, Busy, Listed
  <2>5. QED
    BY <2>1, <2>2, <2>3, <2>4 DEF ListInv, Askings, Busy, UnmarkedListingIsWhole
<1>10. QED
  BY <1>1, <1>2, <1>3, <1>4, <1>5, <1>6, <1>7, <1>8, <1>9 DEF ListingNext, List

(* Whatever is marked, merged, published or removed while a listing by the *)
(* user's own state is collected: an answer that is not marked as          *)
(* incomplete misses no item that matched all along.                       *)
THEOREM UnmarkedListingsAreWhole == ListingSpec => []UnmarkedListingIsWhole
<1>1. ListInv => UnmarkedListingIsWhole
  BY DEF ListInv
<1>2. QED
  BY <1>1, ListingStarts, ListingStepKeeps, PTL DEF ListingSpec

(* A listing keeps its types whatever goes on around it.                   *)
THEOREM ListingTypesCorrect == ListingSpec => []ListingTypeOK
<1>1. ListInv => ListingTypeOK
  BY DEF ListInv, Records, ListingTypeOK
<1>2. QED
  BY <1>1, ListingStarts, ListingStepKeeps, PTL DEF ListingSpec

\* What an id is listed from is a copy of it, unless the id or the server is gone.
ListedFromCopies ==
  Busy => \A w \in Listed :
    Published(w) /\ ServerOf(listing.from[w]) \in live => listing.from[w] \in Copies(w)

LEMMA FetchesKeepFrom ==
  ASSUME ListInv, (\E s \in Servers : BatchAnswered(s) \/ BatchUnsent(s) \/ Stops(s)) \/ Collected
  PROVE  UNCHANGED vars /\ listing'.from = listing.from /\ Busy
<1>1. listing \in Records
  BY DEF ListInv
<1>2. CASE \E s \in Servers : BatchAnswered(s)
  BY <1>1, <1>2 DEF BatchAnswered, Records, Busy
<1>3. CASE \E s \in Servers : BatchUnsent(s) \/ Stops(s)
  BY <1>1, <1>3 DEF BatchUnsent, Stops, Records, Busy
<1>4. CASE Collected
  BY <1>1, <1>4 DEF Collected, Records, Busy
<1>5. QED
  BY <1>2, <1>3, <1>4

LEMMA MergesSetFrom ==
  ASSUME ListInv, listing.step = "merge", NEW p \in Pairs, NEW v \in VIDs, NEW shown \in Pairs,
         Merged(p, v, shown)
  PROVE  listing'.from = [listing.from EXCEPT ![v] = shown]
<1>1. listing \in Records
  BY DEF ListInv
<1>2. PICK next : next = [listing EXCEPT !.got = @ \ {p}, !.from[v] = shown]
  OBVIOUS
<1>3. next \in Records
  BY <1>1, <1>2 DEF Records
<1>4. next.from = [listing.from EXCEPT ![v] = shown] /\ next.user = listing.user
      /\ next.filter = listing.filter
  BY <1>1, <1>2 DEF Records
<1>5. Steadily(next)
  BY <1>2 DEF Merged
<1>6. QED
  BY <1>3, <1>4, <1>5, SteadilyIs

\* The merge of a copy keeps that, given that it does for the id itself.
LEMMA MergesKeepFrom ==
  ASSUME ListInv, ListedFromCopies, UNCHANGED live, listing.step = "merge",
         NEW p \in Pairs, NEW v \in VIDs, NEW shown \in Pairs, Merged(p, v, shown),
         \A w \in VIDs : Copies(w) \subseteq Copies(w)',
         \A w \in VIDs : w # v /\ Published(w)' => Published(w),
         Published(v)' /\ ServerOf(shown) \in live => shown \in Copies(v)'
  PROVE  ListedFromCopies'
<1>1. listing \in Records
  BY DEF ListInv
<1>2. PICK from : from = [listing.from EXCEPT ![v] = shown]
  OBVIOUS
<1>3. listing'.from = from
  BY <1>2, MergesSetFrom
<1>4. from[v] = shown /\ \A w \in VIDs : w # v => from[w] = listing.from[w]
  BY <1>1, <1>2 DEF Records
<1>5. SUFFICES ASSUME NEW w \in VIDs, from[w] # None, Published(w)', ServerOf(from[w]) \in live
               PROVE  from[w] \in Copies(w)'
  BY <1>3 DEF ListedFromCopies, Listed
<1>6. CASE w = v
  BY <1>4, <1>5, <1>6
<1>7. CASE w # v
  <2>1. w \in Listed /\ Published(w)
    BY <1>4, <1>5, <1>7 DEF Listed
  <2>2. from[w] \in Copies(w)
    BY <1>4, <1>5, <1>7, <2>1 DEF ListedFromCopies, Busy
  <2>3. QED
    BY <2>2
<1>8. QED
  BY <1>6, <1>7

LEMMA MergeFirstKeepsFrom ==
  ASSUME ListInv, ListedFromCopies, NEW p \in Pairs, MergeFirst(p)
  PROVE  ListedFromCopies'
<1>1. StoreSound /\ listing.step = "merge"
  BY DEF ListInv, MergeFirst
<1>2. CASE index[p] # None
  <2>1. UNCHANGED vars /\ Merged(p, index[p], p)
    BY <1>2 DEF MergeFirst
  <2>2. PICK v \in VIDs : v = index[p] /\ p \in Copies(v)
    BY <1>1, <1>2 DEF StoreSound, IDTypeOK, IndexExact, HoldersIn, Copies
  <2>3. \A w \in VIDs : Copies(w)' = Copies(w)
    BY <2>1, UnchangedCopies
  <2>4. UNCHANGED live /\ \A w \in VIDs : Published(w)' = Published(w)
    BY <2>1 DEF vars, idVars, watchVars, Published
  <2>5. Merged(p, v, p) /\ p \in Copies(v)'
    BY <2>1, <2>2, <2>3
  <2>6. QED
    BY <1>1, <2>3, <2>4, <2>5, MergesKeepFrom
<1>3. CASE index[p] = None
  <2>1. PICK v \in VIDs : Publish(v, p) /\ Merged(p, v, p)
    BY <1>3 DEF MergeFirst
  <2>2. PICK saved \in BOOLEAN : GetOrCreateVirtualID(v, p, saved) /\ UNCHANGED live
    BY <2>1 DEF Publish
  <2>3. /\ \A w \in VIDs : Copies(w) \subseteq Copies(w)'
        /\ p \in Copies(v)'
    BY <1>1, <2>2, NoneIsNothing DEF GetOrCreateVirtualID, Copies, CopiesBy, StoreSound, IDTypeOK
  <2>4. \A w \in VIDs : w # v /\ Published(w)' => Published(w)
    BY <1>1, <2>2 DEF GetOrCreateVirtualID, Published, StoreSound, IDTypeOK
  <2>5. QED
    BY <1>1, <2>1, <2>2, <2>3, <2>4, MergesKeepFrom
<1>4. QED
  BY <1>2, <1>3

LEMMA MergeDuplicateKeepsFrom ==
  ASSUME ListInv, ListedFromCopies, NEW p \in Pairs, NEW v \in VIDs, MergeDuplicate(p, v)
  PROVE  ListedFromCopies'
<1>1. StoreSound /\ listing \in Records /\ listing.step = "merge" /\ v \in Listed
  BY DEF ListInv, MergeDuplicate
<1>2. PICK shown \in Pairs : Merged(p, v, shown) /\ shown \in {listing.from[v], p}
  BY <1>1 DEF MergeDuplicate, Listed, Records
<1>3. Published(v) /\ ServerOf(listing.from[v]) \in live => listing.from[v] \in Copies(v)
  BY <1>1 DEF ListedFromCopies, Busy
<1>4. CASE Published(v) /\ primary[v] # p /\ p \notin others[v]
  <2>1. PICK saved \in BOOLEAN : AssociateAdditionalInstance(v, p, saved) /\ UNCHANGED live
    BY <1>4 DEF MergeDuplicate, Associate
  <2>2. /\ \A w \in VIDs : Copies(w) \subseteq Copies(w)'
        /\ p \in Copies(v)'
    BY <1>1, <1>4, <2>1 DEF AssociateAdditionalInstance, Published, Copies, CopiesBy, StoreSound, IDTypeOK
  <2>3. \A w \in VIDs : Published(w)' = Published(w)
    BY <2>1 DEF AssociateAdditionalInstance, Published
  <2>4. QED
    BY <1>1, <1>2, <1>3, <1>4, <2>1, <2>2, <2>3, MergesKeepFrom
<1>5. CASE ~(Published(v) /\ primary[v] # p /\ p \notin others[v])
  <2>1. UNCHANGED vars
    BY <1>5 DEF MergeDuplicate
  <2>2. \A w \in VIDs : Copies(w)' = Copies(w)
    BY <2>1, UnchangedCopies
  <2>3. UNCHANGED live /\ \A w \in VIDs : Published(w)' = Published(w)
    BY <2>1 DEF vars, idVars, watchVars, Published
  <2>4. Published(v) => p \in Copies(v)
    BY <1>5 DEF Copies, CopiesBy, Published
  <2>5. QED
    BY <1>1, <1>2, <1>3, <2>2, <2>3, <2>4, MergesKeepFrom
<1>6. QED
  BY <1>4, <1>5

LEMMA MeanwhileKeepsFrom ==
  ASSUME ListInv, ListedFromCopies, Meanwhile
  PROVE  ListedFromCopies'
<1>1. StoreSound /\ Work /\ live' \subseteq live /\ listing \in Records /\ Steadily(listing)
  BY WorkKeepsServers DEF ListInv, Meanwhile
<1>2. listing'.from = listing.from /\ listing'.step = listing.step
  BY <1>1, SteadilyIs
<1>3. SUFFICES ASSUME Busy, NEW w \in Listed, Published(w)', ServerOf(listing.from[w]) \in live'
               PROVE  listing.from[w] \in Copies(w)'
  BY <1>2 DEF ListedFromCopies, Listed, Busy
<1>4. Published(w)
  BY <1>3 DEF Meanwhile
<1>5. listing.from[w] \in Copies(w)
  BY <1>1, <1>3, <1>4 DEF ListedFromCopies
<1>6. QED
  BY <1>1, <1>3, <1>5, WorkKeepsCopies DEF Listed

\* All steps of a listing but the last of its merge are steps of the store and the rows.
LEMMA ListingStepIsStep == ListingNext => [Next]_vars \/ Filter
<1>1. ASSUME ListingNext PROVE [Next]_vars \/ Filter
  <2>1. CASE Meanwhile \/ Lost
    BY <2>1 DEF Meanwhile, Lost, Next
  <2>2. CASE \E p \in Pairs : MergeFirst(p) \/ \E v \in VIDs : MergeDuplicate(p, v)
    BY <2>2 DEF MergeFirst, MergeDuplicate, Next, Work
  <2>3. CASE \/ \E u \in Users, f \in Filters, named \in VIDs \union {None}, servers \in SUBSET Servers :
                   Begin(u, f, named, servers)
             \/ \E s \in Servers : BatchAnswered(s) \/ BatchUnsent(s) \/ Stops(s)
             \/ Collected \/ Overlay
    BY <2>3 DEF Begin, BatchAnswered, BatchUnsent, Stops, Collected, Overlay
  <2>4. QED
    BY <1>1, <2>1, <2>2, <2>3 DEF ListingNext, List
<1>2. QED
  BY <1>1

LEMMA ListingKeepsFrom ==
  ListInv /\ ListedFromCopies /\ [ListingNext]_listVars => ListedFromCopies'
<1> SUFFICES ASSUME ListInv, ListedFromCopies, [ListingNext]_listVars PROVE ListedFromCopies'
  OBVIOUS
<1>1. ASSUME UNCHANGED vars, listing'.from = listing.from, Busy PROVE ListedFromCopies'
  <2>1. UNCHANGED live /\ \A w \in VIDs : Published(w)' = Published(w) /\ Copies(w)' = Copies(w)
    BY <1>1, UnchangedCopies DEF vars, idVars, watchVars, Published
  <2>2. QED
    BY <1>1, <2>1 DEF ListedFromCopies, Listed
<1>2. CASE Meanwhile
  BY <1>2, MeanwhileKeepsFrom
<1>3. CASE (\E s \in Servers : BatchAnswered(s) \/ BatchUnsent(s) \/ Stops(s)) \/ Collected
  BY <1>1, <1>3, FetchesKeepFrom
<1>4. CASE \E p \in Pairs : MergeFirst(p) \/ \E v \in VIDs : MergeDuplicate(p, v)
  BY <1>4, MergeFirstKeepsFrom, MergeDuplicateKeepsFrom
<1>5. CASE \E u \in Users, f \in Filters, named \in VIDs \union {None}, servers \in SUBSET Servers :
             Begin(u, f, named, servers)
  <2>1. listing'.from = [v \in VIDs |-> None]
    BY <1>5 DEF Begin, Unasked
  <2>2. QED
    BY <2>1 DEF ListedFromCopies, Listed
<1>6. CASE Lost \/ Filter \/ Overlay
  <2>1. ~Busy'
    <3>1. listing \in Records
      BY DEF ListInv
    <3>2. CASE Overlay
      <4>1. listing'.step \in {"done", "idle"}
        BY <3>1, <3>2 DEF Overlay, Unasked, Records
      <4>2. QED
        BY <4>1 DEF Busy
    <3>3. CASE Lost
      BY <3>3 DEF Lost, Unasked, Busy
    <3>4. CASE Filter
      <4>1. PICK readable \in BOOLEAN, shown \in SUBSET VIDs :
              listing' = [Unasked EXCEPT !.step = "overlay", !.asked = listing.asked,
                                         !.marked = listing.marked, !.unread = ~readable,
                                         !.shown = shown, !.missed = Missed(shown)]
        BY <3>4 DEF Filter, Listed
      <4>2. listing'.step = "overlay"
        BY <4>1 DEF Unasked
      <4>3. QED
        BY <4>2 DEF Busy
    <3>5. QED
      BY <1>6, <3>2, <3>3, <3>4
  <2>2. QED
    BY <2>1 DEF ListedFromCopies
<1>7. CASE UNCHANGED listVars
  BY <1>1, <1>7 DEF listVars, ListedFromCopies, Busy
<1>8. QED
  BY <1>2, <1>3, <1>4, <1>5, <1>6, <1>7 DEF ListingNext, List

LEMMA ListingKeepsSources ==
  ListInv /\ ListedFromCopies /\ SourcesAreCopies /\ [ListingNext]_listVars => SourcesAreCopies'
<1> SUFFICES ASSUME ListInv, ListedFromCopies, SourcesAreCopies, [ListingNext]_listVars
             PROVE  SourcesAreCopies'
  OBVIOUS
<1>1. CASE [Next]_vars
  BY <1>1, StepKeepsStore DEF ListInv, SourcesKept
<1>2. CASE Filter
  <2>1. /\ UNCHANGED <<primary, others, live>> /\ Busy
        /\ \A v \in VIDs : source'[v] = IF v \in Listed THEN listing.from[v] ELSE source[v]
    BY <1>2 DEF Filter, watchVars, Busy
  <2>2. \A v \in VIDs : Published(v)' = Published(v) /\ Copies(v)' = Copies(v)
    BY <2>1 DEF Published, Copies, CopiesBy
  <2>3. SUFFICES ASSUME NEW v \in VIDs, Published(v), source'[v] # None, ServerOf(source'[v]) \in live
                 PROVE  source'[v] \in Copies(v)
    BY <2>1, <2>2 DEF SourcesAreCopies
  <2>4. CASE v \in Listed
    BY <2>1, <2>3, <2>4 DEF ListedFromCopies
  <2>5. CASE v \notin Listed
    BY <2>1, <2>3, <2>5 DEF SourcesAreCopies
  <2>6. QED
    BY <2>4, <2>5
<1>3. CASE UNCHANGED listVars
  BY <1>1, <1>3 DEF listVars
<1>4. QED
  BY <1>1, <1>2, <1>3, ListingStepIsStep

\* The listing steps that are no steps of the store and the rows touch hints only.
LEMMA FilterLeavesRows ==
  Filter => /\ UNCHANGED <<primary, others, index, known, oldest, disk, watchVars>>
            /\ \A v \in VIDs : Copies(v)' = Copies(v)
BY DEF Filter, watchVars, Copies, CopiesBy

\* The invariants of the virtual ids, the rows and the tracker, while a listing goes on.
HistoryInv == IDInv /\ RowInv /\ RoutedInv /\ TrackerOK(tracker)

LEMMA HistoryStarts == Init => HistoryInv
<1> SUFFICES ASSUME Init PROVE HistoryInv
  OBVIOUS
<1>1. IDInv /\ RowInv /\ TrackerOK(tracker)
  BY InitIDs, NoRowTyped, TrackerStarts DEF Init, RowInv
<1>2. RoutedInv
  BY RoutesStart
<1>3. QED
  BY <1>1, <1>2 DEF HistoryInv

LEMMA FilterKeepsHistory ==
  ASSUME HistoryInv, ListInv, ListedFromCopies, Filter
  PROVE  HistoryInv'
<1>1. IDInv'
  BY FilterKeepsStore, ListingKeepsSources DEF HistoryInv, IDInv, ListingNext, List
<1>2. RowInv' /\ TrackerOK(tracker)'
  BY FilterLeavesRows DEF HistoryInv, RowInv, TrackerOK, Distinct, watchVars
<1>3. RoutedInv'
  <2>1. UNCHANGED <<primary, others, disk, watchVars>> /\ \A v \in VIDs : Copies(v)' = Copies(v)
    BY FilterLeavesRows
  <2>2. \A s : \A v \in VIDs : Routed(v, s) => Routed(v, s)'
    BY <2>1 DEF Routed, Routes, watchVars
  <2>3. Synced' <=> Synced
    BY <2>1 DEF Synced
  <2>4. \A h \in Handlers : handler[h] \in Event => handler[h].item \in VIDs
    BY DEF Event
  <2>5. QED
    BY <2>1, <2>2, <2>3, <2>4 DEF HistoryInv, RoutedInv, watchVars
<1>4. QED
  BY <1>1, <1>2, <1>3 DEF HistoryInv

ListedInv == ListInv /\ ListedFromCopies /\ HistoryInv

LEMMA ListedStarts == ListingInit => ListedInv
<1>1. ASSUME ListingInit PROVE ListedFromCopies
  BY <1>1 DEF ListingInit, Unasked, ListedFromCopies, Busy
<1>2. QED
  BY <1>1, ListingStarts, HistoryStarts DEF ListedInv, ListingInit

LEMMA ListedStepKeeps == ListedInv /\ [ListingNext]_listVars => ListedInv'
<1> SUFFICES ASSUME ListedInv, [ListingNext]_listVars PROVE ListedInv'
  OBVIOUS
<1>1. ListInv' /\ ListedFromCopies'
  BY ListingStepKeeps, ListingKeepsFrom DEF ListedInv
<1>2. CASE [Next]_vars
  BY <1>1, <1>2, StepKeepsIds, StepKeepsRows, StepKeepsRoutes, StepKeepsTracker
     DEF ListedInv, HistoryInv
<1>3. CASE Filter
  BY <1>1, <1>3, FilterKeepsHistory DEF ListedInv
<1>4. CASE UNCHANGED listVars
  BY <1>2, <1>4 DEF listVars
<1>5. QED
  BY <1>2, <1>3, <1>4, ListingStepIsStep

(* All of this holds while listings by the user's own state publish and    *)
(* merge ids and record where their items are shown from: the indexes, the *)
(* database and the hints agree with the entries ...                       *)
THEOREM ListingsKeepStore == ListingSpec => []StoreConsistent
<1>1. ListedInv => StoreConsistent
  BY DEF ListedInv, HistoryInv, IDInv, StoreSound, StoreConsistent
<1>2. QED
  BY <1>1, ListedStarts, ListedStepKeeps, PTL DEF ListingSpec

(* ... rows name servers that have their items ...                         *)
THEOREM ListingsKeepRoutes == ListingSpec => []RowsRouted
<1>1. ListedInv => RowsRouted
  BY DEF ListedInv, HistoryInv, RoutedInv, Routed, RowsRouted
<1>2. QED
  BY <1>1, ListedStarts, ListedStepKeeps, PTL DEF ListingSpec

(* ... and neither reports nor removals take anything from the history or  *)
(* the tracker that they must not.                                         *)
THEOREM ListingsKeepHistory ==
  ListingSpec => ReportsForgetNothing /\ HistorySurvivesRemoval /\ OnlyStartsReplaceSessions
<1>1. ASSUME ListedInv, Filter, NEW u \in Users, NEW v \in VIDs
      PROVE  Kept(u, v) /\ Lasts(u, v) /\ Stays(u, v)
  <2>1. UNCHANGED <<rows, tracker>>
    BY <1>1, FilterLeavesRows DEF watchVars
  <2>2. rows[u][v] \in Rows
    BY <1>1 DEF ListedInv, HistoryInv, RowInv
  <2>3. Kept(u, v) /\ Lasts(u, v)
    BY <2>1, <2>2 DEF Kept, Lasts, Rows
  <2>4. Stays(u, v)
    BY <2>1 DEF Stays, SessionOf, Tracked, Holds, EntryOf
  <2>5. QED
    BY <2>3, <2>4
<1>2. ASSUME ListedInv, [ListingNext]_listVars
      PROVE  /\ [\A u \in Users, v \in VIDs : Kept(u, v)]_vars
             /\ [\A u \in Users, v \in VIDs : Lasts(u, v)]_vars
             /\ [\A u \in Users, v \in VIDs : Stays(u, v)]_vars
  <2>1. [Next]_vars \/ Filter
    BY <1>2, ListingStepIsStep DEF listVars
  <2>2. CASE [Next]_vars
    BY <1>2, <2>2, StepsKeep, StepsLast, StepsStay DEF ListedInv, HistoryInv
  <2>3. CASE Filter
    BY <1>1, <1>2, <2>3
  <2>4. QED
    BY <2>1, <2>2, <2>3
<1>3. ListedInv /\ [ListingNext]_listVars =>
             /\ [\A u \in Users, v \in VIDs : Kept(u, v)]_vars
             /\ [\A u \in Users, v \in VIDs : Lasts(u, v)]_vars
             /\ [\A u \in Users, v \in VIDs : Stays(u, v)]_vars
  BY <1>2
<1>4. /\ ReportsForgetNothing <=> [][\A u \in Users, v \in VIDs : Kept(u, v)]_vars
      /\ HistorySurvivesRemoval <=> [][\A u \in Users, v \in VIDs : Lasts(u, v)]_vars
      /\ OnlyStartsReplaceSessions <=> [][\A u \in Users, v \in VIDs : Stays(u, v)]_vars
  BY DEF ReportsForgetNothing, HistorySurvivesRemoval, OnlyStartsReplaceSessions, Kept, Lasts, Stays
<1>5. QED
  BY <1>3, <1>4, ListedStarts, ListedStepKeeps, PTL DEF ListingSpec

=================================================================================
