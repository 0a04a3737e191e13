--------------------------------- MODULE IDStore ---------------------------------
(***************************************************************************)
(* The virtual identifiers of idstore.go.  Every upstream item is known to *)
(* the clients by a virtual id; a virtual id stands for one primary copy   *)
(* (an original id on a server) and for the further copies that merging    *)
(* found.  The maps live in memory, a SQLite database is written through   *)
(* first, and a failed write is logged and tolerated: memory may then know *)
(* more than the database, and a restart forgets the difference.           *)
(*                                                                         *)
(* Random ids are drawn from VIDs, whose order stands for the order of the *)
(* strings.  Lists of copies are sets: only their first element after a    *)
(* sort is ever told apart, and Least picks it.                            *)
(***************************************************************************)
EXTENDS Naturals, FiniteSets

CONSTANTS VIDs, Originals, Servers, None

Pairs == Originals \X Servers
OriginalOf(p) == p[1]
ServerOf(p) == p[2]
Before(p, q) == \/ ServerOf(p) < ServerOf(q)
                \/ ServerOf(p) = ServerOf(q) /\ OriginalOf(p) <= OriginalOf(q)

ASSUME NoneIsNothing == None \notin VIDs /\ None \notin Pairs /\ None \notin Servers

ASSUME OrderedIds ==
  /\ VIDs \subseteq Nat /\ Originals \subseteq Nat /\ Servers \subseteq Nat
  /\ \A S \in SUBSET VIDs : S # {} => \E v \in S : \A w \in S : v <= w
  /\ \A S \in SUBSET Pairs : S # {} => \E p \in S : \A q \in S : Before(p, q)

VARIABLES
  primary,   \* virtualToOriginal: the primary copy of a published virtual id
  others,    \* ... and its additional instances
  index,     \* originalToVirtual
  known,     \* originalIDToVirtual, as the sets of its lists
  oldest,    \* the first element of each of these lists
  disk,      \* id_mappings and id_additional_instances
  stream,    \* activeStreamServer
  source     \* displaySources and imageSources: where borrowed artwork is
idVars == <<primary, others, index, known, oldest, disk, stream, source>>

NoDisk == [primary |-> [v \in VIDs |-> None], others |-> [v \in VIDs |-> {}]]

IDTypeOK ==
  /\ primary \in [VIDs -> Pairs \union {None}]
  /\ others \in [VIDs -> SUBSET Pairs]
  /\ index \in [Pairs -> VIDs \union {None}]
  /\ known \in [Originals -> SUBSET VIDs]
  /\ oldest \in [Originals -> VIDs \union {None}]
  /\ disk \in [primary : [VIDs -> Pairs \union {None}], others : [VIDs -> SUBSET Pairs]]
  /\ stream \in [VIDs -> Servers \union {None}]
  /\ source \in [VIDs -> Pairs \union {None}]

-----------------------------------------------------------------------------
(* Reading the store.                                                       *)

Published(v) == primary[v] # None
CopiesBy(prim, add, v) == IF prim[v] = None THEN {} ELSE {prim[v]} \union add[v]
Copies(v) == CopiesBy(primary, others, v)

\* ResolveByOriginalID: the oldest id that some copy with this name was given.
ResolveByOriginalID(o) == IF oldest[o] = None THEN None ELSE primary[oldest[o]]

\* The original id of a virtual item on one server; None where it has no copy.
TranslateForServer(v, s) ==
  IF Published(v) /\ ServerOf(primary[v]) = s THEN OriginalOf(primary[v])
  ELSE IF \E p \in Copies(v) : ServerOf(p) = s
       THEN OriginalOf(CHOOSE p \in Copies(v) : ServerOf(p) = s)
       ELSE None

\* AliasVirtualIDs: the ids reached from v over copies held in common.
Share(v, w) == Copies(v) \intersect Copies(w) # {}
AliasVirtualIDs(v) ==
  {w \in VIDs : \A S \in SUBSET VIDs :
      (v \in S /\ \A x \in S, y \in VIDs : Share(x, y) => y \in S) => w \in S}

-----------------------------------------------------------------------------
(* The derived indexes, recomputed in the order of the virtual ids.         *)

Least(S) == CHOOSE v \in S : \A w \in S : v <= w
LeastOrNone(S) == IF S = {} THEN None ELSE Least(S)

HoldersIn(prim, add, p) == {v \in VIDs : p \in CopiesBy(prim, add, v)}
NamedIn(prim, add, o) == {v \in VIDs : \E p \in CopiesBy(prim, add, v) : OriginalOf(p) = o}

RebuildIndexes(prim, add) ==
  /\ index' = [p \in Pairs |-> LeastOrNone(HoldersIn(prim, add, p))]
  /\ known' = [o \in Originals |-> NamedIn(prim, add, o)]
  /\ oldest' = [o \in Originals |-> LeastOrNone(NamedIn(prim, add, o))]

\* appending a virtual id to the list of its original id
Learn(v, o) ==
  /\ known' = [known EXCEPT ![o] = @ \union {v}]
  /\ oldest' = [oldest EXCEPT ![o] = IF @ = None THEN v ELSE @]

IDInit ==
  /\ primary = [v \in VIDs |-> None] /\ others = [v \in VIDs |-> {}]
  /\ index = [p \in Pairs |-> None]
  /\ known = [o \in Originals |-> {}] /\ oldest = [o \in Originals |-> None]
  /\ disk = NoDisk
  /\ stream = [v \in VIDs |-> None] /\ source = [v \in VIDs |-> None]

-----------------------------------------------------------------------------
(* The operations.  "saved" says whether the write to the database went     *)
(* through; the memory is updated in either case.                           *)

\* A pair that no id stands for is given a fresh one, which nothing names yet.
GetOrCreateVirtualID(v, p, saved) ==
  /\ index[p] = None /\ primary[v] = None /\ disk.primary[v] = None /\ disk.others[v] = {}
  /\ source[v] = None
  /\ disk' = IF saved THEN [disk EXCEPT !.primary[v] = p] ELSE disk
  /\ primary' = [primary EXCEPT ![v] = p] /\ others' = [others EXCEPT ![v] = {}]
  /\ index' = [index EXCEPT ![p] = v]
  /\ Learn(v, OriginalOf(p))
  /\ UNCHANGED <<stream, source>>

\* Merging found that the copy p is the same item; the latest finding takes the pair over.
AssociateAdditionalInstance(v, p, saved) ==
  /\ Published(v) /\ primary[v] # p
  /\ disk' = IF saved THEN [disk EXCEPT !.others[v] = @ \union {p}] ELSE disk
  /\ others' = [others EXCEPT ![v] = @ \union {p}]
  /\ index' = [index EXCEPT ![p] = v]
  /\ Learn(v, OriginalOf(p))
  /\ UNCHANGED <<primary, stream, source>>

-----------------------------------------------------------------------------
(* RemoveByServerID: one transaction over the mappings (and the watch rows, *)
(* see WatchHistory), then the memory.                                      *)

Survivors(v, s) == {p \in Copies(v) : ServerOf(p) # s}
Promoted(v, s) == CHOOSE p \in Survivors(v, s) : \A q \in Survivors(v, s) : Before(p, q)

\* what the server's removal does to one published id
Vanishes(v, s) == Published(v) /\ Survivors(v, s) = {}
Moves(v, s) == Published(v) /\ ServerOf(primary[v]) = s /\ Survivors(v, s) # {}
Touched(v, s) == Published(v) /\ Survivors(v, s) # Copies(v)
\* the copy that a touched id is served from afterwards
RouteAfter(v, s) == IF Moves(v, s) THEN Promoted(v, s)
                    ELSE IF Vanishes(v, s) THEN None ELSE primary[v]
OthersAfter(v, s) == Survivors(v, s) \ {RouteAfter(v, s)}

\* Faulty: the additional rows keep the copy that was promoted, and those of the server.
DiskPrimariesAfter(s) == [disk EXCEPT !.primary = [v \in VIDs |-> RouteAfter(v, s)]]

\* the transaction: updates of the rows the groups name, then of every row of the server
DiskAfter(s) ==
  LET moved(v) == IF disk.primary[v] # None /\ Moves(v, s) THEN Promoted(v, s)
                  ELSE disk.primary[v]
  IN [primary |-> [v \in VIDs |->
         IF Vanishes(v, s) \/ (moved(v) # None /\ ServerOf(moved(v)) = s)
         THEN None ELSE moved(v)],
      others |-> [v \in VIDs |->
         IF Vanishes(v, s) THEN {}
         ELSE {p \in disk.others[v] : ServerOf(p) # s /\ ~(Moves(v, s) /\ p = Promoted(v, s))}]]

RemoveHints(s) ==
  /\ stream' = [v \in VIDs |-> IF Vanishes(v, s) \/ stream[v] = s THEN None ELSE stream[v]]
  /\ source' = [v \in VIDs |->
        IF Vanishes(v, s) \/ (source[v] # None /\ ServerOf(source[v]) = s) THEN None ELSE source[v]]

RemoveByServerID(s) ==
  /\ disk' = DiskAfter(s)
  /\ primary' = [v \in VIDs |-> IF Published(v) THEN RouteAfter(v, s) ELSE None]
  /\ others' = [v \in VIDs |-> IF Published(v) THEN OthersAfter(v, s) ELSE {}]
  /\ RebuildIndexes(primary', others')
  /\ RemoveHints(s)

-----------------------------------------------------------------------------
(* Hints, and the restart.                                                  *)

SetActiveStream(v, s) ==
  /\ stream' = [stream EXCEPT ![v] = s]
  /\ UNCHANGED <<primary, others, index, known, oldest, disk, source>>

\* Hints outlive their time to live at any moment the clock chooses.
EvictExpiredStreamState(v) ==
  /\ stream[v] # None
  /\ stream' = [stream EXCEPT ![v] = None]
  /\ UNCHANGED <<primary, others, index, known, oldest, disk, source>>

\* SetDisplaySource and SetImageSource: a merged item borrows the artwork of a copy; neither
\* looks whether the item or the copy is still there.
SetSource(v, p) ==
  /\ source' = [source EXCEPT ![v] = p]
  /\ UNCHANGED <<primary, others, index, known, oldest, disk, stream>>

\* Faulty: the rows of the additional copies are not read back.
LoadPrimaries ==
  /\ primary' = disk.primary /\ others' = [v \in VIDs |-> {}]
  /\ RebuildIndexes(primary', others')
  /\ stream' = [v \in VIDs |-> None] /\ source' = [v \in VIDs |-> None]
  /\ UNCHANGED disk

\* NewIDStore and load: rows of additional copies count only for ids that have a mapping.
Load ==
  /\ primary' = disk.primary
  /\ others' = [v \in VIDs |-> IF disk.primary[v] = None THEN {} ELSE disk.others[v]]
  /\ RebuildIndexes(primary', others')
  /\ stream' = [v \in VIDs |-> None] /\ source' = [v \in VIDs |-> None]
  /\ UNCHANGED disk

-----------------------------------------------------------------------------
(* Properties of the store alone.                                           *)

(* The two indexes say exactly what the entries say: a pair is found under *)
(* an id that really has this copy, no copy of a published id is missing   *)
(* from either index, and nothing else is listed.  Associations move pairs *)
(* between ids, removals promote copies and a restart re-sorts everything. *)
IndexExact ==
  /\ \A p \in Pairs : IF index[p] = None THEN HoldersIn(primary, others, p) = {}
                      ELSE index[p] \in HoldersIn(primary, others, p)
  /\ \A o \in Originals : /\ known[o] = NamedIn(primary, others, o)
                          /\ IF known[o] = {} THEN oldest[o] = None ELSE oldest[o] \in known[o]

(* The database never knows an id, or a copy of a published id, that the   *)
(* running process does not know: a restart can only forget what failed to *)
(* be saved, it cannot bring back a removed server's copies or change what *)
(* a virtual id stands for.                                                *)
DiskBehindMemory ==
  \A v \in VIDs :
    /\ disk.primary[v] # None => primary[v] = disk.primary[v]
    /\ primary[v] # None => disk.others[v] \subseteq others[v]
=================================================================================
