-------------------------- MODULE AssetTrash_proofs --------------------------
(***************************************************************************)
(* Theorems about AssetTrash, for every set of projects, drafts, assets,   *)
(* batches and browsers and every limit of the revisions.                  *)
(***************************************************************************)
EXTENDS AssetTrash, TLAPS

Whole == \A b \in Batches : batch[b].assets = Registered(b)

(* NeverDowngraded of one step. *)
Upgrades == \A o \in exists \cap exists' : doc'[o].bundle >= doc[o].bundle

LEMMA Blanks ==
    /\ Blank \in Documents /\ Blank.refs = {} /\ Blank.bundle = 6
    /\ 0 \in Revisions
    /\ NoBatch \in TrashBatches /\ NoBatch.assets = {} /\ NoBatch.changed = {}
BY TrashAssumption DEF Blank, Documents, Revisions, NoBatch, TrashBatches

LEMMA InitStep == Init => TrashInvariant
<1> SUFFICES ASSUME Init PROVE TrashInvariant
  OBVIOUS
<1>1. TrashTypeOK
  BY Blanks, TrashAssumption DEF Init, TrashTypeOK, Reads, Owners, Revisioned
<1>2. SavedReferencesAreLive
  BY DEF Init, SavedReferencesAreLive, Owners
<1>3. \A b \in Batches : batch[b].assets = Registered(b)
  BY Blanks DEF Init, Registered
<1>4. RevisionNamesDocument /\ Cascades /\ Memories
  BY Blanks, TrashAssumption DEF Init, RevisionNamesDocument, Cascades, Memories, Revisions, Owners, Revisioned
<1> QED  BY <1>1, <1>2, <1>3, <1>4 DEF TrashInvariant

-----------------------------------------------------------------------------
(* What a step of the documents alone, or of the trash alone, leaves.      *)

LEMMA TrashUntouched ==
    ASSUME TrashInvariant, UNCHANGED trash
    PROVE  Whole' /\ Cascades' /\ Live' = Live
BY DEF TrashInvariant, trash, Whole, Registered, Cascades, Live

LEMMA SameBundles ==
    ASSUME TrashInvariant, \A q \in exists \cap exists' : doc'[q].bundle = doc[q].bundle
    PROVE  Upgrades
<1>1. \A q \in exists : doc[q].bundle \in {5, 6}
  BY DEF TrashInvariant, TrashTypeOK, Documents
<1> QED  BY <1>1 DEF Upgrades

(* A document is written with a new revision: nobody remembers that one,   *)
(* unless it is the browser that wrote it.                                 *)
LEMMA WriteKeeps ==
    ASSUME TrashInvariant, UNCHANGED trash,
           NEW o \in exists, o \in Revisioned, HasRoom(o),
           NEW d \in Documents, d.refs \subseteq Live,
           doc' = [doc EXCEPT ![o] = d], rev' = [rev EXCEPT ![o] = @ + 1],
           UNCHANGED <<unborn, exists>>,
           \A c \in Browsers :
              \/ read'[c] = read[c]
              \/ read'[c] = [owner |-> o, doc |-> d, revision |-> rev[o] + 1],
           read' \in [Browsers -> Reads]
    PROVE  TrashInvariant'
<1> USE DEF TrashInvariant
<1>1. o \in Owners /\ rev[o] \in Nat /\ rev[o] < MaxRevision /\ rev[o] + 1 \in Revisions
  BY TrashAssumption DEF HasRoom, Owners, TrashTypeOK, Revisions
<1>2. TrashTypeOK'
  BY <1>1 DEF TrashTypeOK, trash
<1>3. SavedReferencesAreLive'
  BY TrashUntouched, <1>1 DEF SavedReferencesAreLive, TrashTypeOK
<1>4. \A q \in Owners : /\ q # o => doc'[q] = doc[q] /\ rev'[q] = rev[q]
                        /\ doc'[o] = d /\ rev'[o] = rev[o] + 1
                        /\ rev[q] \in Nat
  BY <1>1 DEF TrashTypeOK, Revisions
<1>5. \A c \in Browsers : read[c].owner \in Owners /\ read[c].revision \in Nat
  BY DEF TrashTypeOK, Reads, Revisions, Owners
<1>6. \A b \in Batches : /\ batch'[b] = batch[b]
                         /\ batch[b].changed \subseteq Owners
                         /\ \A q \in Owners : batch[b].revision[q] \in Nat
  BY DEF TrashTypeOK, TrashBatches, Revisions, trash
<1>7. Memories'
  <2>1. ASSUME NEW c \in Browsers
        PROVE  LET q == read'[c].owner IN
               q \notin unborn' /\ (q \in exists' => read'[c].revision <= rev'[q])
    <3>1. CASE read'[c] = read[c]
      BY <3>1, <1>1, <1>4, <1>5 DEF Memories
    <3>2. CASE read'[c] = [owner |-> o, doc |-> d, revision |-> rev[o] + 1]
      BY <3>2, <1>1, <1>4 DEF TrashTypeOK
    <3> QED  BY <3>1, <3>2
  <2>2. ASSUME NEW b \in Batches, NEW q \in batch'[b].changed
        PROVE  q \notin unborn' /\ (q \in exists' => batch'[b].revision[q] <= rev'[q])
    BY <1>1, <1>4, <1>6 DEF Memories
  <2> QED  BY <2>1, <2>2 DEF Memories
<1>8. RevisionNamesDocument'
  <2>1. ASSUME NEW c \in Browsers
        PROVE  LET q == read'[c].owner IN
               q \in exists' /\ rev'[q] = read'[c].revision => doc'[q] = read'[c].doc
    <3>1. CASE read'[c] = read[c]
      BY <3>1, <1>1, <1>4, <1>5 DEF Memories, RevisionNamesDocument
    <3>2. CASE read'[c] = [owner |-> o, doc |-> d, revision |-> rev[o] + 1]
      BY <3>2, <1>1, <1>4
    <3> QED  BY <3>1, <3>2
  <2>2. ASSUME NEW b \in Batches, NEW q \in batch'[b].changed \cap Revisioned \cap exists'
        PROVE  rev'[q] = batch'[b].revision[q] => doc'[q] = batch'[b].after[q]
    BY <1>1, <1>4, <1>6 DEF Memories, RevisionNamesDocument
  <2> QED  BY <2>1, <2>2 DEF RevisionNamesDocument
<1> QED  BY <1>2, <1>3, <1>7, <1>8, TrashUntouched DEF Whole

LEMMA OpenStep ==
    ASSUME TrashInvariant, NEW c \in Browsers, NEW o \in Revisioned, Open(c, o)
    PROVE  TrashInvariant' /\ Upgrades
<1> USE DEF TrashInvariant
<1>1. UNCHANGED documents /\ UNCHANGED trash
  BY DEF Open
<1>2. read' \in [Browsers -> Reads]
  BY DEF Open, TrashTypeOK, Reads, Owners
<1>3. TrashTypeOK' /\ SavedReferencesAreLive' /\ Whole' /\ Cascades'
  BY <1>1, <1>2, TrashUntouched DEF TrashTypeOK, documents, trash, SavedReferencesAreLive
<1>4. rev[o] \in Nat /\ o \in exists /\ o \notin unborn
  BY DEF Open, TrashTypeOK, Revisions, Owners
<1>5. \A e \in Browsers : \/ read'[e] = read[e]
                          \/ read'[e] = [owner |-> o, doc |-> doc[o], revision |-> rev[o]]
  BY DEF Open, TrashTypeOK
<1>6. RevisionNamesDocument' /\ Memories'
  BY <1>1, <1>4, <1>5 DEF RevisionNamesDocument, Memories, documents, trash
<1>7. Upgrades
  BY <1>1 DEF Upgrades, documents, TrashTypeOK, Documents
<1> QED  BY <1>3, <1>6, <1>7 DEF Whole

LEMMA SaveStep ==
    ASSUME TrashInvariant, NEW c \in Browsers, NEW d \in Documents, Save(c, d)
    PROVE  TrashInvariant' /\ Upgrades
<1> DEFINE o == read[c].owner
<1>1. o \in exists /\ o \in Revisioned /\ HasRoom(o) /\ d.refs \subseteq Live
  BY DEF Save, MaySave, TrashInvariant, TrashTypeOK, Reads
<1>2. /\ UNCHANGED trash /\ UNCHANGED <<unborn, exists>>
      /\ doc' = [doc EXCEPT ![o] = d] /\ rev' = [rev EXCEPT ![o] = @ + 1]
  BY DEF Save
<1>3. rev[o] + 1 \in Revisions
  BY <1>1, TrashAssumption DEF HasRoom, TrashInvariant, TrashTypeOK, Owners, Revisions
<1>4. read' \in [Browsers -> Reads]
  BY <1>1, <1>3 DEF Save, TrashInvariant, TrashTypeOK, Reads
<1>5. \A e \in Browsers :
         \/ read'[e] = read[e]
         \/ read'[e] = [owner |-> o, doc |-> d, revision |-> rev[o] + 1]
  BY DEF Save, TrashInvariant, TrashTypeOK
<1>6. TrashInvariant'
  <2> HIDE DEF o
  <2> QED  BY <1>1, <1>2, <1>4, <1>5, WriteKeeps
<1>7. Upgrades
  BY <1>1, <1>2 DEF Upgrades, Save, MaySave, TrashInvariant, TrashTypeOK, Documents, Owners
<1> QED  BY <1>6, <1>7

LEMMA InsertStep ==
    ASSUME TrashInvariant, NEW p \in Projects, NEW d \in Documents, d.refs \subseteq Live,
           Insert(p, d)
    PROVE  TrashInvariant' /\ Upgrades
<1> USE DEF TrashInvariant
<1>1. p \in unborn /\ p \notin exists /\ p \in Owners
  BY DEF Insert, TrashTypeOK, Owners, Revisioned
<1>2. UNCHANGED trash /\ read' = read /\ unborn' = unborn \ {p} /\ exists' = exists \cup {p}
  BY DEF Insert
<1>3. \A q \in Owners : q # p => doc'[q] = doc[q] /\ rev'[q] = rev[q]
  BY DEF Insert, TrashTypeOK
<1>4. TrashTypeOK'
  BY <1>1, <1>2, Blanks DEF Insert, TrashTypeOK, trash
<1>5. SavedReferencesAreLive'
  BY <1>1, <1>2, <1>3, TrashUntouched DEF Insert, SavedReferencesAreLive, TrashTypeOK
<1>6. Memories'
  BY <1>1, <1>2, <1>3 DEF Memories, TrashTypeOK, trash, TrashBatches, Reads, Owners
<1>7. RevisionNamesDocument'
  BY <1>1, <1>2, <1>3 DEF RevisionNamesDocument, Memories, TrashTypeOK, trash, TrashBatches, Reads, Owners
<1>8. Upgrades
  <2>1. \A q \in exists \cap exists' : q # p /\ q \in Owners
    BY <1>1 DEF TrashTypeOK
  <2> QED  BY <2>1, <1>3, SameBundles
<1> QED  BY <1>2, <1>4, <1>5, <1>6, <1>7, <1>8, TrashUntouched DEF Whole

LEMMA DeleteStep ==
    ASSUME TrashInvariant, NEW p \in Projects, DeleteProject(p)
    PROVE  TrashInvariant' /\ Upgrades
<1> USE DEF TrashInvariant
<1>1. UNCHANGED trash /\ read' = read /\ unborn' = unborn /\ exists' = exists \ {p}
  BY DEF DeleteProject
<1>2. \A q \in Owners : q # p => doc'[q] = doc[q] /\ rev'[q] = rev[q]
  BY DEF DeleteProject, TrashTypeOK
<1>3. TrashTypeOK'
  BY <1>1, Blanks DEF DeleteProject, TrashTypeOK, trash
<1>4. SavedReferencesAreLive'
  BY <1>1, <1>2, TrashUntouched DEF SavedReferencesAreLive, TrashTypeOK
<1>5. Memories' /\ RevisionNamesDocument'
  BY <1>1, <1>2 DEF RevisionNamesDocument, Memories, TrashTypeOK, trash, TrashBatches, Reads, Owners
<1>6. Upgrades
  <2>1. \A q \in exists \cap exists' : q # p /\ q \in Owners
    BY <1>1 DEF TrashTypeOK
  <2> QED  BY <2>1, <1>2, SameBundles
<1> QED  BY <1>1, <1>3, <1>4, <1>5, <1>6, TrashUntouched DEF Whole

LEMMA NormalizeStep ==
    ASSUME TrashInvariant, Normalize
    PROVE  TrashInvariant' /\ Upgrades
<1> DEFINE o == Timeline
<1>1. /\ o \in exists /\ o \in Revisioned /\ HasRoom(o) /\ UNCHANGED <<unborn, exists, trash, read>>
      /\ doc' = doc /\ rev' = [rev EXCEPT ![o] = @ + 1]
  BY DEF Normalize, Revisioned
<1>2. /\ doc[o] \in Documents /\ doc[o].refs \subseteq Live /\ doc' = [doc EXCEPT ![o] = doc[o]]
      /\ read' \in [Browsers -> Reads]
  BY <1>1 DEF TrashInvariant, TrashTypeOK, SavedReferencesAreLive, Owners
<1>3. TrashInvariant'
  BY <1>1, <1>2, WriteKeeps
<1>4. Upgrades
  BY <1>1, SameBundles
<1> QED  BY <1>3, <1>4

LEMMA MigrateStep ==
    ASSUME TrashInvariant, NEW o \in Revisioned, Migrate(o)
    PROVE  TrashInvariant' /\ Upgrades
<1> USE DEF TrashInvariant
<1>1. o \in exists /\ HasRoom(o) /\ o \in Owners
  BY DEF Migrate, Owners
<1>2. CASE MigrateInPlace(o)
  <2>1. Projected(o) \in Documents /\ Projected(o).refs = doc[o].refs /\ Projected(o).bundle = 6
    BY <1>1 DEF Projected, TrashTypeOK, Documents
  <2>2. Projected(o).refs \subseteq Live
    BY <2>1, <1>1 DEF SavedReferencesAreLive
  <2>3. TrashInvariant'
    BY <1>1, <1>2, <2>1, <2>2, WriteKeeps DEF MigrateInPlace, TrashTypeOK
  <2>4. Upgrades
    BY <1>1, <1>2, <2>1 DEF MigrateInPlace, Upgrades, TrashTypeOK, Documents
  <2> QED  BY <2>3, <2>4
<1>3. CASE o = Timeline /\ \E p \in Projects : ReplaceDefault(p)
  <2> PICK p \in Projects : ReplaceDefault(p)
    BY <1>3
  <2>1. p \in unborn /\ p \notin exists /\ p \in Owners /\ p # o /\ o = Timeline
    BY <1>3, TrashAssumption DEF ReplaceDefault, TrashTypeOK, Owners, Revisioned
  <2>2. /\ UNCHANGED trash /\ read' = read
        /\ unborn' = unborn \ {p} /\ exists' = exists \cup {p}
    BY DEF ReplaceDefault
  <2>3. /\ doc'[p] = doc[o] /\ doc'[o] = Blank /\ rev'[o] = rev[o] + 1
        /\ \A q \in Owners \ {p, o} : doc'[q] = doc[q] /\ rev'[q] = rev[q]
    BY <2>1, <1>1 DEF ReplaceDefault, TrashTypeOK
  <2>4. rev[o] \in Nat /\ rev[o] + 1 \in Revisions
    BY <1>1, TrashAssumption DEF HasRoom, TrashTypeOK, Revisions
  <2>5. TrashTypeOK'
    BY <1>1, <2>1, <2>2, <2>4, Blanks DEF ReplaceDefault, TrashTypeOK, trash
  <2>6. SavedReferencesAreLive'
    BY <1>1, <2>1, <2>2, <2>3, Blanks, TrashUntouched DEF SavedReferencesAreLive, TrashTypeOK
  <2>7. \A c \in Browsers : read[c].owner \in Owners /\ read[c].revision \in Nat
    BY DEF TrashTypeOK, Reads, Revisions, Owners
  <2>8. \A b \in Batches : /\ batch'[b] = batch[b]
                           /\ batch[b].changed \subseteq Owners
                           /\ \A q \in Owners : batch[b].revision[q] \in Nat
    BY <2>2 DEF TrashTypeOK, TrashBatches, Revisions, trash
  <2>9. Memories'
    BY <1>1, <2>1, <2>2, <2>3, <2>4, <2>7, <2>8 DEF Memories
  <2>10. RevisionNamesDocument'
    BY <1>1, <2>1, <2>2, <2>3, <2>4, <2>7, <2>8 DEF RevisionNamesDocument, Memories
  <2>11. Upgrades
    BY <1>1, <2>1, <2>3, Blanks DEF Upgrades, TrashTypeOK, Documents
  <2> QED  BY <2>2, <2>5, <2>6, <2>9, <2>10, <2>11, TrashUntouched DEF Whole
<1> QED  BY <1>2, <1>3 DEF Migrate

-----------------------------------------------------------------------------
LEMMA UploadStep ==
    ASSUME TrashInvariant, NEW a \in Assets, Upload(a)
    PROVE  TrashInvariant' /\ Upgrades
<1> USE DEF TrashInvariant
<1>1. UNCHANGED <<documents, home, batch, read>> /\ asset[a] = "new"
      /\ asset' = [asset EXCEPT ![a] = "live"]
  BY DEF Upload
<1>2. TrashTypeOK'
  BY <1>1 DEF TrashTypeOK, documents
<1>3. Live \subseteq Live' /\ \A b \in Batches : Registered(b)' = Registered(b)
  BY <1>1 DEF Live, Registered, TrashTypeOK
<1>4. SavedReferencesAreLive' /\ Cascades' /\ Memories' /\ RevisionNamesDocument'
  BY <1>1, <1>3 DEF SavedReferencesAreLive, Cascades, Memories, RevisionNamesDocument, documents
<1>5. Whole'
  BY <1>1, <1>3 DEF Whole
<1>6. Upgrades
  BY <1>1, SameBundles DEF documents
<1> QED  BY <1>2, <1>4, <1>5, <1>6 DEF Whole

(* Documents of O are written with a new revision: what anybody remembers  *)
(* of them is old.                                                         *)
LEMMA AdvanceOutdates ==
    ASSUME TrashInvariant, NEW O \in SUBSET exists, \A o \in O : HasRoom(o), Advance(O)
    PROVE  /\ rev' \in [Owners -> Revisions]
           /\ \A o \in Owners : rev[o] \in Nat /\ rev'[o] \in Nat /\ rev'[o] >= rev[o]
           /\ \A o \in O \cap Revisioned : rev'[o] = rev[o] + 1
           /\ \A o \in Owners \ (O \cap Revisioned) : rev'[o] = rev[o]
<1>1. \A o \in Owners : rev[o] \in Revisions /\ rev[o] \in Nat
  BY TrashAssumption DEF TrashInvariant, TrashTypeOK, Revisions
<1>2. \A o \in O \cap Revisioned : rev[o] + 1 \in Revisions
  BY <1>1, TrashAssumption DEF HasRoom, Revisions, TrashInvariant, TrashTypeOK
<1>3. O \subseteq Owners
  BY DEF TrashInvariant, TrashTypeOK
<1> QED  BY <1>1, <1>2, <1>3 DEF Advance

(* Readers of documents that O leaves alone still know them.               *)
LEMMA ReadersKeep ==
    ASSUME TrashInvariant, NEW O \in SUBSET exists, \A o \in O : HasRoom(o), Advance(O),
           UNCHANGED <<unborn, exists, read>>,
           \A o \in Owners \ O : doc'[o] = doc[o]
    PROVE  \A c \in Browsers :
              LET o == read[c].owner IN
              /\ o \notin unborn' /\ (o \in exists' => read'[c].revision <= rev'[o])
              /\ o \in exists' /\ rev'[o] = read'[c].revision => doc'[o] = read'[c].doc
<1> TAKE c \in Browsers
<1> DEFINE o == read[c].owner
<1>1. o \in Owners /\ o \in Revisioned /\ read[c].revision \in Nat
  BY DEF TrashInvariant, TrashTypeOK, Reads, Revisions, Owners
<1>2. o \notin unborn /\ (o \in exists => read[c].revision <= rev[o])
  BY DEF TrashInvariant, Memories
<1>3. o \in exists /\ rev[o] = read[c].revision => doc[o] = read[c].doc
  BY DEF TrashInvariant, RevisionNamesDocument
<1> HIDE DEF o
<1> QED  BY <1>1, <1>2, <1>3, AdvanceOutdates DEF o

(* So do the batches.                                                      *)
LEMMA BatchKeeps ==
    ASSUME TrashInvariant, NEW O \in SUBSET exists, \A o \in O : HasRoom(o), Advance(O),
           UNCHANGED <<unborn, exists>>,
           \A o \in Owners \ O : doc'[o] = doc[o],
           NEW b \in Batches, NEW q \in batch[b].changed
    PROVE  /\ q \notin unborn' /\ (q \in exists' => batch[b].revision[q] <= rev'[q])
           /\ q \in Revisioned \cap exists' /\ rev'[q] = batch[b].revision[q]
                 => doc'[q] = batch[b].after[q]
<1>1. q \in Owners /\ batch[b].revision[q] \in Nat
  BY DEF TrashInvariant, TrashTypeOK, TrashBatches, Revisions
<1>2. q \notin unborn /\ (q \in exists => batch[b].revision[q] <= rev[q])
  BY DEF TrashInvariant, Memories
<1>3. q \in Revisioned \cap exists /\ rev[q] = batch[b].revision[q] => doc[q] = batch[b].after[q]
  BY DEF TrashInvariant, RevisionNamesDocument
<1> QED  BY <1>1, <1>2, <1>3, AdvanceOutdates

LEMMA TrashStepKeeps ==
    ASSUME TrashInvariant, NEW b \in Batches, NEW S \in SUBSET Assets,
           NEW cascade \in BOOLEAN, Trash(b, S, cascade)
    PROVE  TrashInvariant' /\ Upgrades
<1> DEFINE used == Users(S)
<1> USE DEF TrashInvariant
<1>1. /\ used \in SUBSET exists /\ used \subseteq Owners
      /\ S \subseteq Live /\ Registered(b) = {}
      /\ \A o \in used : HasRoom(o)
      /\ Advance(used) /\ UNCHANGED <<unborn, exists, read>>
  BY DEF Trash, Users, TrashTypeOK
<1>2. \A o \in used : /\ doc'[o] = Unbound(o, S) /\ Unbound(o, S) \in Documents
                      /\ Unbound(o, S).refs = doc[o].refs \ S
                      /\ Unbound(o, S).bundle = doc[o].bundle
  <2>1. \A o \in used : doc[o] \in Documents /\ doc'[o] = Unbound(o, S)
    BY <1>1 DEF Trash, TrashTypeOK
  <2> HIDE DEF used, TrashInvariant
  <2> QED  BY <2>1 DEF Unbound, Documents
<1>3. \A o \in Owners \ used : doc'[o] = doc[o] /\ (o \in exists => doc[o].refs \cap S = {})
  BY DEF Trash, Users
<1>4. doc' \in [Owners -> Documents]
  BY <1>2, <1>3 DEF Trash, TrashTypeOK
<1>5. /\ batch'[b] = [assets |-> S, changed |-> used,
                     before |-> [o \in Owners |-> IF o \in used THEN doc[o] ELSE Blank],
                     after |-> [o \in Owners |-> IF o \in used THEN doc'[o] ELSE Blank],
                     revision |-> [o \in Owners |-> IF o \in used THEN rev'[o] ELSE 0]]
      /\ \A e \in Batches \ {b} : batch'[e] = batch[e]
      /\ batch' = [batch EXCEPT ![b] = batch'[b]]
  BY DEF Trash, TrashTypeOK
<1>6. batch'[b] \in TrashBatches
  BY <1>1, <1>4, <1>5, AdvanceOutdates, Blanks DEF TrashBatches, TrashTypeOK
<1>7. TrashTypeOK'
  BY <1>1, <1>4, <1>5, <1>6, AdvanceOutdates DEF Trash, TrashTypeOK
<1>8. Live' = Live \ S
  BY DEF Trash, Live
<1>9. SavedReferencesAreLive'
  BY <1>1, <1>2, <1>3, <1>8 DEF SavedReferencesAreLive, TrashTypeOK
<1>10. Whole'
  <2>1. Registered(b)' = S
    BY <1>1 DEF Trash, Registered, TrashTypeOK, Live
  <2>2. ASSUME NEW e \in Batches \ {b} PROVE Registered(e)' = Registered(e)
    BY <1>1 DEF Trash, Registered, TrashTypeOK, Live
  <2> QED  BY <2>1, <2>2, <1>5 DEF Whole
<1>11. Cascades'
  <2>1. ASSUME NEW o \in used
        PROVE  /\ batch'[b].before[o].refs \subseteq batch'[b].after[o].refs \cup batch'[b].assets
               /\ batch'[b].before[o].bundle = batch'[b].after[o].bundle
    BY <1>1, <1>2, <1>5
  <2>2. batch'[b].changed = used
    BY <1>5
  <2>3. ASSUME NEW e \in Batches \ {b}, NEW o \in batch[e].changed
        PROVE  /\ batch'[e].changed = batch[e].changed
               /\ batch'[e].before[o].refs \subseteq batch'[e].after[o].refs \cup batch'[e].assets
               /\ batch'[e].before[o].bundle = batch'[e].after[o].bundle
    BY <1>5 DEF Cascades
  <2>4. \A e \in Batches \ {b} : batch'[e].changed = batch[e].changed
    BY <1>5
  <2> HIDE DEF used, TrashInvariant
  <2> QED  BY <2>1, <2>2, <2>3, <2>4 DEF Cascades
<1>12. Memories' /\ RevisionNamesDocument'
  <2>1. ASSUME NEW o \in used
        PROVE  /\ o \notin unborn' /\ batch'[b].revision[o] = rev'[o]
               /\ batch'[b].after[o] = doc'[o] /\ rev'[o] <= rev'[o]
    BY <1>1, <1>5, AdvanceOutdates DEF TrashTypeOK
  <2>2. \A e \in Batches \ {b} : \A q \in batch[e].changed :
           /\ q \notin unborn' /\ (q \in exists' => batch[e].revision[q] <= rev'[q])
           /\ q \in Revisioned \cap exists' /\ rev'[q] = batch[e].revision[q]
                 => doc'[q] = batch[e].after[q]
    <3> HIDE DEF used, TrashInvariant
    <3> QED  BY <1>1, <1>3, BatchKeeps
  <2>3. \A c \in Browsers :
           LET o == read[c].owner IN
           /\ o \notin unborn' /\ (o \in exists' => read'[c].revision <= rev'[o])
           /\ o \in exists' /\ rev'[o] = read'[c].revision => doc'[o] = read'[c].doc
    <3> HIDE DEF used, TrashInvariant
    <3> QED  BY <1>1, <1>3, ReadersKeep
  <2>4. batch'[b].changed = used /\ read' = read
    BY <1>1, <1>5
  <2> HIDE DEF used, TrashInvariant
  <2>5. Memories'
    BY <2>1, <2>2, <2>3, <2>4, <1>5 DEF Memories
  <2>6. RevisionNamesDocument'
    BY <2>1, <2>2, <2>3, <2>4, <1>5 DEF RevisionNamesDocument
  <2> QED  BY <2>5, <2>6
<1>13. Upgrades
  <2>1. \A q \in exists \cap exists' : doc'[q].bundle = doc[q].bundle
    BY <1>2, <1>3 DEF TrashTypeOK
  <2> QED  BY <2>1, SameBundles
<1> QED  BY <1>7, <1>9, <1>10, <1>11, <1>12, <1>13 DEF Whole

-----------------------------------------------------------------------------
(* A batch that leaves the trash takes its registrations with it.          *)
LEMMA LeaveKeeps ==
    ASSUME TrashInvariant, NEW b \in Batches, NEW status \in {"live", "purged"},
           Leave(b, status)
    PROVE  /\ asset' \in [Assets -> {"new", "live", "trashed", "purged"}]
           /\ home' \in [Assets -> Batches \cup {None}]
           /\ batch' \in [Batches -> TrashBatches]
           /\ batch'[b] = NoBatch /\ \A e \in Batches \ {b} : batch'[e] = batch[e]
           /\ Whole' /\ Cascades'
           /\ Live \subseteq Live'
           /\ status = "live" => Live' = Live \cup batch[b].assets
<1> USE DEF TrashInvariant
<1>1. /\ asset' \in [Assets -> {"new", "live", "trashed", "purged"}]
      /\ home' \in [Assets -> Batches \cup {None}]
      /\ batch' \in [Batches -> TrashBatches]
      /\ batch'[b] = NoBatch /\ \A e \in Batches \ {b} : batch'[e] = batch[e]
  BY Blanks DEF Leave, TrashTypeOK
<1>2. Registered(b)' = {} /\ \A e \in Batches \ {b} : Registered(e)' = Registered(e)
  BY TrashAssumption DEF Leave, Registered, TrashTypeOK
<1>3. Whole'
  BY <1>1, <1>2, Blanks DEF Whole
<1>4. Cascades'
  BY <1>1, Blanks DEF Cascades
<1>5. Live \subseteq Live' /\ (status = "live" => Live' = Live \cup Registered(b))
  BY DEF Leave, Live, Registered
<1> QED  BY <1>1, <1>3, <1>4, <1>5

LEMMA LeaveStep ==
    ASSUME TrashInvariant, NEW b \in Batches, RestoreRegistrations(b) \/ Purge(b)
    PROVE  TrashInvariant' /\ Upgrades
<1> USE DEF TrashInvariant
<1>1. (Leave(b, "live") \/ Leave(b, "purged")) /\ UNCHANGED <<documents, read>>
  BY DEF RestoreRegistrations, Purge
<1>2. TrashTypeOK' /\ Whole' /\ Cascades'
  BY <1>1, LeaveKeeps DEF TrashTypeOK, documents
<1>3. SavedReferencesAreLive'
  BY <1>1, LeaveKeeps DEF SavedReferencesAreLive, documents
<1>4. /\ \A e \in Batches : batch'[e] = batch[e] \/ batch'[e].changed = {}
      /\ UNCHANGED <<unborn, exists, doc, rev, read>>
  BY <1>1, LeaveKeeps, Blanks DEF documents
<1>5. Memories' /\ RevisionNamesDocument'
  BY <1>4 DEF Memories, RevisionNamesDocument
<1>6. Upgrades
  BY <1>4, SameBundles
<1> QED  BY <1>2, <1>3, <1>5, <1>6 DEF Whole

LEMMA RestoreStep ==
    ASSUME TrashInvariant, NEW b \in Batches, RestoreWithReferences(b)
    PROVE  TrashInvariant' /\ Upgrades
<1> DEFINE O == batch[b].changed
<1> USE DEF TrashInvariant
<1>1. /\ O \in SUBSET exists /\ O \subseteq Owners
      /\ \A o \in O : /\ HasRoom(o) /\ Valid(b, o)
                     /\ doc[o] = batch[b].after[o]
      /\ Leave(b, "live") /\ Advance(O) /\ UNCHANGED <<unborn, exists, read>>
  BY DEF RestoreWithReferences, Untouched, TrashTypeOK
<1>2. /\ doc' \in [Owners -> Documents]
      /\ \A o \in O : doc'[o] = batch[b].before[o]
      /\ \A o \in Owners \ O : doc'[o] = doc[o]
  BY <1>1 DEF RestoreWithReferences, TrashTypeOK, TrashBatches
<1>3. TrashTypeOK' /\ Whole' /\ Cascades'
  BY <1>1, <1>2, LeaveKeeps, AdvanceOutdates DEF TrashTypeOK
<1>4. SavedReferencesAreLive'
  BY <1>1, <1>2, LeaveKeeps DEF SavedReferencesAreLive, Valid, TrashTypeOK
<1>5. Memories' /\ RevisionNamesDocument'
  <2>1. \A e \in Batches : \A q \in batch[e].changed :
           /\ q \notin unborn' /\ (q \in exists' => batch[e].revision[q] <= rev'[q])
           /\ q \in Revisioned \cap exists' /\ rev'[q] = batch[e].revision[q]
                 => doc'[q] = batch[e].after[q]
    <3> HIDE DEF O, TrashInvariant
    <3> QED  BY <1>1, <1>2, BatchKeeps
  <2>2. \A c \in Browsers :
           LET o == read[c].owner IN
           /\ o \notin unborn' /\ (o \in exists' => read'[c].revision <= rev'[o])
           /\ o \in exists' /\ rev'[o] = read'[c].revision => doc'[o] = read'[c].doc
    <3> HIDE DEF O, TrashInvariant
    <3> QED  BY <1>1, <1>2, ReadersKeep
  <2>3. \A e \in Batches : batch'[e] = batch[e] \/ batch'[e].changed = {}
    BY <1>1, LeaveKeeps, Blanks
  <2>4. UNCHANGED read
    BY <1>1
  <2> HIDE DEF O, TrashInvariant
  <2>5. Memories'
    BY <2>1, <2>2, <2>3, <2>4 DEF Memories
  <2>6. RevisionNamesDocument'
    BY <2>1, <2>2, <2>3, <2>4 DEF RevisionNamesDocument
  <2> QED  BY <2>5, <2>6
<1>6. Upgrades
  <2>1. \A o \in O : batch[b].before[o].bundle = doc[o].bundle
    BY <1>1 DEF Cascades
  <2>2. \A q \in exists \cap exists' : doc'[q].bundle = doc[q].bundle
    BY <2>1, <1>2 DEF TrashTypeOK
  <2> QED  BY <2>2, SameBundles
<1> QED  BY <1>3, <1>4, <1>5, <1>6 DEF Whole

-----------------------------------------------------------------------------
LEMMA NextStep ==
    ASSUME TrashInvariant, [Next]_vars
    PROVE  TrashInvariant' /\ Upgrades
<1>1. CASE DocumentStep
  <2>1. CASE \E c \in Browsers : Saves(c) \/ \E o \in Revisioned : Open(c, o)
    BY <2>1, SaveStep, OpenStep DEF Saves
  <2>2. CASE \E p \in Projects : CreateProject(p) \/ DeleteProject(p)
    BY <2>2, InsertStep, DeleteStep, Blanks DEF CreateProject
  <2>3. CASE \E p \in Projects : \E d \in Documents : ImportProject(p, d)
    BY <2>3, InsertStep DEF ImportProject
  <2>4. CASE \E o \in Revisioned : Migrate(o)
    BY <2>4, MigrateStep
  <2>5. CASE Normalize
    BY <2>5, NormalizeStep
  <2> QED  BY <1>1, <2>1, <2>2, <2>3, <2>4, <2>5 DEF DocumentStep
<1>2. CASE TrashStep
  BY <1>2, UploadStep, TrashStepKeeps, LeaveStep, RestoreStep DEF TrashStep
<1>3. CASE UNCHANGED vars
  <2>1. TrashInvariant'
    BY <1>3 DEF vars, documents, trash, TrashInvariant, TrashTypeOK, SavedReferencesAreLive, Live,
                Registered, RevisionNamesDocument, Cascades, Memories
  <2>2. Upgrades
    BY <1>3, SameBundles DEF vars, documents
  <2> QED  BY <2>1, <2>2
<1> QED  BY <1>1, <1>2, <1>3 DEF Next

(* The inductive invariant. *)
THEOREM TrashInvariantHolds == Spec => []TrashInvariant
<1> QED  BY InitStep, NextStep, PTL DEF Spec

(* Every variable keeps its type: no modelled write takes a revision past  *)
(* its limit.                                                              *)
THEOREM TrashTypeCorrect == Spec => []TrashTypeOK
<1>1. TrashInvariant => TrashTypeOK
  BY DEF TrashInvariant
<1> QED  BY <1>1, TrashInvariantHolds, PTL

(* No saved document refers to an asset that is not live.                  *)
THEOREM SavedReferencesAreLiveHolds == Spec => []SavedReferencesAreLive
<1>1. TrashInvariant => SavedReferencesAreLive
  BY DEF TrashInvariant
<1> QED  BY <1>1, TrashInvariantHolds, PTL

(* Every batch in the trash can be undone, with its references as long as  *)
(* nobody wrote to its documents.                                          *)
THEOREM BatchCanBeUndoneHolds == Spec => []BatchCanBeUndone
<1>1. TrashInvariant => BatchCanBeUndone
  BY DEF TrashInvariant, BatchCanBeUndone, Cascades, Untouched, Valid, SavedReferencesAreLive
<1> QED  BY <1>1, TrashInvariantHolds, PTL

(* A remembered revision that is still current names the remembered        *)
(* document.                                                               *)
THEOREM RevisionNamesDocumentHolds == Spec => []RevisionNamesDocument
<1>1. TrashInvariant => RevisionNamesDocument
  BY DEF TrashInvariant
<1> QED  BY <1>1, TrashInvariantHolds, PTL

(* No step takes a document back to an earlier template bundle.            *)
THEOREM NeverDowngradedHolds == Spec => NeverDowngraded
<1>1. TrashInvariant /\ [Next]_vars =>
        \A o \in exists \cap exists' : doc'[o].bundle >= doc[o].bundle
  BY NextStep DEF Upgrades
<1> QED  BY <1>1, TrashInvariantHolds, PTL DEF Spec, NeverDowngraded
=============================================================================
