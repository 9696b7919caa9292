----------------------------- MODULE AssetTrash -----------------------------
(***************************************************************************)
(* Saved documents, the assets they refer to, and the trash of assets.     *)
(*                                                                         *)
(* Every operation is one transaction (BEGIN IMMEDIATE): actions are the   *)
(* transactions, and what may go wrong lies between them.  A browser saves *)
(* what it read some time ago; a batch in the trash is restored after      *)
(* other batches, saves, deletions and startups went by.                   *)
(***************************************************************************)
EXTENDS Naturals, FiniteSets

CONSTANTS Timeline,     \* the default project, one row of its own
          Projects,     \* ids of projects to be created
          Drafts,       \* the retired drafts: rows without a revision
          Assets,       \* ids of registrations to be made
          Batches,      \* ids of batches in the trash
          Browsers,
          None,
          MaxRevision   \* MAX_TIMELINE_REVISION: no write goes past it

ASSUMPTION TrashAssumption ==
    /\ Timeline \notin Projects \cup Drafts
    /\ Projects \cap Drafts = {}
    /\ None \notin Batches
    /\ MaxRevision \in Nat

Revisioned == {Timeline} \cup Projects
Owners     == Revisioned \cup Drafts

(* A document is the set of assets it refers to and the version of its     *)
(* template bundle; the digest of its text is equality.                    *)
Documents == [refs: SUBSET Assets, bundle: {5, 6}]
Blank     == [refs |-> {}, bundle |-> 6]
Revisions == 0 .. MaxRevision

(* A row of asset_trash_batches with its asset_trash_document_changes; a   *)
(* batch without assets is no row.                                         *)
TrashBatches == [assets: SUBSET Assets, changed: SUBSET Owners,
                 before: [Owners -> Documents], after: [Owners -> Documents],
                 revision: [Owners -> Revisions]]
NoBatch == [assets |-> {}, changed |-> {},
            before |-> [o \in Owners |-> Blank], after |-> [o \in Owners |-> Blank],
            revision |-> [o \in Owners |-> 0]]

VARIABLES
    unborn,     \* project ids not drawn yet (a uuid is drawn once)
    exists,     \* owners that have a row
    doc, rev,   \* columns document and revision
    asset,      \* a registration: "new" (no row yet), "live", "trashed", "purged"
    home,       \* trash_batch_id of a trashed registration
    batch,      \* the trash
    read        \* the document and revision each browser has open

documents == <<unborn, exists, doc, rev>>
trash     == <<asset, home, batch>>
vars      == <<documents, trash, read>>

Reads == [owner: Revisioned, doc: Documents, revision: Revisions]

TrashTypeOK ==
    /\ unborn \subseteq Projects
    /\ exists \subseteq Owners \ unborn
    /\ doc \in [Owners -> Documents]
    /\ rev \in [Owners -> Revisions]
    /\ asset \in [Assets -> {"new", "live", "trashed", "purged"}]
    /\ home \in [Assets -> Batches \cup {None}]
    /\ batch \in [Batches -> TrashBatches]
    /\ read \in [Browsers -> Reads]

Live == {a \in Assets : asset[a] = "live"}

(* A database from before the present bundle, or a new one.                *)
Init ==
    /\ unborn = Projects
    /\ exists = Owners \ Projects
    /\ asset \in [Assets -> {"new", "live"}]
    /\ doc \in {d \in [Owners -> Documents] :
                   \A o \in Owners : IF o \in Projects THEN d[o] = Blank
                                     ELSE d[o].refs \subseteq Live}
    /\ rev = [o \in Owners |-> 0]
    /\ home = [a \in Assets |-> None]
    /\ batch = [b \in Batches |-> NoBatch]
    /\ read = [c \in Browsers |-> [owner |-> Timeline, doc |-> doc[Timeline], revision |-> 0]]

-----------------------------------------------------------------------------
(* Documents *)

(* A browser reads a document with its revision.                           *)
Open(c, o) ==
    /\ o \in exists
    /\ read' = [read EXCEPT ![c] = [owner |-> o, doc |-> doc[o], revision |-> rev[o]]]
    /\ UNCHANGED <<documents, trash>>

\* Mutant: the space of revisions never ends.
HasRoomAlways(o) == TRUE

(* A document with a revision is written while there is another one.       *)
HasRoom(o) == o \in Revisioned => rev[o] < MaxRevision

\* Mutant: a browser from before a migration may write over its result.
MaySaveAnyBundle(c, d) ==
    LET o == read[c].owner IN
    /\ o \in exists /\ read[c].revision = rev[o] /\ HasRoom(o)
    /\ d.refs \subseteq Live

(* What a save is checked for inside its transaction.                      *)
MaySave(c, d) ==
    LET o == read[c].owner IN
    /\ o \in exists /\ read[c].revision = rev[o] /\ HasRoom(o)
    /\ d.bundle >= doc[o].bundle
    /\ d.refs \subseteq Live

(* The answer may be lost: the browser then keeps what it read.            *)
Save(c, d) ==
    LET o == read[c].owner IN
    /\ MaySave(c, d)
    /\ doc' = [doc EXCEPT ![o] = d]
    /\ rev' = [rev EXCEPT ![o] = @ + 1]
    /\ \/ UNCHANGED read
       \/ read' = [read EXCEPT ![c] = [owner |-> o, doc |-> d, revision |-> rev[o] + 1]]
    /\ UNCHANGED <<unborn, exists, trash>>

Insert(p, d) ==
    /\ p \in unborn
    /\ unborn' = unborn \ {p}
    /\ exists' = exists \cup {p}
    /\ doc' = [doc EXCEPT ![p] = d]
    /\ rev' = [rev EXCEPT ![p] = 0]
    /\ UNCHANGED <<trash, read>>

CreateProject(p) == Insert(p, Blank)

ImportProject(p, d) == d.refs \subseteq Live /\ Insert(p, d)

DeleteProject(p) ==
    /\ p \in exists
    /\ exists' = exists \ {p}
    /\ doc' = [doc EXCEPT ![p] = Blank]
    /\ rev' = [rev EXCEPT ![p] = 0]
    /\ UNCHANGED <<unborn, trash, read>>

(* A startup with newer defaults writes them into the default project.  It *)
(* looks at no limit, but at the limit the CHECK of the table refuses it.  *)
Normalize ==
    /\ Timeline \in exists /\ HasRoom(Timeline)
    /\ rev' = [rev EXCEPT ![Timeline] = @ + 1]
    /\ UNCHANGED <<unborn, exists, doc, trash, read>>

Projected(o) == [doc[o] EXCEPT !.bundle = 6]

\* Mutant: the projection is no new revision.
MigrateSilently(o) ==
    /\ doc' = [doc EXCEPT ![o] = Projected(o)]
    /\ UNCHANGED <<unborn, exists, rev, trash, read>>

MigrateInPlace(o) ==
    /\ doc' = [doc EXCEPT ![o] = Projected(o)]
    /\ rev' = [rev EXCEPT ![o] = @ + 1]
    /\ UNCHANGED <<unborn, exists, trash, read>>

(* The id of the backup is the digest of a text that the default project   *)
(* never holds again, since no save puts back what has no projection.      *)
ReplaceDefault(p) ==
    /\ p \in unborn
    /\ unborn' = unborn \ {p}
    /\ exists' = exists \cup {p}
    /\ doc' = [doc EXCEPT ![p] = doc[Timeline], ![Timeline] = Blank]
    /\ rev' = [rev EXCEPT ![p] = 0, ![Timeline] = @ + 1]
    /\ UNCHANGED <<trash, read>>

(* It projects documents of bundle 5 onto bundle 6, each in a transaction  *)
(* of its own.  One that has no projection, of whatever bundle, stays as   *)
(* it is, except the default project: it starts anew and its document      *)
(* becomes a project.                                                      *)
Migrate(o) ==
    /\ o \in exists \cap Revisioned /\ HasRoom(o)
    /\ \/ doc[o].bundle = 5 /\ MigrateInPlace(o)
       \/ o = Timeline /\ \E p \in Projects : ReplaceDefault(p)

-----------------------------------------------------------------------------
(* Assets and their trash *)

Upload(a) ==
    /\ asset[a] = "new"
    /\ asset' = [asset EXCEPT ![a] = "live"]
    /\ UNCHANGED <<documents, home, batch, read>>

\* Mutant: the retired drafts are forgotten.
UsersWithoutDrafts(S) == {o \in exists \cap Revisioned : doc[o].refs \cap S # {}}

Users(S) == {o \in exists : doc[o].refs \cap S # {}}

(* The cascade takes the assets out of a document (_unbind_asset_document).*)
Unbound(o, S) == [doc[o] EXCEPT !.refs = @ \ S]

(* Documents of O that have a revision get the next one.                   *)
Advance(O) ==
    rev' = [o \in Owners |-> IF o \in O \cap Revisioned THEN rev[o] + 1 ELSE rev[o]]

(* trash_assets, and deletion of one asset, which is the same.             *)
Trash(b, S, cascade) ==
    LET used == Users(S) IN
    /\ batch[b].assets = {}
    /\ S # {} /\ S \subseteq Live
    /\ used # {} => cascade
    /\ \A o \in used : HasRoom(o)
    /\ doc' = [o \in Owners |-> IF o \in used THEN Unbound(o, S) ELSE doc[o]]
    /\ Advance(used)
    /\ batch' = [batch EXCEPT ![b] =
                   [assets |-> S, changed |-> used,
                    before |-> [o \in Owners |-> IF o \in used THEN doc[o] ELSE Blank],
                    after |-> [o \in Owners |-> IF o \in used THEN doc'[o] ELSE Blank],
                    revision |-> [o \in Owners |-> IF o \in used THEN rev'[o] ELSE 0]]]
    /\ asset' = [a \in Assets |-> IF a \in S THEN "trashed" ELSE asset[a]]
    /\ home' = [a \in Assets |-> IF a \in S THEN b ELSE home[a]]
    /\ UNCHANGED <<unborn, exists, read>>

(* The registrations of a batch are those that its row lists: otherwise    *)
(* reading it raises.                                                      *)
Registered(b) == {a \in Assets : asset[a] = "trashed" /\ home[a] = b}
Readable(b)   == batch[b].assets # {} /\ batch[b].assets = Registered(b)

\* Mutant: the revision is compared, the digest is not.
UntouchedRevision(b, o) ==
    /\ o \in exists
    /\ o \in Revisioned => rev[o] = batch[b].revision[o]
    /\ HasRoom(o)

(* A document is as its cascade left it, and may be written.               *)
Untouched(b, o) ==
    /\ o \in exists
    /\ doc[o] = batch[b].after[o]
    /\ o \in Revisioned => rev[o] = batch[b].revision[o]
    /\ HasRoom(o)

(* The document a restore would write back is valid once the batch is live *)
(* again.                                                                  *)
Valid(b, o) == batch[b].before[o].refs \subseteq Live \cup batch[b].assets

(* The registrations of the batch leave it, and its row goes.              *)
Leave(b, status) ==
    /\ asset' = [a \in Assets |-> IF a \in Registered(b) THEN status ELSE asset[a]]
    /\ home' = [a \in Assets |-> IF a \in Registered(b) THEN None ELSE home[a]]
    /\ batch' = [batch EXCEPT ![b] = NoBatch]

RestoreRegistrations(b) ==
    /\ Readable(b)
    /\ Leave(b, "live")
    /\ UNCHANGED <<documents, read>>

RestoreWithReferences(b) ==
    /\ Readable(b)
    /\ \A o \in batch[b].changed : Untouched(b, o) /\ Valid(b, o)
    /\ Leave(b, "live")
    /\ doc' = [o \in Owners |-> IF o \in batch[b].changed THEN batch[b].before[o] ELSE doc[o]]
    /\ Advance(batch[b].changed)
    /\ UNCHANGED <<unborn, exists, read>>

Purge(b) ==
    /\ Readable(b)
    /\ Leave(b, "purged")
    /\ UNCHANGED <<documents, read>>

-----------------------------------------------------------------------------
Saves(c) == \E d \in Documents : Save(c, d)

DocumentStep ==
    \/ \E c \in Browsers : Saves(c) \/ \E o \in Revisioned : Open(c, o)
    \/ \E p \in Projects : CreateProject(p) \/ DeleteProject(p)
    \/ \E p \in Projects : \E d \in Documents : ImportProject(p, d)
    \/ Normalize
    \/ \E o \in Revisioned : Migrate(o)

TrashStep ==
    \/ \E a \in Assets : Upload(a)
    \/ \E b \in Batches : \E S \in SUBSET Assets : \E cascade \in BOOLEAN : Trash(b, S, cascade)
    \/ \E b \in Batches : RestoreRegistrations(b) \/ RestoreWithReferences(b) \/ Purge(b)

Next == DocumentStep \/ TrashStep

Spec == Init /\ [][Next]_vars

-----------------------------------------------------------------------------
(* Whatever is trashed, restored, saved, imported or migrated in whatever  *)
(* order: a saved document refers to live assets only (a dangling one      *)
(* could be neither saved again nor compiled).                             *)
SavedReferencesAreLive == \A o \in exists : doc[o].refs \subseteq Live

(* A batch in the trash can be undone: its registrations are its own and   *)
(* all there, so that listing, restoring and purging never raise, and if   *)
(* its documents are untouched then what a restore writes back is valid    *)
(* (the conflict inverse_document_unavailable never is the reason).        *)
BatchCanBeUndone ==
    \A b \in Batches :
        /\ batch[b].assets = Registered(b)
        /\ \A o \in batch[b].changed : Untouched(b, o) => Valid(b, o)

(* A revision names one document: whoever remembers a revision, a browser  *)
(* or a batch, and finds it unchanged finds the document unchanged, so no  *)
(* save and no restore overwrites what another wrote meanwhile.            *)
RevisionNamesDocument ==
    /\ \A c \in Browsers :
          LET o == read[c].owner IN
          o \in exists /\ rev[o] = read[c].revision => doc[o] = read[c].doc
    /\ \A b \in Batches : \A o \in batch[b].changed \cap Revisioned \cap exists :
          rev[o] = batch[b].revision[o] => doc[o] = batch[b].after[o]

(* No step takes a document back to an earlier template bundle: no save of *)
(* a stale browser and no restore of a batch from before a startup.        *)
NeverDowngraded ==
    [][\A o \in exists \cap exists' : doc'[o].bundle >= doc[o].bundle]_vars

-----------------------------------------------------------------------------
(* The inductive invariant of the proofs. *)

\* What a cascade took out of a document is what its batch holds.
Cascades ==
    \A b \in Batches : \A o \in batch[b].changed :
        /\ batch[b].before[o].refs \subseteq batch[b].after[o].refs \cup batch[b].assets
        /\ batch[b].before[o].bundle = batch[b].after[o].bundle

\* Nobody remembers a project that is not born or a revision to come.
Memories ==
    /\ \A c \in Browsers :
          LET o == read[c].owner IN
          o \notin unborn /\ (o \in exists => read[c].revision <= rev[o])
    /\ \A b \in Batches : \A o \in batch[b].changed :
          o \notin unborn /\ (o \in exists => batch[b].revision[o] <= rev[o])

TrashInvariant ==
    /\ TrashTypeOK
    /\ SavedReferencesAreLive
    /\ \A b \in Batches : batch[b].assets = Registered(b)
    /\ RevisionNamesDocument
    /\ Cascades /\ Memories
=============================================================================
