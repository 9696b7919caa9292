\* Two assets, two batches, one project, one draft.
CONSTANTS
    Timeline = Timeline
    Projects = {p1}
    Drafts = {d1}
    Assets = {a1, a2}
    Batches = {b1, b2}
    Browsers = {c1}
    None = None
    MaxRevision = 3
SYMMETRY TrashSymmetry
SPECIFICATION Spec
INVARIANTS
    TrashTypeOK
    SavedReferencesAreLive
    BatchCanBeUndone
    RevisionNamesDocument
PROPERTY NeverDowngraded
CHECK_DEADLOCK FALSE
