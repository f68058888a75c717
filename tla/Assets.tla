------------------------------- MODULE Assets -------------------------------
(***************************************************************************)
(* Assets: files on a volume, rows that name them, and the formats,        *)
(* templates and overlays that use them.  A file is named after what is in *)
(* it and after its upload, so uploading it again makes a second row for   *)
(* one file.  Every step of a request is one call on the disk or on the    *)
(* database; documents are saved meanwhile.                                *)
(***************************************************************************)
EXTENDS Naturals, Sequences, FiniteSets

CONSTANTS
    Files,          \* stored names
    Escaped,        \* those with characters that JSON writes as escapes
    Stores,         \* threads serving requests on assets
    AssetDocuments, \* documents; the formats among them are:
    AssetFormats,
    NoAsset,        \* no file
    MaxUploads,     \* bound: uploads
    MaxRemovals,    \* bound: deletions
    MaxSaves        \* bound: documents saved

ASSUME AssetsAssumption ==
    /\ Escaped \subseteq Files /\ AssetFormats \subseteq AssetDocuments
    /\ NoAsset \notin Files
    /\ {MaxUploads, MaxRemovals, MaxSaves} \subseteq Nat

VARIABLES
    disk,        \* files on the volume
    assets,      \* assets[i]: the file row i names, NoAsset once it is deleted
    uses,        \* uses[d]: files document d names
    job,         \* job[s]: what thread s does next, for which row and file
    removals, saves,
    late         \* history: <<s, d>>, d was saved after s counted

assetVars == <<disk, assets, uses, job, removals, saves, late>>

Rest == [at |-> "rest", row |-> 0, file |-> NoAsset]

AssetJobs ==
    [at : {"rest", "insert", "count", "unlink", "delete"}, row : Nat, file : Files \cup {NoAsset}]

AssetsInit ==
    /\ disk = {} /\ assets = <<>>
    /\ uses = [d \in AssetDocuments |-> {}]
    /\ job = [s \in Stores |-> Rest]
    /\ removals = 0 /\ saves = 0
    /\ late = {}

-----------------------------------------------------------------------------
(* upload_asset(): save().                                                 *)

Uploading == {s \in Stores : job[s].at = "insert"}

WriteFile(s) ==
    /\ job[s].at = "rest" /\ Len(assets) + Cardinality(Uploading) < MaxUploads
    /\ \E f \in Files :
         /\ disk' = disk \cup {f}
         /\ job' = [job EXCEPT ![s] = [Rest EXCEPT !.at = "insert", !.file = f]]
    /\ UNCHANGED <<assets, uses, removals, saves, late>>

InsertAsset(s) ==
    /\ job[s].at = "insert"
    /\ assets' = Append(assets, job[s].file)
    /\ job' = [job EXCEPT ![s] = Rest]
    /\ UNCHANGED <<disk, uses, removals, saves, late>>

-----------------------------------------------------------------------------
(* delete_asset(): delete().                                               *)

\* The row is found, or the answer is 404.
FindAsset(s) ==
    /\ job[s].at = "rest" /\ removals < MaxRemovals
    /\ removals' = removals + 1
    /\ \E i \in DOMAIN assets :
         /\ assets[i] # NoAsset
         /\ job' = [job EXCEPT ![s] = [at |-> "count", row |-> i, file |-> assets[i]]]
    /\ UNCHANGED <<disk, assets, uses, saves, late>>

\* Seeded fault: the templates are looked at instead.
Referenced_ByTemplates(f) == \E d \in AssetDocuments \ AssetFormats : f \in uses[d]

\* COUNT(*) of the formats LIKE the quoted name; the wildcards of LIKE in a name,
\* which only make it refuse more, are left out.
Referenced(f) == f \notin Escaped /\ \E d \in AssetFormats : f \in uses[d]

\* 409 if a format names it.
CountReferences(s) ==
    /\ job[s].at = "count"
    /\ job' = [job EXCEPT ![s] = IF Referenced(job[s].file) THEN Rest ELSE [@ EXCEPT !.at = "unlink"]]
    /\ late' = {pair \in late : pair[1] # s}
    /\ UNCHANGED <<disk, assets, uses, removals, saves>>

Unlink(s) ==
    /\ job[s].at = "unlink"
    /\ disk' = disk \ {job[s].file}
    /\ job' = [job EXCEPT ![s].at = "delete"]
    /\ UNCHANGED <<assets, uses, removals, saves, late>>

DeleteAsset(s) ==
    /\ job[s].at = "delete"
    /\ assets' = [assets EXCEPT ![job[s].row] = NoAsset]
    /\ job' = [job EXCEPT ![s] = Rest]
    /\ UNCHANGED <<disk, uses, removals, saves, late>>

\* A document is saved: nobody looks whether its assets are there.
SaveDocument(d) ==
    /\ saves < MaxSaves
    /\ saves' = saves + 1
    /\ \E used \in SUBSET Files : uses' = [uses EXCEPT ![d] = used]
    /\ late' = late \cup {<<s, d>> : s \in {t \in Stores : job[t].at = "unlink"}}
    /\ UNCHANGED <<disk, assets, job, removals>>

AssetsNext ==
    \/ \E s \in Stores :
         \/ WriteFile(s) \/ InsertAsset(s)
         \/ FindAsset(s) \/ CountReferences(s) \/ Unlink(s) \/ DeleteAsset(s)
    \/ \E d \in AssetDocuments : SaveDocument(d)

AssetsSpec == AssetsInit /\ [][AssetsNext]_assetVars

-----------------------------------------------------------------------------
(* Properties.                                                             *)

\* Every variable has its type.
AssetsTypeOK ==
    /\ disk \subseteq Files
    /\ assets \in Seq(Files \cup {NoAsset})
    /\ uses \in [AssetDocuments -> SUBSET Files]
    /\ job \in [Stores -> AssetJobs]
    /\ removals \in 0..MaxRemovals /\ saves \in 0..MaxSaves
    /\ late \subseteq Stores \X AssetDocuments

\* A file goes only at the hand of a deletion that, when it counted, found no
\* format with it: no format that was saved before loses a file, whatever the
\* number of rows that name it and of deletions under way, but for names JSON escapes.
FormatsKeepTheirFiles ==
    [][\A f \in (disk \ disk') \ Escaped, d \in AssetFormats :
         f \in uses[d] =>
             \E s \in Stores : job[s].at = "unlink" /\ job[s].file = f /\ <<s, d>> \in late]_assetVars
=============================================================================
