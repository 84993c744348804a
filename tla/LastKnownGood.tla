--------------------------- MODULE LastKnownGood ---------------------------
(***************************************************************************)
(* core/persistence/LastKnownGoodFile: a document in a file with a backup  *)
(* beside it.  Settings, profiles, forwarding rules, scripts, permission   *)
(* rules, the keychain and the conversation store are kept this way.       *)
(*                                                                         *)
(* Both files are replaced atomically (QSaveFile), so a crash falls        *)
(* between two replacements, never into one.  What a file holds is one of  *)
(* Documents, or it is missing, damaged (also: too large), or written by a *)
(* newer version of the program.                                           *)
(***************************************************************************)
CONSTANT Documents

Missing == "missing"
Broken  == "broken"
Newer   == "newer"
None    == "none"

ASSUME DocumentAssumption == Documents \cap {Missing, Broken, Newer, None} = {}

VARIABLES
    primary,    \* what the file holds
    backup,     \* what <file>.bak holds
    saving      \* the document of a save under way, and the file it writes next

filevars == <<primary, backup, saving>>

Contents == Documents \cup {Missing, Broken, Newer}
NotSaving == [doc |-> None, next |-> None]

FileTypeOK ==
    /\ primary \in Contents
    /\ backup \in Contents
    /\ saving \in {NotSaving} \cup [doc : Documents, next : {"backup", "primary"}]

FileInit ==
    /\ primary = Missing /\ backup = Missing
    /\ saving = NotSaving

\* loadLastKnownGood(): None is an empty result, Broken an error.
Loaded ==
    IF primary \in Documents \cup {Newer} THEN primary
    ELSE IF backup \in Documents THEN backup
    ELSE IF primary = Missing THEN None ELSE Broken

\* The same when the file cannot be read just then.
LoadedFromBackup == IF backup \in Documents THEN backup ELSE Broken

-----------------------------------------------------------------------------
\* saveLastKnownGood() is called with a document its validator accepts.
Save(d) ==
    /\ saving = NotSaving
    /\ d \in Documents
    /\ saving' = [doc |-> d, next |-> "backup"]
    /\ UNCHANGED <<primary, backup>>

\* Seeded fault: whatever the file holds is backed up.
AnyPrimary == primary # Newer

\* Seeded fault: nothing is backed up.
NoPrimary == FALSE

\* The validator accepts the current file.
PrimaryIsValid == primary \in Documents

\* The current file is copied to the backup if the validator accepts it.
BackUp ==
    /\ saving.next = "backup" /\ primary # Newer
    /\ backup' = IF PrimaryIsValid THEN primary ELSE backup
    /\ saving' = [saving EXCEPT !.next = "primary"]
    /\ UNCHANGED primary

ReplacePrimary ==
    /\ saving.next = "primary"
    /\ primary' = saving.doc
    /\ saving' = NotSaving
    /\ UNCHANGED backup

\* A file of a newer version is not touched; else the directory, a read or one
\* of the writes fails, or the program dies between them.
Abandon ==
    /\ saving # NotSaving
    /\ saving' = NotSaving
    /\ UNCHANGED <<primary, backup>>

-----------------------------------------------------------------------------
\* One of the two files is damaged or deleted while the other is whole.  Bound:
\* not in the course of a save.
DamagePrimary ==
    /\ saving = NotSaving /\ backup \in Documents
    /\ primary' \in {Missing, Broken}
    /\ UNCHANGED <<backup, saving>>

DamageBackup ==
    /\ saving = NotSaving /\ primary \in Documents
    /\ backup' \in {Missing, Broken}
    /\ UNCHANGED <<primary, saving>>

\* A newer version of the program saves.
Upgrade ==
    /\ saving = NotSaving
    /\ primary' = Newer
    /\ backup' = IF primary \in Documents \cup {Newer} THEN primary ELSE backup
    /\ UNCHANGED saving

FileNext ==
    \/ \E d \in Documents : Save(d)
    \/ BackUp \/ ReplacePrimary \/ Abandon
    \/ DamagePrimary \/ DamageBackup \/ Upgrade

FileSpec == FileInit /\ [][FileNext]_filevars

-----------------------------------------------------------------------------
(***************************************************************************)
(* Properties                                                              *)
(***************************************************************************)
\* Once a document has been saved, a load returns one, wherever a save was cut
\* off and whichever of the files was damaged: the program does not start empty.
CopySurvives ==
    \/ primary = Missing /\ backup = Missing
    \/ Loaded \in Documents \cup {Newer}

\* What the refinement rests on: when the primary is about to be replaced, it is
\* the document in the backup.
BackedUpFirst ==
    saving.next = "primary" =>
        /\ primary # Newer
        /\ primary \in Documents => backup = primary

Saved == INSTANCE SavedDocument WITH
    latest  <- Loaded,
    earlier <- IF backup \in Documents THEN backup ELSE None

\* The pair of files implements a document with one earlier generation: no save
\* drops the latest document before it is the earlier one, and none replaces a
\* document of a newer version.
ImplementsSavedDocument == Saved!Spec

=============================================================================
