-------------------------- MODULE CredentialsProofs --------------------------
(***************************************************************************)
(* What is proved of the files with a backup and of the operations on      *)
(* credentials: for every set of documents, a load finds one and the pair  *)
(* of files is a document with an earlier generation; for any number of    *)
(* secrets, operations and faults, an operation that is cut off loses no   *)
(* secret and one that fails puts back every secret it can.                *)
(***************************************************************************)
EXTENDS Credentials, FiniteSetTheorems, SequenceTheorems, TLAPS

\* The inductive invariant: types, a document that survives, and a primary that
\* is in the backup before it is replaced.
FileInv == FileTypeOK /\ CopySurvives /\ BackedUpFirst

LEMMA InitFileInv == FileInit => FileInv
  BY DEF FileInit, FileInv, FileTypeOK, CopySurvives, BackedUpFirst, Contents, NotSaving, None

\* The words for what is no document are none.
LEMMA DocumentsAreApart ==
    /\ Missing \notin Documents /\ Broken \notin Documents
    /\ Newer \notin Documents /\ None \notin Documents
  BY DocumentAssumption

LEMMA SaveKeeps == ASSUME FileInv, NEW d \in Documents, Save(d) PROVE FileInv'
  BY DEF Save, FileInv, FileTypeOK, CopySurvives, BackedUpFirst, Loaded, Contents, NotSaving, None

LEMMA BackUpKeeps == ASSUME FileInv, BackUp PROVE FileInv'
<1>1. saving \in [doc : Documents, next : {"backup", "primary"}]
  BY DEF BackUp, FileInv, FileTypeOK, NotSaving, None
<1>2. saving' = [saving EXCEPT !.next = "primary"] /\ primary' = primary
  BY DEF BackUp
<1>3. backup' \in Contents
  BY DEF BackUp, FileInv, FileTypeOK, Contents, PrimaryIsValid
<1>4. FileTypeOK'
  BY <1>1, <1>2, <1>3 DEF FileInv, FileTypeOK
<1>5. CopySurvives'
  BY <1>2, DocumentsAreApart DEF BackUp, PrimaryIsValid, FileInv, FileTypeOK, CopySurvives, Loaded, Contents
<1>6. BackedUpFirst'
  BY <1>2 DEF BackUp, PrimaryIsValid, BackedUpFirst
<1> QED BY <1>4, <1>5, <1>6 DEF FileInv

LEMMA ReplaceKeeps == ASSUME FileInv, ReplacePrimary PROVE FileInv'
<1>1. saving.doc \in Documents
  BY DEF ReplacePrimary, FileInv, FileTypeOK, NotSaving, None
<1>2. primary' = saving.doc /\ backup' = backup /\ saving' = NotSaving
  BY DEF ReplacePrimary
<1>3. FileTypeOK'
  BY <1>1, <1>2 DEF FileInv, FileTypeOK, Contents
<1>4. CopySurvives'
  BY <1>1, <1>2 DEF CopySurvives, Loaded
<1>5. BackedUpFirst'
  BY <1>2 DEF BackedUpFirst, NotSaving, None
<1> QED BY <1>3, <1>4, <1>5 DEF FileInv

LEMMA AbandonKeeps == ASSUME FileInv, Abandon PROVE FileInv'
<1>1. primary' = primary /\ backup' = backup /\ saving' = NotSaving
  BY DEF Abandon
<1>2. FileTypeOK' /\ CopySurvives'
  BY <1>1 DEF FileInv, FileTypeOK, CopySurvives, Loaded
<1>3. BackedUpFirst'
  BY <1>1 DEF BackedUpFirst, NotSaving, None
<1> QED BY <1>2, <1>3 DEF FileInv

LEMMA DamageKeeps == ASSUME FileInv, DamagePrimary \/ DamageBackup PROVE FileInv'
<1>1. saving = NotSaving /\ saving' = saving
  BY DEF DamagePrimary, DamageBackup
<1>2. BackedUpFirst'
  BY <1>1 DEF BackedUpFirst, NotSaving, None
<1>3. CASE DamagePrimary
  <2>1. backup \in Documents /\ backup' = backup /\ primary' \in {Missing, Broken}
    BY <1>3 DEF DamagePrimary
  <2>2. primary' \notin Documents \cup {Newer}
    BY <2>1, DocumentsAreApart DEF Missing, Broken, Newer
  <2>3. CopySurvives'
    BY <2>1, <2>2 DEF CopySurvives, Loaded
  <2>4. FileTypeOK'
    BY <1>1, <2>1 DEF FileInv, FileTypeOK, Contents
  <2> QED BY <1>2, <2>3, <2>4 DEF FileInv
<1>4. CASE DamageBackup
  <2>1. primary \in Documents /\ primary' = primary /\ backup' \in {Missing, Broken}
    BY <1>4 DEF DamageBackup
  <2>2. CopySurvives'
    BY <2>1 DEF CopySurvives, Loaded
  <2>3. FileTypeOK'
    BY <1>1, <2>1 DEF FileInv, FileTypeOK, Contents
  <2> QED BY <1>2, <2>2, <2>3 DEF FileInv
<1> QED BY <1>3, <1>4

LEMMA UpgradeKeeps == ASSUME FileInv, Upgrade PROVE FileInv'
  BY DEF Upgrade, FileInv, FileTypeOK, CopySurvives, BackedUpFirst, Loaded, Contents, NotSaving, None

LEMMA FileStepKeeps == FileInv /\ [FileNext]_filevars => FileInv'
<1> SUFFICES ASSUME FileInv, [FileNext]_filevars PROVE FileInv'
  OBVIOUS
<1>1. CASE FileNext
  BY <1>1, SaveKeeps, BackUpKeeps, ReplaceKeeps, AbandonKeeps, DamageKeeps, UpgradeKeeps DEF FileNext
<1>2. CASE UNCHANGED filevars
  BY <1>2 DEF filevars, FileInv, FileTypeOK, CopySurvives, BackedUpFirst, Loaded
<1> QED BY <1>1, <1>2

LEMMA FileInvariant == FileSpec => []FileInv
<1>1. FileInit => FileInv BY InitFileInv
<1>2. FileInv /\ [FileNext]_filevars => FileInv' BY FileStepKeeps
<1> QED BY <1>1, <1>2, PTL DEF FileSpec

\* A load finds a document from the first save on, for every cut of a save and
\* every single damage.
THEOREM DocumentSurvives == FileSpec => []CopySurvives
<1>1. FileInv => CopySurvives BY DEF FileInv
<1> QED BY <1>1, FileInvariant, PTL

-----------------------------------------------------------------------------
(***************************************************************************)
(* The refinement: each step of a save, and each damage, is a step of the  *)
(* document with one earlier generation, or changes nothing of it.         *)
(***************************************************************************)
Earlier == IF backup \in Documents THEN backup ELSE None

LEMMA InitRefines == FileInit => Saved!Init
  BY DocumentsAreApart DEF FileInit, Saved!Init, Saved!None, Loaded, None, Missing, Newer

LEMMA BackUpRefines ==
    ASSUME FileInv, BackUp
    PROVE  Saved!Remember \/ UNCHANGED <<Loaded, Earlier>>
<1>1. CASE primary \in Documents
  <2>1. primary' = primary /\ backup' = primary
    BY <1>1 DEF BackUp, PrimaryIsValid
  <2> QED BY <1>1, <2>1 DEF Saved!Remember, Loaded
<1>2. CASE primary \notin Documents
  BY <1>2 DEF BackUp, PrimaryIsValid, Loaded, Earlier
<1> QED BY <1>1, <1>2

LEMMA ReplaceRefines == ASSUME FileInv, ReplacePrimary PROVE Saved!Replace
<1>1. saving.doc \in Documents /\ saving.next = "primary"
  BY DEF ReplacePrimary, FileInv, FileTypeOK, NotSaving, None
<1>2. primary' = saving.doc /\ backup' = backup
  BY DEF ReplacePrimary
<1>3. primary # Newer
  BY <1>1 DEF FileInv, BackedUpFirst
<1>4. Loaded # Newer /\ Loaded' = saving.doc /\ Earlier' = Earlier
  BY <1>1, <1>2, <1>3, DocumentsAreApart DEF Loaded, Earlier, None, Broken, Newer
<1>5. Earlier = Loaded
  <2>1. CASE primary \in Documents
    BY <1>1, <2>1 DEF FileInv, BackedUpFirst, Loaded, Earlier
  <2>2. CASE primary \notin Documents /\ backup \in Documents
    BY <1>3, <2>2 DEF Loaded, Earlier
  <2>3. CASE primary \notin Documents /\ backup \notin Documents
    BY <1>3, <2>3, DocumentsAreApart DEF FileInv, CopySurvives, Loaded, Earlier, None, Broken, Newer, Missing
  <2> QED BY <2>1, <2>2, <2>3
<1> QED BY <1>1, <1>4, <1>5 DEF Saved!Replace, Saved!Newer, Saved!None, Earlier, Newer, None

LEMMA DamagePrimaryRefines == ASSUME FileInv, DamagePrimary PROVE Saved!FallBack
<1>1. backup \in Documents /\ backup' = backup /\ primary' \in {Missing, Broken}
  BY DEF DamagePrimary
<1>2. primary' \notin Documents \cup {Newer}
  BY <1>1, DocumentsAreApart DEF Missing, Broken, Newer
<1>3. Loaded' = backup
  BY <1>1, <1>2 DEF Loaded
<1> QED BY <1>1, <1>3, DocumentsAreApart DEF Saved!FallBack, Saved!None, None

LEMMA DamageBackupRefines == ASSUME FileInv, DamageBackup PROVE Saved!Forget
<1>1. primary \in Documents /\ primary' = primary /\ backup' \notin Documents
  BY DocumentsAreApart DEF DamageBackup
<1> QED BY <1>1, DocumentsAreApart DEF Saved!Forget, Saved!None, Loaded, None

LEMMA UpgradeRefines == ASSUME FileInv, Upgrade PROVE Saved!Upgrade
<1>1. Loaded' = Newer
  BY DEF Upgrade, Loaded
<1>2. Earlier' \in {Loaded, Earlier, None} \ {Newer}
  BY DocumentsAreApart DEF Upgrade, Loaded, Earlier, None, Newer
<1> QED BY <1>1, <1>2 DEF Saved!Upgrade, Saved!Newer, Saved!None, Earlier, Newer, None

LEMMA StepRefines ==
    FileInv /\ [FileNext]_filevars => [Saved!Next]_<<Loaded, Earlier>>
<1> SUFFICES ASSUME FileInv, [FileNext]_filevars PROVE [Saved!Next]_<<Loaded, Earlier>>
  OBVIOUS
<1>1. CASE primary' = primary /\ backup' = backup
  BY <1>1 DEF Loaded, Earlier
<1>2. CASE BackUp
  BY <1>2, BackUpRefines DEF Saved!Next
<1>3. CASE ReplacePrimary
  BY <1>3, ReplaceRefines DEF Saved!Next
<1>4. CASE DamagePrimary
  BY <1>4, DamagePrimaryRefines DEF Saved!Next
<1>5. CASE DamageBackup
  BY <1>5, DamageBackupRefines DEF Saved!Next
<1>6. CASE Upgrade
  BY <1>6, UpgradeRefines DEF Saved!Next
<1> QED BY <1>1, <1>2, <1>3, <1>4, <1>5, <1>6 DEF FileNext, Save, Abandon, filevars

\* No save drops the latest document before it is the earlier one, and none
\* replaces a document of a newer version.
THEOREM FileImplements == FileSpec => ImplementsSavedDocument
<1>1. FileInv /\ [FileNext]_filevars
        => [Saved!Next]_<<Loaded, IF backup \in Documents THEN backup ELSE None>>
  BY StepRefines DEF Earlier
<1> QED BY InitRefines, FileInvariant, <1>1, PTL DEF FileSpec, ImplementsSavedDocument, Saved!Spec

-----------------------------------------------------------------------------
(***************************************************************************)
(* The settings file within the operations on credentials.                 *)
(***************************************************************************)
LEMMA RestartIsAbandon == ASSUME Restart PROVE Abandon \/ UNCHANGED filevars
  BY DEF Restart, Abandon, filevars

\* An operation on credentials moves the settings file as LastKnownGood does.
LEMMA CredentialStepIsFileStep == [Next]_vars => [FileNext]_filevars
<1> SUFFICES ASSUME [Next]_vars PROVE [FileNext]_filevars
  OBVIOUS
<1>1. CASE UNCHANGED filevars
  BY <1>1
<1>2. CASE SaveStorage
  BY <1>2 DEF SaveStorage, Save, FileNext
<1>3. CASE BackUpSettings
  BY <1>3 DEF BackUpSettings, FileNext
<1>4. CASE SettingsSaved
  BY <1>4 DEF SettingsSaved, FileNext
<1>5. CASE SettingsNotSaved
  BY <1>5 DEF SettingsNotSaved, FileNext
<1>6. CASE Restart
  BY <1>6, RestartIsAbandon DEF FileNext
<1>7. CASE FileFault
  BY <1>7 DEF FileFault, FileNext
<1>8. CASE UNCHANGED vars
  BY <1>8 DEF vars
<1> QED BY <1>1, <1>2, <1>3, <1>4, <1>5, <1>6, <1>7, <1>8
        DEF Next, Migrate, Clear, SaveProfile, SaveSettings, WriteSecret, WriteFails, UndoWrite,
            ReportFailure, ProfilesSaved, ProfilesNotSaved, OpenPortable, LockPortable

\* What is proved of the file holds of the settings, whatever migrations do and
\* wherever the program dies.
THEOREM SettingsSurvive == Spec => []CopySurvives
<1>1. Init => FileInit BY DEF Init
<1> QED BY <1>1, CredentialStepIsFileStep, DocumentSurvives, PTL DEF Spec, FileSpec

THEOREM SettingsImplement == Spec => ImplementsSavedDocument
<1>1. Init => FileInit BY DEF Init
<1> QED BY <1>1, CredentialStepIsFileStep, FileImplements, PTL DEF Spec, FileSpec

-----------------------------------------------------------------------------
(***************************************************************************)
(* The writes of an operation: no key of a vault is written twice by one.  *)
(* So what each write leaves is what a start is meant to find, and undoing *)
(* them one by one leads back.                                             *)
(***************************************************************************)
Touches(w, v, k) == w.vault = v /\ w.key = k

Distinct(s) == \A i, j \in DOMAIN s : Touches(s[i], s[j].vault, s[j].key) => i = j
Apart(s, t) == \A x \in Range(s), y \in Range(t) : ~Touches(x, y.vault, y.key)

\* Every write of an operation goes to one vault, each to a key of its own.
Planned(todo, v) ==
    /\ todo \in Seq(Writes) /\ Distinct(todo)
    /\ \A i \in DOMAIN todo : todo[i].vault = v

\* A profile has few credentials.
LEMMA KeysFinite == IsFiniteSet(Keys)
<1>1. Keys \subseteq {"password", "passphrase", "proxyPassword"}
  BY DEF Keys, Kinds
<1>2. {"password", "passphrase", "proxyPassword"}
        = ((({} \cup {"password"}) \cup {"passphrase"}) \cup {"proxyPassword"})
  OBVIOUS
<1>3. IsFiniteSet({"password", "passphrase", "proxyPassword"})
  <2>1. IsFiniteSet({} \cup {"password"})
    BY FS_EmptySet, FS_AddElement
  <2>2. IsFiniteSet(({} \cup {"password"}) \cup {"passphrase"})
    BY <2>1, FS_AddElement
  <2>3. IsFiniteSet((({} \cup {"password"}) \cup {"passphrase"}) \cup {"proxyPassword"})
    BY <2>2, FS_AddElement
  <2> QED BY <1>2, <2>3
<1> QED BY <1>1, <1>3, FS_Subset

\* A list of the elements of a set of keys names none of them twice.
LEMMA KeyList ==
    ASSUME NEW S \in SUBSET Keys
    PROVE  /\ SetToSeq(S) \in Seq(S)
           /\ \A i, j \in DOMAIN SetToSeq(S) : SetToSeq(S)[i] = SetToSeq(S)[j] => i = j
<1>1. IsFiniteSet(S)
  BY KeysFinite, FS_Subset
<1>2. Cardinality(S) \in Nat /\ ExistsBijection(1..Cardinality(S), S)
  BY <1>1, FS_CardinalityType
<1>3. PICK f \in [1..Cardinality(S) -> S] : IsInjective(f)
  BY <1>2 DEF ExistsBijection, Bijection, Injection
<1>4. SetToSeq(S) \in [1..Cardinality(S) -> S] /\ IsInjective(SetToSeq(S))
  BY <1>3 DEF SetToSeq
<1> QED BY <1>2, <1>4 DEF IsInjective

\* Writes of one vault, a key each.
LEMMA PlanFromList ==
    ASSUME NEW S \in SUBSET Keys, NEW v \in Storages, NEW secret \in Vaults
    PROVE  LET todo == [i \in DOMAIN SetToSeq(S) |-> Write(v, SetToSeq(S)[i], secret[SetToSeq(S)[i]])]
           IN  /\ Planned(todo, v)
               /\ \A i \in DOMAIN todo : /\ todo[i].key \in S
                                         /\ todo[i].secret = secret[todo[i].key]
<1> DEFINE list == SetToSeq(S)
           todo == [i \in DOMAIN list |-> Write(v, list[i], secret[list[i]])]
<1>1. list \in Seq(S) /\ \A i, j \in DOMAIN list : list[i] = list[j] => i = j
  BY KeyList
<1> HIDE DEF list
<1>2. Len(list) \in Nat /\ DOMAIN list = 1..Len(list) /\ \A i \in DOMAIN list : list[i] \in S
  BY <1>1
<1>3. \A i \in DOMAIN list : /\ todo[i].vault = v /\ todo[i].key = list[i]
                             /\ todo[i].secret = secret[list[i]] /\ todo[i] \in Writes
  BY <1>2 DEF Write, Writes, Vaults
<1>4. DOMAIN todo = DOMAIN list /\ todo \in Seq(Writes)
  BY <1>2, <1>3
<1> HIDE DEF todo
<1>5. Planned(todo, v)
  BY <1>1, <1>3, <1>4 DEF Planned, Distinct, Touches
<1> QED BY <1>2, <1>3, <1>4, <1>5 DEF todo, list

\* One plan after another, for other keys.
LEMMA PlanJoined ==
    ASSUME NEW v, NEW s, NEW t, Planned(s, v), Planned(t, v),
           \A i \in DOMAIN s, j \in DOMAIN t : s[i].key # t[j].key
    PROVE  Planned(s \o t, v)
<1>1. s \in Seq(Writes) /\ t \in Seq(Writes) /\ s \o t \in Seq(Writes)
  BY DEF Planned
<1>2. /\ DOMAIN s = 1..Len(s) /\ DOMAIN t = 1..Len(t) /\ Len(s) \in Nat /\ Len(t) \in Nat
      /\ DOMAIN (s \o t) = 1..(Len(s) + Len(t))
      /\ \A i \in 1..(Len(s) + Len(t)) :
            (s \o t)[i] = IF i <= Len(s) THEN s[i] ELSE t[i - Len(s)]
  BY <1>1
<1>3. \A i \in DOMAIN (s \o t) :
         \/ i \in DOMAIN s /\ (s \o t)[i] = s[i]
         \/ i - Len(s) \in DOMAIN t /\ (s \o t)[i] = t[i - Len(s)]
  BY <1>2
<1>4. \A i \in DOMAIN (s \o t) : i \in Int
  BY <1>2
<1>5. \A i \in DOMAIN (s \o t) : (s \o t)[i].vault = v
  BY <1>3 DEF Planned
<1>6. ASSUME NEW i \in DOMAIN (s \o t), NEW j \in DOMAIN (s \o t),
             (s \o t)[i].key = (s \o t)[j].key
      PROVE  i = j
  <2>1. CASE i \in DOMAIN s /\ j \in DOMAIN s /\ (s \o t)[i] = s[i] /\ (s \o t)[j] = s[j]
    BY <1>6, <2>1 DEF Planned, Distinct, Touches
  <2>2. CASE /\ i - Len(s) \in DOMAIN t /\ j - Len(s) \in DOMAIN t
             /\ (s \o t)[i] = t[i - Len(s)] /\ (s \o t)[j] = t[j - Len(s)]
    <3>1. i - Len(s) = j - Len(s)
      BY <1>6, <2>2 DEF Planned, Distinct, Touches
    <3> QED BY <1>2, <1>4, <3>1
  <2> QED BY <1>3, <1>6, <2>1, <2>2
<1> QED BY <1>1, <1>5, <1>6 DEF Planned, Distinct, Touches

\* What the secrets of a vault are once a plan was carried out.
LEMMA AfterPlan ==
    ASSUME NEW secrets \in Vaults, NEW v, NEW u, NEW todo, Planned(todo, u)
    PROVE  /\ After(secrets, v, todo) \in Vaults
           /\ \A i \in DOMAIN todo : v = u => After(secrets, v, todo)[todo[i].key] = todo[i].secret
           /\ \A k \in Keys : (\A i \in DOMAIN todo : ~Touches(todo[i], v, k))
                                => After(secrets, v, todo)[k] = secrets[k]
<1>1. \A i \in DOMAIN todo : /\ todo[i].secret \in Secrets \cup {None}
                             /\ todo[i].key \in Keys /\ todo[i].vault = u
                             /\ i \in Int
  <2>1. \A i \in DOMAIN todo : todo[i] \in Writes /\ i \in Int
    BY DEF Planned
  <2> QED BY <2>1 DEF Planned, Writes
<1>2. ASSUME NEW k \in Keys, NEW i \in WritesOf(v, k, todo)
      PROVE  LastOf(WritesOf(v, k, todo)) = i
  <2>1. WritesOf(v, k, todo) = {i}
    BY <1>2 DEF WritesOf, Planned, Distinct, Touches
  <2>2. i <= i
    BY <1>1, <1>2 DEF WritesOf
  <2> QED BY <2>1, <2>2 DEF LastOf
<1>3. \A k \in Keys : After(secrets, v, todo)[k] =
                        IF WritesOf(v, k, todo) = {} THEN secrets[k]
                        ELSE todo[LastOf(WritesOf(v, k, todo))].secret
  BY DEF After
<1>4. ASSUME NEW k \in Keys, WritesOf(v, k, todo) # {}
      PROVE  \E i \in DOMAIN todo : i \in WritesOf(v, k, todo)
                                    /\ After(secrets, v, todo)[k] = todo[i].secret
  <2>1. PICK i \in WritesOf(v, k, todo) : TRUE
    BY <1>4
  <2> QED BY <1>2, <1>3, <1>4, <2>1 DEF WritesOf
<1>5. \A k \in Keys : After(secrets, v, todo)[k] \in Secrets \cup {None}
  BY <1>1, <1>3, <1>4 DEF Vaults
<1>6. After(secrets, v, todo) \in Vaults
  <2>1. After(secrets, v, todo) = [k \in Keys |-> After(secrets, v, todo)[k]]
    BY DEF After
  <2> QED BY <1>5, <2>1 DEF Vaults
<1>7. ASSUME NEW i \in DOMAIN todo, v = u
      PROVE  After(secrets, v, todo)[todo[i].key] = todo[i].secret
  <2>1. i \in WritesOf(v, todo[i].key, todo) /\ todo[i].key \in Keys
    BY <1>1, <1>7 DEF WritesOf
  <2> QED BY <1>2, <1>3, <2>1
<1>8. ASSUME NEW k \in Keys, \A i \in DOMAIN todo : ~Touches(todo[i], v, k)
      PROVE  After(secrets, v, todo)[k] = secrets[k]
  <2>1. WritesOf(v, k, todo) = {}
    BY <1>8 DEF WritesOf, Touches
  <2> QED BY <1>3, <2>1
<1> QED BY <1>6, <1>7, <1>8

\* A migration writes the secrets it found, to the target.
LEMMA CopyPlanned ==
    ASSUME TypeOK, NEW target \in Storages, NEW remove
    PROVE  /\ Planned(Copy(target, remove), target)
           /\ \A i \in DOMAIN Copy(target, remove) :
                 Copy(target, remove)[i].secret = vaults[storage][Copy(target, remove)[i].key]
<1> DEFINE S == {k \in Keys : vaults[storage][k] # None}
<1>1. S \in SUBSET Keys /\ vaults[storage] \in Vaults
  BY DEF TypeOK
<1>2. Copy(target, remove)
        = [i \in DOMAIN SetToSeq(S) |-> Write(target, SetToSeq(S)[i], vaults[storage][SetToSeq(S)[i]])]
  BY DEF Copy, Listed
<1> HIDE DEF S
<1> QED BY <1>1, <1>2, PlanFromList

\* Nothing is what a vault without secrets holds.
LEMMA EmptyVault == Empty \in Vaults /\ \A k \in Keys : Empty[k] = None
  BY DEF Empty, Vaults

LEMMA RemovalsPlanned ==
    ASSUME NEW v \in Storages
    PROVE  /\ Planned(Removals(v), v)
           /\ \A i \in DOMAIN Removals(v) : Removals(v)[i].secret = None
<1> DEFINE S == {k \in Keys : vaults[v][k] # None}
           list == SetToSeq(S)
<1>1. S \in SUBSET Keys
  OBVIOUS
<1>2. Removals(v) = [i \in DOMAIN list |-> Write(v, list[i], None)]
  BY DEF Removals, Listed
<1> HIDE DEF S
<1>3. \A i \in DOMAIN list : list[i] \in Keys
  BY <1>1, KeyList
<1>4. Removals(v) = [i \in DOMAIN list |-> Write(v, list[i], Empty[list[i]])]
  BY <1>2, <1>3, EmptyVault
<1>5. /\ Planned(Removals(v), v)
      /\ \A i \in DOMAIN Removals(v) : /\ Removals(v)[i].key \in S
                                       /\ Removals(v)[i].secret = Empty[Removals(v)[i].key]
  BY <1>1, <1>4, EmptyVault, PlanFromList
<1> QED BY <1>1, <1>5, EmptyVault

\* A plan without writes, and one with a single write.
LEMMA ShortPlans ==
    ASSUME NEW v \in Storages
    PROVE  /\ Planned(<<>>, v)
           /\ \A k \in Keys, secret \in Secrets \cup {None} : Planned(<<Write(v, k, secret)>>, v)
<1>1. Planned(<<>>, v)
  BY DEF Planned, Distinct
<1>2. ASSUME NEW w \in Writes, w.vault = v
      PROVE  Planned(<<w>>, v)
  BY <1>2 DEF Planned, Distinct
<1>3. \A k \in Keys, secret \in Secrets \cup {None} :
         Write(v, k, secret) \in Writes /\ Write(v, k, secret).vault = v
  BY DEF Write, Writes
<1> QED BY <1>1, <1>2, <1>3

\* The writes for one credential of a profile are to its kinds.
LEMMA MutationPlanned ==
    ASSUME TypeOK, NEW slot \in Slots, NEW kind \in Kinds(slot), NEW secret \in Secrets \cup {None}
    PROVE  /\ Planned(Mutation(slot, kind, secret), storage)
           /\ \A i \in DOMAIN Mutation(slot, kind, secret) :
                 Mutation(slot, kind, secret)[i].key \in Kinds(slot)
<1> DEFINE previous == refs \cap Kinds(slot)
           stale == IF secret = None THEN previous ELSE previous \ {kind}
           new == IF secret # None THEN <<Write(storage, kind, secret)>> ELSE <<>>
           list == SetToSeq(stale)
           old == [i \in 1..Len(list) |-> Write(storage, list[i], None)]
<1>1. Mutation(slot, kind, secret) = new \o old
  BY DEF Mutation
<1>2. storage \in Storages /\ Kinds(slot) \subseteq Keys /\ stale \in SUBSET Keys
  BY DEF TypeOK, Keys
<1>3. Planned(new, storage) /\ \A i \in DOMAIN new : new[i].key = kind /\ secret # None
  <2>1. CASE secret # None
    <3>1. new = <<Write(storage, kind, secret)>>
      BY <2>1
    <3>2. \A i \in DOMAIN new : new[i] = Write(storage, kind, secret)
      BY <3>1
    <3> QED BY <1>2, <2>1, <3>1, <3>2, ShortPlans DEF Write
  <2>2. CASE secret = None
    BY <1>2, <2>2, ShortPlans
  <2> QED BY <2>1, <2>2
<1>4. /\ stale \subseteq Kinds(slot) /\ (secret # None => kind \notin stale)
  OBVIOUS
<1> HIDE DEF stale, new
<1>5. list \in Seq(stale) /\ DOMAIN list = 1..Len(list) /\ \A i \in DOMAIN list : list[i] \in stale
  BY <1>2, KeyList
<1>6. old = [i \in DOMAIN list |-> Write(storage, list[i], Empty[list[i]])]
  BY <1>2, <1>5, EmptyVault
<1>7. Planned(old, storage) /\ \A i \in DOMAIN old : old[i].key \in stale
  BY <1>2, <1>6, EmptyVault, PlanFromList
<1> HIDE DEF old
<1>8. Planned(new \o old, storage)
  BY <1>3, <1>4, <1>7, PlanJoined
<1>9. \A i \in DOMAIN (new \o old) : (new \o old)[i].key \in Kinds(slot)
  <2>1. new \in Seq(Writes) /\ old \in Seq(Writes)
    BY <1>3, <1>7 DEF Planned
  <2>2. \A i \in DOMAIN (new \o old) :
           \/ i \in DOMAIN new /\ (new \o old)[i] = new[i]
           \/ i - Len(new) \in DOMAIN old /\ (new \o old)[i] = old[i - Len(new)]
    BY <2>1
  <2> QED BY <1>3, <1>4, <1>7, <2>2
<1> QED BY <1>1, <1>8, <1>9

\* What is left of distinct writes when the first or the last of them is taken,
\* and what they are when one is added.
LEMMA TakeHead ==
    ASSUME NEW s \in Seq(Writes), s # <<>>, Distinct(s)
    PROVE  /\ Head(s) \in Writes /\ Tail(s) \in Seq(Writes) /\ Distinct(Tail(s))
           /\ Range(s) = Range(Tail(s)) \cup {Head(s)}
           /\ \A x \in Range(Tail(s)) : ~Touches(x, Head(s).vault, Head(s).key)
<1>1. /\ Len(s) \in Nat \ {0} /\ DOMAIN s = 1..Len(s) /\ Head(s) = s[1]
      /\ Tail(s) \in Seq(Writes) /\ Head(s) \in Writes
      /\ DOMAIN Tail(s) = 1..(Len(s) - 1)
      /\ \A i \in 1..(Len(s) - 1) : Tail(s)[i] = s[i + 1]
  OBVIOUS
<1>2. \A i \in DOMAIN Tail(s) : /\ i \in Int /\ i + 1 \in DOMAIN s /\ i + 1 # 1
                                /\ Tail(s)[i] = s[i + 1]
  BY <1>1
<1>3. \A i \in DOMAIN s : i = 1 \/ (i - 1 \in DOMAIN Tail(s) /\ Tail(s)[i - 1] = s[i])
  BY <1>1
<1>4. 1 \in DOMAIN s
  BY <1>1
<1>5. Range(s) = Range(Tail(s)) \cup {Head(s)}
  <2>1. ASSUME NEW x \in Range(s) PROVE x \in Range(Tail(s)) \cup {Head(s)}
    <3>1. PICK i \in DOMAIN s : x = s[i]
      BY DEF Range
    <3>2. CASE i = 1
      BY <1>1, <3>1, <3>2
    <3>3. CASE i - 1 \in DOMAIN Tail(s) /\ Tail(s)[i - 1] = s[i]
      BY <3>1, <3>3 DEF Range
    <3> QED BY <1>3, <3>2, <3>3
  <2>2. ASSUME NEW x \in Range(Tail(s)) PROVE x \in Range(s)
    BY <1>2 DEF Range
  <2>3. Head(s) \in Range(s)
    BY <1>1, <1>4 DEF Range
  <2> QED BY <2>1, <2>2, <2>3
<1>6. Distinct(Tail(s))
  <2> SUFFICES ASSUME NEW i \in DOMAIN Tail(s), NEW j \in DOMAIN Tail(s),
                      Touches(Tail(s)[i], Tail(s)[j].vault, Tail(s)[j].key)
               PROVE  i = j
    BY DEF Distinct
  <2>1. i + 1 = j + 1
    BY <1>2 DEF Distinct
  <2> QED BY <1>2, <2>1
<1>7. \A i \in DOMAIN Tail(s) : ~Touches(Tail(s)[i], s[1].vault, s[1].key)
  BY <1>2, <1>4 DEF Distinct
<1> QED BY <1>1, <1>5, <1>6, <1>7 DEF Range

LEMMA AddLast ==
    ASSUME NEW s \in Seq(Writes), NEW w \in Writes, Distinct(s),
           \A x \in Range(s) : ~Touches(x, w.vault, w.key)
    PROVE  /\ Append(s, w) \in Seq(Writes) /\ Distinct(Append(s, w))
           /\ Range(Append(s, w)) = Range(s) \cup {w}
<1>1. /\ Len(s) \in Nat /\ DOMAIN s = 1..Len(s)
      /\ Append(s, w) \in Seq(Writes)
      /\ DOMAIN Append(s, w) = 1..(Len(s) + 1)
      /\ \A i \in 1..Len(s) : Append(s, w)[i] = s[i]
      /\ Append(s, w)[Len(s) + 1] = w
  OBVIOUS
<1>2. \A i \in DOMAIN Append(s, w) : \/ i \in DOMAIN s /\ Append(s, w)[i] = s[i]
                                     \/ i = Len(s) + 1 /\ Append(s, w)[i] = w
  BY <1>1
<1>3. DOMAIN Append(s, w) = DOMAIN s \cup {Len(s) + 1}
  BY <1>1
<1>4. Range(Append(s, w)) = Range(s) \cup {w}
  BY <1>1, <1>2, <1>3 DEF Range
<1>5. \A i \in DOMAIN s : /\ ~Touches(s[i], w.vault, w.key)
                          /\ ~Touches(w, s[i].vault, s[i].key)
  BY DEF Range, Touches
<1>6. Distinct(Append(s, w))
  BY <1>2, <1>5 DEF Distinct
<1> QED BY <1>1, <1>4, <1>6

LEMMA TakeLast ==
    ASSUME NEW s \in Seq(Writes), s # <<>>, Distinct(s)
    PROVE  /\ Last(s) \in Writes /\ Front(s) \in Seq(Writes) /\ Distinct(Front(s))
           /\ Range(s) = Range(Front(s)) \cup {Last(s)}
           /\ \A x \in Range(Front(s)) : ~Touches(x, Last(s).vault, Last(s).key)
<1>1. /\ Len(s) \in Nat \ {0} /\ DOMAIN s = 1..Len(s)
      /\ \A i \in DOMAIN s : s[i] \in Writes
  OBVIOUS
<1>2. Last(s) = s[Len(s)] /\ Front(s) = SubSeq(s, 1, Len(s) - 1)
  BY DEF Last, Front
<1>3. /\ Front(s) \in Seq(Writes) /\ DOMAIN Front(s) = 1..(Len(s) - 1)
      /\ \A i \in 1..(Len(s) - 1) : Front(s)[i] = s[i]
  BY <1>1, <1>2
<1>4. \A i \in DOMAIN Front(s) : i \in DOMAIN s /\ i # Len(s) /\ Front(s)[i] = s[i]
  BY <1>1, <1>3
<1>5. \A i \in DOMAIN s : i = Len(s) \/ (i \in DOMAIN Front(s) /\ Front(s)[i] = s[i])
  BY <1>1, <1>3
<1>6. Len(s) \in DOMAIN s
  BY <1>1
<1>7. Range(s) = Range(Front(s)) \cup {Last(s)}
  BY <1>2, <1>4, <1>5, <1>6 DEF Range
<1>8. Distinct(Front(s))
  BY <1>4 DEF Distinct
<1>9. \A x \in Range(Front(s)) : ~Touches(x, Last(s).vault, Last(s).key)
  BY <1>2, <1>4, <1>6 DEF Distinct, Range
<1> QED BY <1>1, <1>2, <1>3, <1>6, <1>7, <1>8, <1>9

-----------------------------------------------------------------------------
(***************************************************************************)
(* The invariant of the operation under way, of its record, the vaults,    *)
(* the vault a start would select and the save of the settings.            *)
(***************************************************************************)
OneWriteEach(o) == Distinct(o.todo) /\ Distinct(o.done) /\ Apart(o.done, o.todo)

\* What was written can be put back, and what was not, or was put back, is as it
\* was; this leaves out the writes whose undoing failed.
Restorable(o, held) ==
    /\ \A w \in Range(o.done) : o.was[w.vault][w.key] = w.secret
    /\ \A v \in Storages, k \in Keys :
          (\A w \in Range(o.done) \cup o.left : ~Touches(w, v, k)) => o.was[v][k] = held[v][k]

\* When an operation writes, when it saves, and what.
Phased(o, file) ==
    /\ o.phase = "saving" <=> file # NotSaving
    /\ o.phase \in {"commit", "saving"} => o.todo = <<>>
    /\ o.phase = "write" => o.todo # <<>>
    /\ o.phase = "saving" => o.kind \in {"migrate", "settings"}
    /\ o.phase = "saving" /\ o.kind = "migrate" => file.doc = o.target
    /\ o.kind = "settings" => o.todo = <<>> /\ o.done = <<>>
    /\ o.phase # "undo" => o.left = {}

\* A migration copies to another vault all that is to be found there.
Arrives(o, held) ==
    o.kind = "migrate" /\ o.phase # "undo" =>
        /\ o.source # o.target
        /\ o.target = "session" => o.goal = Empty
        /\ o.target # "session" =>
              /\ \A w \in Range(o.todo) : w.vault = o.target => w.secret = o.goal[w.key]
              /\ \A k \in Keys : \/ held[o.target][k] = o.goal[k]
                                 \/ \E w \in Range(o.todo) : Touches(w, o.target, k)

\* In the vault a start would select, writes and undoings lead to the secrets
\* of before or to those asked for.
Promised(o, held, selected) ==
    /\ selected # "session" =>
          /\ \A w \in Range(o.todo) : w.vault = selected => w.secret = o.goal[w.key]
          /\ \A w \in Range(o.done) : w.vault = selected => w.secret \in {o.before[w.key], o.goal[w.key]}
          /\ \A k \in Keys : held[selected][k] \in {o.before[k], o.goal[k]}
    /\ selected = "session" => \A k \in Keys : None \in {o.before[k], o.goal[k]}

OpInv(o, held, selected, file) ==
    /\ OneWriteEach(o) /\ Restorable(o, held) /\ Phased(o, file)
    /\ Arrives(o, held) /\ Promised(o, held, selected)

CredInv ==
    /\ TypeOK
    /\ op = NoOp => saving = NotSaving
    /\ op # NoOp => report = None /\ OpInv(op, vaults, SettingsStorage, saving)

\* What an operation's record is made of.
OpParts == {"kind", "phase", "todo", "done", "target", "source", "remove", "refs", "faults",
            "left", "before", "goal", "was"}
OpKinds == {"migrate", "cleanup", "profile", "clear", "clearActive", "settings"}
OpPhases == {"write", "commit", "saving", "undo"}

LEMMA OpFields ==
    ASSUME NEW o \in Operations
    PROVE  /\ o = [f \in OpParts |-> o[f]] /\ o # NoOp
           /\ o.kind \in OpKinds /\ o.phase \in OpPhases
           /\ o.todo \in Seq(Writes) /\ o.done \in Seq(Writes)
           /\ o.target \in Storages /\ o.source \in Storages /\ o.remove \in BOOLEAN
           /\ o.refs \in SUBSET Keys /\ o.faults \in 0..MaxFaults /\ o.left \in SUBSET Writes
           /\ o.before \in Vaults /\ o.goal \in Vaults /\ o.was \in [Storages -> Vaults]
<1>1. o.kind # None
  BY DEF Operations, None
<1> QED BY <1>1 DEF Operations, OpParts, OpKinds, OpPhases, NoOp

\* The vault a start would select is one, and holds secrets.
LEMMA Selected ==
    ASSUME TypeOK
    PROVE  /\ SettingsStorage \in Storages /\ Durable(SettingsStorage) \in Vaults
           /\ SettingsStorage = "session" => \A k \in Keys : Durable(SettingsStorage)[k] = None
           /\ SettingsStorage # "session" => Durable(SettingsStorage) = vaults[SettingsStorage]
  BY CredentialAssumption, EmptyVault DEF SettingsStorage, Durable, TypeOK

\* It does not change unless the files do.
LEMMA SelectedKept ==
    ASSUME UNCHANGED <<primary, backup>>
    PROVE  SettingsStorage' = SettingsStorage
  BY DEF SettingsStorage, Loaded

LEMMA BeginKeeps ==
    ASSUME CredInv, NEW kind \in OpKinds \ {"cleanup"}, NEW v \in Storages, NEW todo, Planned(todo, v),
           NEW goal \in Vaults, NEW target \in Storages, NEW remove \in BOOLEAN,
           NEW newRefs \in SUBSET Keys,
           Begin(kind, todo, goal, target, remove, newRefs),
           UNCHANGED <<filevars, storage, portable, vaults, refs>>,
           SettingsStorage # "session" =>
              \A w \in Range(todo) : w.vault = SettingsStorage => w.secret = goal[w.key],
           kind = "settings" => todo = <<>>,
           kind = "migrate" =>
              /\ target # storage
              /\ target = "session" => goal = Empty
              /\ target # "session" =>
                    /\ \A w \in Range(todo) : w.vault = target => w.secret = goal[w.key]
                    /\ \A k \in Keys : \/ vaults[target][k] = goal[k]
                                       \/ \E w \in Range(todo) : Touches(w, target, k)
    PROVE  CredInv'
<1> DEFINE o == op'
<1>1. /\ primary' = primary /\ backup' = backup /\ saving' = saving /\ saving = NotSaving
      /\ storage' = storage /\ portable' = portable /\ vaults' = vaults /\ refs' = refs
      /\ started \in Nat /\ started' = started + 1 /\ started < MaxOperations /\ report' = None
      /\ TypeOK
  BY CredentialAssumption DEF Begin, Ready, filevars, CredInv, TypeOK
<1>2. op' = [kind |-> kind, phase |-> IF todo = <<>> THEN "commit" ELSE "write",
             todo |-> todo, done |-> <<>>,
             target |-> target, source |-> storage, remove |-> remove, refs |-> newRefs,
             faults |-> 0, left |-> {},
             before |-> Durable(SettingsStorage), goal |-> goal, was |-> vaults]
  BY DEF Begin
<1>3. /\ op'.kind = kind /\ op'.phase = (IF todo = <<>> THEN "commit" ELSE "write")
      /\ op'.todo = todo /\ op'.done = <<>> /\ op'.target = target /\ op'.source = storage
      /\ op'.left = {} /\ op'.before = Durable(SettingsStorage) /\ op'.goal = goal
      /\ op'.was = vaults
  BY <1>2
<1>4. SettingsStorage' = SettingsStorage
  BY <1>1, SelectedKept
<1>5. /\ todo \in Seq(Writes) /\ Distinct(todo) /\ <<>> \in Seq(Writes) /\ 0 \in 0..MaxFaults
      /\ Durable(SettingsStorage) \in Vaults /\ vaults \in [Storages -> Vaults]
      /\ storage \in Storages
  BY <1>1, Selected, CredentialAssumption DEF Planned, TypeOK
<1>6. op' \in Operations
  BY <1>2, <1>5 DEF Operations, OpKinds
<1>7. TypeOK'
  BY <1>1, <1>6, CredentialAssumption DEF TypeOK, FileTypeOK
<1>8. Range(<<>>) = {}
  BY DEF Range
<1>9. OneWriteEach(o)
  BY <1>3, <1>5, <1>8 DEF OneWriteEach, Apart, Distinct
<1>10. Restorable(o, vaults)
  BY <1>3, <1>8 DEF Restorable
<1>11. Phased(o, NotSaving)
  BY <1>3 DEF Phased
<1>12. Arrives(o, vaults)
  <2> SUFFICES ASSUME kind = "migrate" PROVE Arrives(o, vaults)
    BY <1>3 DEF Arrives
  <2>1. /\ target # storage
        /\ target = "session" => goal = Empty
        /\ target # "session" =>
              /\ \A w \in Range(todo) : w.vault = target => w.secret = goal[w.key]
              /\ \A k \in Keys : \/ vaults[target][k] = goal[k]
                                 \/ \E w \in Range(todo) : Touches(w, target, k)
    OBVIOUS
  <2>2. /\ o.source = storage /\ o.target = target /\ o.goal = goal /\ o.todo = todo
    BY <1>3
  <2> HIDE DEF o
  <2> QED BY <2>1, <2>2 DEF Arrives
<1>13. Promised(o, vaults, SettingsStorage)
  BY <1>1, <1>3, <1>8, Selected DEF Promised
<1>14. OpInv(o, vaults, SettingsStorage, saving)
  BY <1>1, <1>9, <1>10, <1>11, <1>12, <1>13 DEF OpInv
<1>15. o # NoOp
  BY <1>6, OpFields
<1> HIDE DEF o
<1>16. o = op'
  BY DEF o
<1> QED BY <1>1, <1>4, <1>7, <1>14, <1>15, <1>16 DEF CredInv

-----------------------------------------------------------------------------
(***************************************************************************)
(* The operations begin.                                                   *)
(***************************************************************************)
LEMMA DurableVault == ASSUME TypeOK, NEW v \in Storages PROVE Durable(v) \in Vaults
  BY EmptyVault DEF Durable, TypeOK

\* What a restart is meant to find is what the plan writes there.
LEMMA ChangedAsPlanned ==
    ASSUME TypeOK, NEW v \in Storages, NEW todo, Planned(todo, v)
    PROVE  /\ Changed(v, todo) \in Vaults
           /\ \A w \in Range(todo) : w.vault = SettingsStorage => w.secret = Changed(v, todo)[w.key]
<1>1. Durable(v) \in Vaults /\ Durable(SettingsStorage) \in Vaults
  BY DurableVault, Selected
<1>2. /\ After(Durable(v), v, todo) \in Vaults
      /\ \A i \in DOMAIN todo : After(Durable(v), v, todo)[todo[i].key] = todo[i].secret
  BY <1>1, AfterPlan
<1>3. \A w \in Range(todo) : w.vault = v /\ After(Durable(v), v, todo)[w.key] = w.secret
  BY <1>2 DEF Range, Planned
<1>4. CASE v = SettingsStorage
  BY <1>2, <1>3, <1>4 DEF Changed
<1>5. CASE v # SettingsStorage
  BY <1>1, <1>3, <1>5 DEF Changed
<1> QED BY <1>4, <1>5

LEMMA MigrateKeeps ==
    ASSUME CredInv, NEW target \in Storages, NEW remove \in BOOLEAN, Migrate(target, remove)
    PROVE  CredInv'
<1>1. PICK todo : todo = Copy(target, remove)
  OBVIOUS
<1>2. PICK goal : goal = IF target = "session" THEN Empty ELSE After(vaults[target], target, todo)
  OBVIOUS
<1>3. TypeOK /\ refs \in SUBSET Keys /\ vaults[target] \in Vaults
  BY DEF CredInv, TypeOK
<1>4. Planned(todo, target)
  BY <1>1, <1>3, CopyPlanned
<1>5. /\ After(vaults[target], target, todo) \in Vaults
      /\ \A i \in DOMAIN todo : After(vaults[target], target, todo)[todo[i].key] = todo[i].secret
      /\ \A k \in Keys : (\A i \in DOMAIN todo : ~Touches(todo[i], target, k))
                           => After(vaults[target], target, todo)[k] = vaults[target][k]
  BY <1>3, <1>4, AfterPlan
<1>6. goal \in Vaults /\ (target = "session" => goal = Empty)
  BY <1>2, <1>5, EmptyVault
<1>7. \A w \in Range(todo) : w.vault = target
  BY <1>4 DEF Planned, Range
<1>8. target # "session" => \A w \in Range(todo) : w.secret = goal[w.key]
  BY <1>2, <1>5 DEF Range
<1>9. target # "session" =>
         \A k \in Keys : \/ vaults[target][k] = goal[k]
                         \/ \E w \in Range(todo) : Touches(w, target, k)
  BY <1>2, <1>5 DEF Range
<1>10. /\ target # storage /\ Begin("migrate", todo, goal, target, remove, refs)
       /\ UNCHANGED <<filevars, storage, portable, vaults, refs>>
  BY <1>1, <1>2 DEF Migrate
<1>11. SettingsStorage # "session" =>
          \A w \in Range(todo) : w.vault = SettingsStorage => w.secret = goal[w.key]
  BY <1>7, <1>8
<1>12. "migrate" \in OpKinds \ {"cleanup"}
  BY DEF OpKinds
<1> QED BY <1>3, <1>4, <1>6, <1>8, <1>9, <1>10, <1>11, <1>12, BeginKeeps

LEMMA ClearKeeps == ASSUME CredInv, NEW v \in Storages, Clear(v) PROVE CredInv'
<1>1. PICK todo : todo = Removals(v)
  OBVIOUS
<1>2. PICK kind : kind = IF v = storage THEN "clearActive" ELSE "clear"
  OBVIOUS
<1>3. PICK newRefs : newRefs = IF v = storage THEN refs \ {"password", "passphrase"} ELSE refs
  OBVIOUS
<1>4. TypeOK /\ refs \in SUBSET Keys /\ storage \in Storages
  BY DEF CredInv, TypeOK
<1>5. Planned(todo, v)
  BY <1>1, RemovalsPlanned
<1>6. /\ Changed(v, todo) \in Vaults
      /\ \A w \in Range(todo) : w.vault = SettingsStorage => w.secret = Changed(v, todo)[w.key]
  BY <1>4, <1>5, ChangedAsPlanned
<1>7. /\ Begin(kind, todo, Changed(v, todo), storage, FALSE, newRefs)
      /\ UNCHANGED <<filevars, storage, portable, vaults, refs>>
  BY <1>1, <1>2, <1>3 DEF Clear
<1>8. kind \in OpKinds \ {"cleanup"} /\ kind # "settings" /\ kind # "migrate"
  BY <1>2 DEF OpKinds
<1>9. newRefs \in SUBSET Keys
  BY <1>3, <1>4
<1> QED BY <1>4, <1>5, <1>6, <1>7, <1>8, <1>9, BeginKeeps

\* No two credentials share a kind.
LEMMA KindsApart == \A k \in Kinds("login") : k \notin Kinds("proxy")
  BY DEF Kinds

LEMMA SaveProfileKeeps ==
    ASSUME CredInv, NEW slots \in SUBSET Slots, SaveProfile(slots)
    PROVE  CredInv'
<1>1. PICK kind \in [slots -> Keys], secret \in [slots -> Secrets \cup {None}] :
          /\ \A s \in slots : kind[s] \in Kinds(s)
          /\ LET of(s) == IF s \in slots THEN Mutation(s, kind[s], secret[s]) ELSE <<>>
                 todo == of("login") \o of("proxy")
                 kept == refs \ UNION {Kinds(s) : s \in slots}
             IN  Begin("profile", todo, Changed(storage, todo), storage, FALSE,
                       kept \cup {kind[s] : s \in {t \in slots : secret[t] # None}})
  BY DEF SaveProfile
<1> DEFINE of(s) == IF s \in slots THEN Mutation(s, kind[s], secret[s]) ELSE <<>>
<1>2. PICK todo : todo = of("login") \o of("proxy")
  OBVIOUS
<1>3. PICK newRefs : newRefs = (refs \ UNION {Kinds(s) : s \in slots})
                               \cup {kind[s] : s \in {t \in slots : secret[t] # None}}
  OBVIOUS
<1>4. TypeOK /\ refs \in SUBSET Keys /\ storage \in Storages
  BY DEF CredInv, TypeOK
<1>5. ASSUME NEW s \in {"login", "proxy"}
      PROVE  Planned(of(s), storage) /\ \A i \in DOMAIN of(s) : of(s)[i].key \in Kinds(s)
  <2>1. CASE s \in slots
    <3>1. s \in Slots /\ kind[s] \in Kinds(s) /\ secret[s] \in Secrets \cup {None}
      BY <1>1, <2>1
    <3> QED BY <1>4, <2>1, <3>1, MutationPlanned
  <2>2. CASE s \notin slots
    BY <1>4, <2>2, ShortPlans
  <2> QED BY <2>1, <2>2
<1> HIDE DEF of
<1>6. Planned(todo, storage)
  <2>1. \A i \in DOMAIN of("login"), j \in DOMAIN of("proxy") : of("login")[i].key # of("proxy")[j].key
    BY <1>5, KindsApart
  <2> QED BY <1>2, <1>5, <2>1, PlanJoined
<1>7. /\ Changed(storage, todo) \in Vaults
      /\ \A w \in Range(todo) : w.vault = SettingsStorage => w.secret = Changed(storage, todo)[w.key]
  BY <1>4, <1>6, ChangedAsPlanned
<1>8. /\ Begin("profile", todo, Changed(storage, todo), storage, FALSE, newRefs)
      /\ UNCHANGED <<filevars, storage, portable, vaults, refs>>
  BY <1>1, <1>2, <1>3 DEF of, SaveProfile
<1>9. newRefs \in SUBSET Keys
  BY <1>1, <1>3, <1>4
<1>10. "profile" \in OpKinds \ {"cleanup"}
  BY DEF OpKinds
<1> QED BY <1>4, <1>6, <1>7, <1>8, <1>9, <1>10, BeginKeeps

LEMMA SaveSettingsKeeps == ASSUME CredInv, SaveSettings PROVE CredInv'
<1>1. TypeOK /\ storage \in Storages /\ refs \in SUBSET Keys
  BY DEF CredInv, TypeOK
<1>2. Durable(storage) \in Vaults /\ Planned(<<>>, storage)
  BY <1>1, DurableVault, ShortPlans
<1>3. Range(<<>>) = {}
  BY DEF Range
<1>4. /\ Begin("settings", <<>>, Durable(storage), storage, FALSE, refs)
      /\ UNCHANGED <<filevars, storage, portable, vaults, refs>>
  BY DEF SaveSettings
<1>5. "settings" \in OpKinds \ {"cleanup"}
  BY DEF OpKinds
<1> QED BY <1>1, <1>2, <1>3, <1>4, <1>5, BeginKeeps

-----------------------------------------------------------------------------
(***************************************************************************)
(* The steps of an operation.                                              *)
(***************************************************************************)
LEMMA OpMade ==
    ASSUME NEW o, o = [f \in OpParts |-> o[f]],
           o.kind \in OpKinds, o.phase \in OpPhases,
           o.todo \in Seq(Writes), o.done \in Seq(Writes),
           o.target \in Storages, o.source \in Storages, o.remove \in BOOLEAN,
           o.refs \in SUBSET Keys, o.faults \in 0..MaxFaults, o.left \in SUBSET Writes,
           o.before \in Vaults, o.goal \in Vaults, o.was \in [Storages -> Vaults]
    PROVE  o \in Operations
<1>1. o = [kind |-> o.kind, phase |-> o.phase, todo |-> o.todo, done |-> o.done,
           target |-> o.target, source |-> o.source, remove |-> o.remove, refs |-> o.refs,
           faults |-> o.faults, left |-> o.left,
           before |-> o.before, goal |-> o.goal, was |-> o.was]
  BY DEF OpParts
<1> QED BY <1>1 DEF Operations, OpKinds, OpPhases

\* An operation that goes on keeps the invariant, if its record does.
LEMMA GoesOn ==
    ASSUME CredInv, op # NoOp, op' \in Operations,
           FileTypeOK', storage' \in Storages, portable' = portable, refs' = refs,
           vaults' \in [Storages -> Vaults], report' = report, started' = started,
           OpInv(op', vaults', SettingsStorage', saving')
    PROVE  CredInv'
<1>1. op' # NoOp
  BY OpFields
<1>2. TypeOK'
  BY DEF CredInv, TypeOK
<1> QED BY <1>1, <1>2 DEF CredInv

\* One that ends needs no more than types.
LEMMA Ends ==
    ASSUME CredInv, op' = NoOp, saving' = NotSaving,
           FileTypeOK', storage' \in Storages,
           portable' \in {"absent", "locked", "open"}, refs' \in SUBSET Keys,
           vaults' \in [Storages -> Vaults],
           report' \in {None, "done", "failed", "kept"}, started' = started
    PROVE  CredInv'
<1>1. TypeOK'
  BY DEF CredInv, TypeOK
<1> QED BY <1>1 DEF CredInv

LEMMA Underway ==
    ASSUME CredInv, op # NoOp
    PROVE  /\ op \in Operations /\ TypeOK /\ report = None
           /\ OneWriteEach(op) /\ Restorable(op, vaults) /\ Phased(op, saving)
           /\ Arrives(op, vaults) /\ Promised(op, vaults, SettingsStorage)
           /\ saving # NotSaving => op.phase = "saving"
  BY DEF CredInv, TypeOK, OpInv, Phased

\* A phase, a fault more: the record is otherwise as it was.
LEMMA UndoPhaseFields ==
    ASSUME NEW o \in Operations, o.faults < MaxFaults
    PROVE  /\ UndoPhase(o) \in Operations
           /\ UndoPhase(o).phase = "undo"
           /\ \A f \in OpParts \ {"phase", "faults"} : UndoPhase(o)[f] = o[f]
<1>1. /\ UndoPhase(o) = [f \in OpParts |-> UndoPhase(o)[f]]
      /\ UndoPhase(o).phase = "undo" /\ UndoPhase(o).faults = o.faults + 1
      /\ \A f \in OpParts \ {"phase", "faults"} : UndoPhase(o)[f] = o[f]
  <2>1. o = [f \in OpParts |-> o[f]]
    BY OpFields
  <2>2. UndoPhase(o) = [f \in OpParts |-> UndoPhase(o)[f]]
    BY <2>1 DEF UndoPhase, OpParts
  <2>3. UndoPhase(o).phase = "undo" /\ UndoPhase(o).faults = o.faults + 1
    BY <2>1 DEF UndoPhase, OpParts
  <2>4. \A f \in OpParts \ {"phase", "faults"} : UndoPhase(o)[f] = o[f]
    BY <2>1 DEF UndoPhase, OpParts
  <2> QED BY <2>2, <2>3, <2>4
<1>2. o.faults + 1 \in 0..MaxFaults
  BY OpFields, CredentialAssumption
<1>3. \A f \in {"kind", "todo", "done", "target", "source", "remove", "refs", "left",
                "before", "goal", "was"} : UndoPhase(o)[f] = o[f]
  BY <1>1 DEF OpParts
<1> HIDE DEF UndoPhase
<1>4. UndoPhase(o) \in Operations
  BY <1>1, <1>2, <1>3, OpFields, OpMade DEF OpPhases
<1> QED BY <1>1, <1>4

\* An operation that turns to undoing, with the vaults as they are.
LEMMA TurnsBack ==
    ASSUME CredInv, op # NoOp, op.phase # "saving", op' \in Operations, op'.phase = "undo",
           op.kind # "settings",
           \A f \in OpParts \ {"phase", "faults"} : op'[f] = op[f],
           UNCHANGED <<filevars, storage, portable, vaults, refs, report, started>>
    PROVE  CredInv'
<1>1. /\ primary' = primary /\ backup' = backup /\ saving' = saving
      /\ storage' = storage /\ portable' = portable /\ vaults' = vaults /\ refs' = refs
      /\ report' = report /\ started' = started
  BY DEF filevars
<1>2. /\ op'.kind = op.kind /\ op'.todo = op.todo /\ op'.done = op.done
      /\ op'.target = op.target /\ op'.source = op.source /\ op'.left = op.left
      /\ op'.before = op.before /\ op'.goal = op.goal /\ op'.was = op.was
  BY DEF OpParts
<1>3. PICK o \in Operations : o = op'
  OBVIOUS
<1>4. OneWriteEach(o)
  BY <1>2, <1>3, Underway DEF OneWriteEach
<1>5. Restorable(o, vaults)
  BY <1>2, <1>3, Underway DEF Restorable
<1>6. Phased(o, saving)
  BY <1>2, <1>3, Underway DEF Phased
<1>7. Arrives(o, vaults)
  BY <1>3 DEF Arrives
<1>8. Promised(o, vaults, SettingsStorage)
  BY <1>2, <1>3, Underway DEF Promised
<1>9. SettingsStorage' = SettingsStorage
  BY <1>1, SelectedKept
<1>10. OpInv(op', vaults', SettingsStorage', saving')
  BY <1>1, <1>3, <1>4, <1>5, <1>6, <1>7, <1>8, <1>9 DEF OpInv
<1>11. FileTypeOK' /\ storage \in Storages /\ vaults \in [Storages -> Vaults]
  BY <1>1, Underway DEF TypeOK, FileTypeOK
<1> QED BY <1>1, <1>3, <1>10, <1>11, GoesOn

\* The fields a step of writing or of undoing changes.
LEMMA StepMade ==
    ASSUME NEW o \in Operations, NEW n, n = [f \in OpParts |-> n[f]],
           \A f \in OpParts \ {"phase", "todo", "done", "faults", "left"} : n[f] = o[f],
           n.phase \in OpPhases, n.todo \in Seq(Writes), n.done \in Seq(Writes),
           n.faults \in 0..MaxFaults, n.left \in SUBSET Writes
    PROVE  /\ n \in Operations
           /\ n.kind = o.kind /\ n.target = o.target /\ n.source = o.source
           /\ n.before = o.before /\ n.goal = o.goal /\ n.was = o.was
<1>1. \A f \in {"kind", "target", "source", "remove", "refs", "before", "goal", "was"} : n[f] = o[f]
  BY DEF OpParts
<1> QED BY <1>1, OpFields, OpMade

LEMMA WriteSecretKeeps == ASSUME CredInv, WriteSecret PROVE CredInv'
<1>1. PICK w : w = Head(op.todo)
  OBVIOUS
<1>2. PICK before : before = Write(w.vault, w.key, vaults[w.vault][w.key])
  OBVIOUS
<1>3. PICK made : made = [op EXCEPT !.todo = Tail(@), !.done = Append(@, before)]
  OBVIOUS
<1>4. /\ op # NoOp /\ op.phase = "write"
      /\ vaults' = [vaults EXCEPT ![w.vault][w.key] = w.secret]
      /\ \/ op' = IF made.todo = <<>> THEN [made EXCEPT !.phase = "commit"] ELSE made
         \/ op.faults < MaxFaults /\ op' = UndoPhase(made)
      /\ UNCHANGED <<filevars, storage, portable, refs, report, started>>
  BY <1>1, <1>2, <1>3 DEF WriteSecret, Fails
<1>5. /\ op \in Operations /\ TypeOK /\ vaults \in [Storages -> Vaults] /\ storage \in Storages
      /\ OneWriteEach(op) /\ Restorable(op, vaults) /\ Phased(op, saving)
      /\ Arrives(op, vaults) /\ Promised(op, vaults, SettingsStorage)
      /\ saving = NotSaving
  BY <1>4, Underway DEF TypeOK
<1>6. /\ op.todo \in Seq(Writes) /\ op.done \in Seq(Writes) /\ op.todo # <<>>
      /\ Distinct(op.todo) /\ Distinct(op.done) /\ Apart(op.done, op.todo)
      /\ op.kind # "settings"
  BY <1>4, <1>5, OpFields DEF OneWriteEach, Phased
<1>7. /\ w \in Writes /\ Tail(op.todo) \in Seq(Writes) /\ Distinct(Tail(op.todo))
      /\ Range(op.todo) = Range(Tail(op.todo)) \cup {w}
      /\ \A x \in Range(Tail(op.todo)) : ~Touches(x, w.vault, w.key)
  BY <1>1, <1>6, TakeHead
<1>8. w.vault \in Storages /\ w.key \in Keys
  BY <1>7 DEF Writes
<1>9. /\ before \in Writes /\ before.vault = w.vault /\ before.key = w.key
      /\ before.secret = vaults[w.vault][w.key]
  BY <1>2, <1>5, <1>8 DEF Write, Writes, Vaults
<1>10. \A x \in Range(op.done) : ~Touches(x, before.vault, before.key)
  BY <1>6, <1>7, <1>9 DEF Apart
<1>11. /\ Append(op.done, before) \in Seq(Writes) /\ Distinct(Append(op.done, before))
       /\ Range(Append(op.done, before)) = Range(op.done) \cup {before}
  BY <1>6, <1>9, <1>10, AddLast
<1>12. /\ vaults' \in [Storages -> Vaults] /\ vaults'[w.vault][w.key] = w.secret
       /\ \A v \in Storages, k \in Keys : ~Touches(w, v, k) => vaults'[v][k] = vaults[v][k]
  <2>1. PICK after : after = vaults'
    OBVIOUS
  <2>2. after = [vaults EXCEPT ![w.vault][w.key] = w.secret] /\ vaults \in [Storages -> Vaults]
    BY <1>4, <1>5, <2>1
  <2>3. /\ after \in [Storages -> Vaults] /\ after[w.vault][w.key] = w.secret
        /\ \A v \in Storages, k \in Keys : ~Touches(w, v, k) => after[v][k] = vaults[v][k]
    BY <1>7, <2>2 DEF Writes, Vaults, Touches
  <2> QED BY <2>1, <2>3
<1>13. /\ made \in Operations /\ made.todo = Tail(op.todo) /\ made.done = Append(op.done, before)
       /\ \A f \in OpParts \ {"todo", "done"} : made[f] = op[f]
  <2>1. /\ made = [f \in OpParts |-> made[f]]
        /\ made.todo = Tail(op.todo) /\ made.done = Append(op.done, before)
        /\ \A f \in OpParts \ {"todo", "done"} : made[f] = op[f]
    <3>1. op = [f \in OpParts |-> op[f]]
      BY <1>5, OpFields
    <3>2. made = [f \in OpParts |-> made[f]]
      BY <1>3, <3>1 DEF OpParts
    <3>3. made.todo = Tail(op.todo) /\ made.done = Append(op.done, before)
      BY <1>3, <3>1 DEF OpParts
    <3>4. \A f \in OpParts \ {"todo", "done"} : made[f] = op[f]
      BY <1>3, <3>1 DEF OpParts
    <3> QED BY <3>2, <3>3, <3>4
  <2>2. \A f \in {"phase", "faults", "left"} : made[f] = op[f]
    BY <2>1 DEF OpParts
  <2>3. made \in Operations
    BY <1>5, <1>7, <1>11, <2>1, <2>2, OpFields, StepMade
  <2> QED BY <2>1, <2>3
<1>14. /\ op' = [f \in OpParts |-> op'[f]]
       /\ op'.todo = Tail(op.todo) /\ op'.done = Append(op.done, before)
       /\ \A f \in OpParts \ {"phase", "todo", "done", "faults"} : op'[f] = op[f]
       /\ op'.phase \in {"write", "commit", "undo"} /\ op'.faults \in 0..MaxFaults
       /\ op'.phase = "commit" => op'.todo = <<>>
       /\ op'.phase = "write" => op'.todo # <<>>
  <2>1. \A f \in {"phase", "faults"} : made[f] = op[f]
    BY <1>13 DEF OpParts
  <2>2. CASE op' = made /\ made.todo # <<>>
    BY <1>4, <1>13, <2>1, <2>2, OpFields DEF OpParts
  <2>3. CASE op' = [made EXCEPT !.phase = "commit"] /\ made.todo = <<>>
    <3>1. /\ op' = [f \in OpParts |-> op'[f]] /\ op'.phase = "commit"
          /\ \A f \in OpParts \ {"phase"} : op'[f] = made[f]
      BY <1>13, <2>3, OpFields DEF OpParts
    <3>2. \A f \in {"todo", "done", "faults"} : op'[f] = made[f]
      BY <3>1 DEF OpParts
    <3> QED BY <1>13, <2>1, <2>3, <3>1, <3>2, OpFields
  <2>4. CASE op.faults < MaxFaults /\ op' = UndoPhase(made)
    <3>1. /\ op' \in Operations /\ op'.phase = "undo"
          /\ \A f \in OpParts \ {"phase", "faults"} : op'[f] = made[f]
      BY <1>13, <2>1, <2>4, UndoPhaseFields
    <3>2. \A f \in {"todo", "done"} : op'[f] = made[f]
      BY <3>1 DEF OpParts
    <3> QED BY <1>13, <3>1, <3>2, OpFields
  <2> QED BY <1>4, <2>2, <2>3, <2>4
<1>15. op'.left = {} /\ op.left = {}
  <2>1. op'.left = op.left
    BY <1>14 DEF OpParts
  <2>2. op.left = {}
    BY <1>4, <1>5 DEF Phased
  <2> QED BY <2>1, <2>2
<1>16. /\ op' \in Operations
       /\ op'.kind = op.kind /\ op'.target = op.target /\ op'.source = op.source
       /\ op'.before = op.before /\ op'.goal = op.goal /\ op'.was = op.was
  <2>1. PICK n : n = op'
    OBVIOUS
  <2>2. /\ n = [f \in OpParts |-> n[f]]
        /\ \A f \in OpParts \ {"phase", "todo", "done", "faults", "left"} : n[f] = op[f]
    BY <1>14, <2>1
  <2>3. /\ n.phase \in OpPhases /\ n.todo \in Seq(Writes) /\ n.done \in Seq(Writes)
        /\ n.faults \in 0..MaxFaults /\ n.left \in SUBSET Writes
    BY <1>5, <1>7, <1>11, <1>14, <1>15, <2>1, OpFields DEF OpPhases
  <2> QED BY <1>5, <2>1, <2>2, <2>3, StepMade
<1>17. PICK o \in Operations : o = op'
  BY <1>16
<1>18. PICK held : held = vaults'
  OBVIOUS
<1>19. OneWriteEach(o)
  <2>1. Apart(Append(op.done, before), Tail(op.todo))
    BY <1>6, <1>7, <1>9, <1>11 DEF Apart, Touches
  <2> QED BY <1>7, <1>11, <1>14, <1>17, <2>1 DEF OneWriteEach
<1>20. Restorable(o, held)
  <2>1. \A x \in Range(op.done) : op.was[x.vault][x.key] = x.secret
    BY <1>5 DEF Restorable
  <2>2. \A v \in Storages, k \in Keys :
           (\A x \in Range(op.done) : ~Touches(x, v, k)) => op.was[v][k] = vaults[v][k]
    BY <1>5, <1>15 DEF Restorable
  <2>3. op.was[before.vault][before.key] = before.secret
    BY <1>8, <1>9, <1>10, <2>2
  <2>4. \A v \in Storages, k \in Keys :
           (\A x \in Range(op.done) \cup {before} : ~Touches(x, v, k)) => op.was[v][k] = held[v][k]
    BY <1>9, <1>12, <1>18, <2>2 DEF Touches
  <2>5. \A x \in Range(op.done) \cup {before} : op.was[x.vault][x.key] = x.secret
    BY <2>1, <2>3
  <2>6. Range(o.done) = Range(op.done) \cup {before} /\ o.was = op.was /\ o.left = {}
    BY <1>11, <1>14, <1>15, <1>16, <1>17
  <2> QED BY <2>4, <2>5, <2>6 DEF Restorable
<1>21. Phased(o, saving)
  BY <1>5, <1>6, <1>14, <1>15, <1>16, <1>17 DEF Phased
<1>22. Arrives(o, held)
  <2> SUFFICES ASSUME op.kind = "migrate" PROVE Arrives(o, held)
    BY <1>16, <1>17 DEF Arrives
  <2>1. /\ op.source # op.target
        /\ op.target = "session" => op.goal = Empty
        /\ op.target # "session" =>
              /\ \A x \in Range(op.todo) : x.vault = op.target => x.secret = op.goal[x.key]
              /\ \A k \in Keys : \/ vaults[op.target][k] = op.goal[k]
                                 \/ \E x \in Range(op.todo) : Touches(x, op.target, k)
    BY <1>4, <1>5 DEF Arrives
  <2>2. op.target \in Storages
    BY <1>5, OpFields
  <2>3. ASSUME op.target # "session", NEW k \in Keys
        PROVE  \/ held[op.target][k] = op.goal[k]
               \/ \E x \in Range(Tail(op.todo)) : Touches(x, op.target, k)
    <3>1. CASE Touches(w, op.target, k)
      BY <1>7, <1>12, <1>18, <2>1, <2>3, <3>1 DEF Touches
    <3>2. CASE ~Touches(w, op.target, k)
      BY <1>7, <1>12, <1>18, <2>1, <2>2, <2>3, <3>2
    <3> QED BY <3>1, <3>2
  <2> QED BY <1>7, <1>14, <1>16, <1>17, <2>1, <2>3 DEF Arrives
<1>23. Promised(o, held, SettingsStorage)
  <2>1. SettingsStorage \in Storages
    BY <1>5, Selected
  <2>2. CASE SettingsStorage = "session"
    BY <1>5, <1>16, <1>17, <2>2 DEF Promised
  <2>3. CASE SettingsStorage # "session"
    <3>1. /\ \A x \in Range(op.todo) : x.vault = SettingsStorage => x.secret = op.goal[x.key]
          /\ \A x \in Range(op.done) : x.vault = SettingsStorage
                                         => x.secret \in {op.before[x.key], op.goal[x.key]}
          /\ \A k \in Keys : vaults[SettingsStorage][k] \in {op.before[k], op.goal[k]}
      BY <1>5, <2>3 DEF Promised
    <3>2. before.vault = SettingsStorage => before.secret \in {op.before[before.key], op.goal[before.key]}
      BY <1>8, <1>9, <3>1
    <3>3. ASSUME NEW k \in Keys PROVE held[SettingsStorage][k] \in {op.before[k], op.goal[k]}
      <4>1. CASE Touches(w, SettingsStorage, k)
        BY <1>7, <1>12, <1>18, <3>1, <4>1 DEF Touches
      <4>2. CASE ~Touches(w, SettingsStorage, k)
        BY <1>12, <1>18, <2>1, <3>1, <4>2
      <4> QED BY <4>1, <4>2
    <3>4. /\ Range(o.done) = Range(op.done) \cup {before} /\ Range(o.todo) \subseteq Range(op.todo)
          /\ o.before = op.before /\ o.goal = op.goal
      BY <1>7, <1>11, <1>14, <1>16, <1>17
    <3>5. \A x \in Range(o.done) : x.vault = SettingsStorage
                                     => x.secret \in {op.before[x.key], op.goal[x.key]}
      BY <3>1, <3>2, <3>4
    <3>6. \A x \in Range(o.todo) : x.vault = SettingsStorage => x.secret = op.goal[x.key]
      BY <3>1, <3>4
    <3> QED BY <2>3, <3>3, <3>4, <3>5, <3>6 DEF Promised
  <2> QED BY <2>2, <2>3
<1>24. /\ op # NoOp /\ primary' = primary /\ backup' = backup /\ saving' = saving /\ storage' = storage
       /\ portable' = portable /\ refs' = refs /\ report' = report /\ started' = started
  BY <1>4 DEF filevars
<1>25. SettingsStorage' = SettingsStorage
  BY <1>24, SelectedKept
<1>26. OpInv(op', vaults', SettingsStorage', saving')
  BY <1>17, <1>18, <1>19, <1>20, <1>21, <1>22, <1>23, <1>24, <1>25 DEF OpInv
<1>27. FileTypeOK'
  BY <1>5, <1>24 DEF TypeOK, FileTypeOK
<1> QED BY <1>5, <1>12, <1>16, <1>24, <1>26, <1>27, GoesOn

LEMMA WriteFailsKeeps == ASSUME CredInv, WriteFails PROVE CredInv'
<1>1. /\ op # NoOp /\ op.phase = "write"
      /\ \/ op.faults < MaxFaults /\ op' = UndoPhase(op)
         \/ op' = [op EXCEPT !.phase = "undo"]
      /\ UNCHANGED <<filevars, storage, portable, vaults, refs, report, started>>
  BY DEF WriteFails, Fails
<1>2. op \in Operations /\ op.phase # "saving" /\ op.kind # "settings"
  BY <1>1, Underway DEF Phased
<1>3. /\ op' \in Operations /\ op'.phase = "undo"
      /\ \A f \in OpParts \ {"phase", "faults"} : op'[f] = op[f]
  <2>1. CASE op.faults < MaxFaults /\ op' = UndoPhase(op)
    BY <1>2, <2>1, UndoPhaseFields
  <2>2. CASE op' = [op EXCEPT !.phase = "undo"]
    <3>1. PICK n : n = op'
      OBVIOUS
    <3>2. /\ n = [f \in OpParts |-> n[f]] /\ n.phase = "undo"
          /\ \A f \in OpParts \ {"phase"} : n[f] = op[f]
      BY <1>2, <2>2, <3>1, OpFields DEF OpParts
    <3>3. \A f \in {"todo", "done", "faults", "left"} : n[f] = op[f]
      BY <3>2 DEF OpParts
    <3>4. n \in Operations
      BY <1>2, <3>2, <3>3, OpFields, StepMade DEF OpPhases
    <3> QED BY <3>1, <3>2, <3>4
  <2> QED BY <1>1, <2>1, <2>2
<1> QED BY <1>1, <1>2, <1>3, TurnsBack

LEMMA UndoWriteKeeps == ASSUME CredInv, UndoWrite PROVE CredInv'
<1>1. PICK w : w = Last(op.done)
  OBVIOUS
<1>2. /\ op # NoOp /\ op.phase = "undo" /\ op.done # <<>>
      /\ \/ /\ vaults' = [vaults EXCEPT ![w.vault][w.key] = w.secret]
            /\ op' = [op EXCEPT !.done = Front(@)]
         \/ /\ op.faults < MaxFaults /\ vaults' = vaults
            /\ op' = [op EXCEPT !.done = Front(@), !.faults = @ + 1, !.left = @ \cup {w}]
      /\ UNCHANGED <<filevars, storage, portable, refs, report, started>>
  BY <1>1 DEF UndoWrite, Fails, Undone
<1>3. /\ op \in Operations /\ TypeOK /\ vaults \in [Storages -> Vaults] /\ storage \in Storages
      /\ OneWriteEach(op) /\ Restorable(op, vaults) /\ Phased(op, saving)
      /\ Promised(op, vaults, SettingsStorage)
      /\ saving = NotSaving
  BY <1>2, Underway DEF TypeOK
<1>4. /\ op.todo \in Seq(Writes) /\ op.done \in Seq(Writes)
      /\ Distinct(op.todo) /\ Distinct(op.done) /\ Apart(op.done, op.todo)
      /\ op.kind # "settings" /\ op.faults \in 0..MaxFaults
  BY <1>2, <1>3, OpFields DEF OneWriteEach, Phased
<1>5. /\ w \in Writes /\ Front(op.done) \in Seq(Writes) /\ Distinct(Front(op.done))
      /\ Range(op.done) = Range(Front(op.done)) \cup {w}
      /\ \A x \in Range(Front(op.done)) : ~Touches(x, w.vault, w.key)
  BY <1>1, <1>2, <1>4, TakeLast
<1>6. w.vault \in Storages /\ w.key \in Keys /\ w.secret \in Secrets \cup {None}
  BY <1>5 DEF Writes
<1>7. PICK held : held = vaults'
  OBVIOUS
<1>8. /\ held \in [Storages -> Vaults]
      /\ \A v \in Storages, k \in Keys : ~Touches(w, v, k) => held[v][k] = vaults[v][k]
      /\ held[w.vault][w.key] \in {w.secret, vaults[w.vault][w.key]}
  BY <1>2, <1>3, <1>6, <1>7 DEF Vaults, Touches
<1>9. /\ op' = [f \in OpParts |-> op'[f]]
      /\ op'.done = Front(op.done)
      /\ \A f \in OpParts \ {"done", "faults", "left"} : op'[f] = op[f]
      /\ op'.faults \in 0..MaxFaults /\ op'.left \in SUBSET Writes
      /\ op'.left = op.left \cup {w} \/ (op'.left = op.left /\ held[w.vault][w.key] = w.secret)
  <2>1. CASE /\ vaults' = [vaults EXCEPT ![w.vault][w.key] = w.secret]
             /\ op' = [op EXCEPT !.done = Front(@)]
    <3>1. /\ op' = [f \in OpParts |-> op'[f]] /\ op'.done = Front(op.done)
          /\ \A f \in OpParts \ {"done"} : op'[f] = op[f]
      <4>1. op = [f \in OpParts |-> op[f]]
        BY <1>3, OpFields
      <4>2. op'.done = Front(op.done) /\ \A f \in OpParts \ {"done"} : op'[f] = op[f]
        BY <2>1, <4>1 DEF OpParts
      <4>3. op' = [f \in OpParts |-> op'[f]]
        BY <2>1, <4>1 DEF OpParts
      <4> QED BY <4>2, <4>3
    <3>2. op'.faults = op.faults /\ op'.left = op.left
      BY <3>1 DEF OpParts
    <3>3. held[w.vault][w.key] = w.secret
      BY <1>3, <1>6, <1>7, <2>1 DEF Vaults
    <3> QED BY <1>3, <3>1, <3>2, <3>3, OpFields
  <2>2. CASE /\ op.faults < MaxFaults
             /\ op' = [op EXCEPT !.done = Front(@), !.faults = @ + 1, !.left = @ \cup {w}]
    <3>1. /\ op' = [f \in OpParts |-> op'[f]] /\ op'.done = Front(op.done)
          /\ op'.faults = op.faults + 1 /\ op'.left = op.left \cup {w}
          /\ \A f \in OpParts \ {"done", "faults", "left"} : op'[f] = op[f]
      <4>1. op = [f \in OpParts |-> op[f]]
        BY <1>3, OpFields
      <4>2. /\ op'.done = Front(op.done) /\ op'.faults = op.faults + 1
            /\ \A f \in OpParts \ {"done", "faults", "left"} : op'[f] = op[f]
        BY <2>2, <4>1 DEF OpParts
      <4>3. op'.left = op.left \cup {w}
        BY <2>2, <4>1 DEF OpParts
      <4>4. op' = [f \in OpParts |-> op'[f]]
        BY <2>2, <4>1 DEF OpParts
      <4> QED BY <4>2, <4>3, <4>4
    <3>2. op.faults + 1 \in 0..MaxFaults
      BY <1>4, <2>2, CredentialAssumption
    <3>3. op.left \cup {w} \in SUBSET Writes
      BY <1>3, <1>5, OpFields
    <3> QED BY <3>1, <3>2, <3>3
  <2> QED BY <1>2, <2>1, <2>2
<1>10. op'.phase = "undo" /\ op'.todo = op.todo
  BY <1>2, <1>9 DEF OpParts
<1>11. /\ op' \in Operations
       /\ op'.kind = op.kind /\ op'.target = op.target /\ op'.source = op.source
       /\ op'.before = op.before /\ op'.goal = op.goal /\ op'.was = op.was
  <2>1. PICK n : n = op'
    OBVIOUS
  <2>2. /\ n = [f \in OpParts |-> n[f]]
        /\ \A f \in OpParts \ {"phase", "todo", "done", "faults", "left"} : n[f] = op[f]
    BY <1>9, <2>1
  <2>3. /\ n.phase \in OpPhases /\ n.todo \in Seq(Writes) /\ n.done \in Seq(Writes)
        /\ n.faults \in 0..MaxFaults /\ n.left \in SUBSET Writes
    BY <1>4, <1>5, <1>9, <1>10, <2>1 DEF OpPhases
  <2> QED BY <1>3, <2>1, <2>2, <2>3, StepMade
<1>12. PICK o \in Operations : o = op'
  BY <1>11
<1>13. OneWriteEach(o)
  BY <1>4, <1>5, <1>9, <1>10, <1>12 DEF OneWriteEach, Apart
<1>14. Restorable(o, held)
  <2>1. op.left \subseteq o.left /\ (w \in o.left \/ held[w.vault][w.key] = w.secret)
    BY <1>9, <1>12
  <2>2. /\ \A x \in Range(op.done) : op.was[x.vault][x.key] = x.secret
        /\ \A v \in Storages, k \in Keys :
              (\A x \in Range(op.done) \cup op.left : ~Touches(x, v, k)) => op.was[v][k] = vaults[v][k]
    BY <1>3 DEF Restorable
  <2>3. ASSUME NEW v \in Storages, NEW k \in Keys,
               \A x \in Range(Front(op.done)) \cup o.left : ~Touches(x, v, k)
        PROVE  op.was[v][k] = held[v][k]
    <3>1. CASE Touches(w, v, k)
      <4>1. held[w.vault][w.key] = w.secret
        BY <2>1, <2>3, <3>1
      <4>2. op.was[w.vault][w.key] = w.secret
        BY <1>5, <2>2
      <4> QED BY <3>1, <4>1, <4>2 DEF Touches
    <3>2. CASE ~Touches(w, v, k)
      <4>1. \A x \in Range(op.done) \cup op.left : ~Touches(x, v, k)
        BY <1>5, <2>1, <2>3, <3>2
      <4>2. op.was[v][k] = vaults[v][k]
        BY <2>2, <4>1
      <4> QED BY <1>8, <3>2, <4>2
    <3> QED BY <3>1, <3>2
  <2> QED BY <1>5, <1>9, <1>11, <1>12, <2>2, <2>3 DEF Restorable
<1>15. Phased(o, saving)
  BY <1>3, <1>4, <1>10, <1>11, <1>12 DEF Phased
<1>16. Arrives(o, held)
  BY <1>10, <1>12 DEF Arrives
<1>17. Promised(o, held, SettingsStorage)
  <2>1. SettingsStorage \in Storages
    BY <1>3, Selected
  <2>2. CASE SettingsStorage = "session"
    BY <1>3, <1>11, <1>12, <2>2 DEF Promised
  <2>3. CASE SettingsStorage # "session"
    <3>1. /\ \A x \in Range(op.todo) : x.vault = SettingsStorage => x.secret = op.goal[x.key]
          /\ \A x \in Range(op.done) : x.vault = SettingsStorage
                                         => x.secret \in {op.before[x.key], op.goal[x.key]}
          /\ \A k \in Keys : vaults[SettingsStorage][k] \in {op.before[k], op.goal[k]}
      BY <1>3, <2>3 DEF Promised
    <3>2. ASSUME NEW k \in Keys PROVE held[SettingsStorage][k] \in {op.before[k], op.goal[k]}
      <4>1. CASE Touches(w, SettingsStorage, k)
        BY <1>5, <1>8, <3>1, <4>1 DEF Touches
      <4>2. CASE ~Touches(w, SettingsStorage, k)
        BY <1>8, <2>1, <3>1, <4>2
      <4> QED BY <4>1, <4>2
    <3>3. /\ Range(o.done) \subseteq Range(op.done) /\ o.todo = op.todo
          /\ o.before = op.before /\ o.goal = op.goal
      BY <1>5, <1>9, <1>10, <1>11, <1>12
    <3> QED BY <2>3, <3>1, <3>2, <3>3 DEF Promised
  <2> QED BY <2>2, <2>3
<1>18. /\ op # NoOp /\ primary' = primary /\ backup' = backup /\ saving' = saving /\ storage' = storage
       /\ portable' = portable /\ refs' = refs /\ report' = report /\ started' = started
  BY <1>2 DEF filevars
<1>19. SettingsStorage' = SettingsStorage
  BY <1>18, SelectedKept
<1>20. OpInv(op', vaults', SettingsStorage', saving')
  BY <1>7, <1>12, <1>13, <1>14, <1>15, <1>16, <1>17, <1>18, <1>19 DEF OpInv
<1>21. FileTypeOK'
  BY <1>3, <1>18 DEF TypeOK, FileTypeOK
<1> QED BY <1>3, <1>7, <1>8, <1>11, <1>18, <1>20, <1>21, GoesOn

LEMMA ReportFailureKeeps == ASSUME CredInv, ReportFailure PROVE CredInv'
<1>1. /\ op # NoOp /\ op.phase = "undo" /\ op' = NoOp
      /\ report' \in {"kept", "failed"}
      /\ UNCHANGED <<filevars, storage, portable, vaults, refs, started>>
  BY DEF ReportFailure, Finish
<1>2. saving = NotSaving /\ TypeOK
  BY <1>1, Underway
<1> QED BY <1>1, <1>2, Ends DEF TypeOK, FileTypeOK, filevars

LEMMA SaveStorageKeeps == ASSUME CredInv, SaveStorage PROVE CredInv'
<1>1. PICK s : s = IF op.kind = "migrate" THEN op.target ELSE storage
  OBVIOUS
<1>2. /\ op # NoOp /\ op.kind \in {"migrate", "settings"} /\ op.phase = "commit"
      /\ storage' = s /\ s \in Documents
      /\ saving' = [doc |-> s, next |-> "backup"] /\ primary' = primary /\ backup' = backup
      /\ op' = [op EXCEPT !.phase = "saving"]
      /\ UNCHANGED <<portable, vaults, refs, report, started>>
  BY <1>1 DEF SaveStorage, Save
<1>3. /\ op \in Operations /\ TypeOK /\ vaults \in [Storages -> Vaults] /\ s \in Storages
      /\ OneWriteEach(op) /\ Restorable(op, vaults) /\ Phased(op, saving)
      /\ Arrives(op, vaults) /\ Promised(op, vaults, SettingsStorage)
  BY <1>2, Underway, CredentialAssumption DEF TypeOK
<1>4. PICK o : o = op'
  OBVIOUS
<1>5. /\ o = [f \in OpParts |-> o[f]] /\ o.phase = "saving"
      /\ \A f \in OpParts \ {"phase"} : o[f] = op[f]
  BY <1>2, <1>3, <1>4, OpFields DEF OpParts
<1>6. \A f \in {"todo", "done", "faults", "left"} : o[f] = op[f]
  BY <1>5 DEF OpParts
<1>7. /\ o \in Operations
      /\ o.kind = op.kind /\ o.target = op.target /\ o.source = op.source
      /\ o.before = op.before /\ o.goal = op.goal /\ o.was = op.was
  BY <1>3, <1>5, <1>6, OpFields, StepMade DEF OpPhases
<1>8. PICK file : file = saving'
  OBVIOUS
<1>9. file # NotSaving /\ (op.kind = "migrate" => file.doc = op.target)
  <2>1. file.doc = s /\ s # None
    BY <1>2, <1>8, DocumentsAreApart
  <2> QED BY <1>1, <2>1 DEF NotSaving
<1>10. OneWriteEach(o)
  BY <1>3, <1>6 DEF OneWriteEach
<1>11. Restorable(o, vaults)
  BY <1>3, <1>6, <1>7 DEF Restorable
<1>12. Phased(o, file)
  BY <1>2, <1>3, <1>5, <1>6, <1>7, <1>9 DEF Phased
<1>13. Arrives(o, vaults)
  BY <1>2, <1>3, <1>6, <1>7 DEF Arrives
<1>14. Promised(o, vaults, SettingsStorage)
  BY <1>3, <1>6, <1>7 DEF Promised
<1>15. SettingsStorage' = SettingsStorage
  BY <1>2, SelectedKept
<1>16. OpInv(op', vaults', SettingsStorage', saving')
  BY <1>2, <1>4, <1>8, <1>10, <1>11, <1>12, <1>13, <1>14, <1>15 DEF OpInv
<1>17. FileTypeOK'
  BY <1>2, <1>3 DEF TypeOK, FileTypeOK
<1> QED BY <1>2, <1>3, <1>4, <1>7, <1>16, <1>17, GoesOn

LEMMA BackUpSettingsKeeps == ASSUME CredInv, FileInv', BackUpSettings PROVE CredInv'
<1>1. /\ op # NoOp /\ saving.next = "backup" /\ primary # Newer /\ primary' = primary
      /\ backup' = IF primary \in Documents THEN primary ELSE backup
      /\ saving' = [saving EXCEPT !.next = "primary"]
      /\ UNCHANGED <<storage, portable, vaults, refs, op, report, started>>
  BY DEF BackUpSettings, BackUp, PrimaryIsValid
<1>2. /\ op \in Operations /\ TypeOK /\ vaults \in [Storages -> Vaults] /\ storage \in Storages
      /\ OneWriteEach(op) /\ Restorable(op, vaults) /\ Phased(op, saving)
      /\ Arrives(op, vaults) /\ Promised(op, vaults, SettingsStorage)
  BY <1>1, Underway DEF TypeOK
<1>3. saving # NotSaving
  BY <1>1 DEF NotSaving, None
<1>4. PICK file : file = saving'
  OBVIOUS
<1>5. file # NotSaving /\ file.doc = saving.doc
  <2>1. saving \in [doc : Documents, next : {"backup", "primary"}]
    BY <1>2, <1>3 DEF TypeOK, FileTypeOK
  <2>2. file.next = "primary" /\ file.doc = saving.doc
    BY <1>1, <1>4, <2>1
  <2> QED BY <2>2 DEF NotSaving, None
<1>6. Phased(op, file)
  BY <1>2, <1>3, <1>5 DEF Phased
<1>7. Loaded' = Loaded
  BY <1>1 DEF Loaded
<1>8. SettingsStorage' = SettingsStorage
  BY <1>7 DEF SettingsStorage
<1>9. OpInv(op', vaults', SettingsStorage', saving')
  BY <1>1, <1>2, <1>4, <1>6, <1>8 DEF OpInv
<1>10. FileTypeOK'
  BY DEF FileInv
<1> QED BY <1>1, <1>2, <1>9, <1>10, GoesOn

LEMMA SettingsSavedKeeps == ASSUME CredInv, FileInv', SettingsSaved PROVE CredInv'
<1>1. /\ op # NoOp /\ saving.next = "primary" /\ primary' = saving.doc /\ saving' = NotSaving
      /\ UNCHANGED <<storage, portable, vaults, refs, started>>
  BY DEF SettingsSaved, ReplacePrimary
<1>2. /\ op \in Operations /\ TypeOK /\ vaults \in [Storages -> Vaults] /\ storage \in Storages
      /\ OneWriteEach(op) /\ Restorable(op, vaults) /\ Phased(op, saving)
      /\ Arrives(op, vaults) /\ Promised(op, vaults, SettingsStorage)
  BY <1>1, Underway DEF TypeOK
<1>3. saving # NotSaving /\ op.phase = "saving" /\ op.todo = <<>> /\ saving.doc \in Documents
  BY <1>1, <1>2 DEF NotSaving, None, Phased, TypeOK, FileTypeOK
<1>4. SettingsStorage' = saving.doc
  BY <1>1, <1>3 DEF SettingsStorage, Loaded
<1>5. FileTypeOK'
  BY DEF FileInv
<1>6. CASE op' = NoOp /\ report' = "done"
  BY <1>1, <1>2, <1>5, <1>6, Ends DEF TypeOK
<1>7. CASE /\ op.kind = "migrate" /\ Removals(op.source) # <<>>
           /\ op' = [op EXCEPT !.kind = "cleanup", !.phase = "write", !.done = <<>>,
                               !.todo = Removals(op.source), !.was = vaults]
           /\ report' = report
  <2>1. PICK o : o = op'
    OBVIOUS
  <2>2. /\ o = [f \in OpParts |-> o[f]] /\ o.kind = "cleanup" /\ o.phase = "write"
        /\ o.done = <<>> /\ o.todo = Removals(op.source) /\ o.was = vaults
        /\ \A f \in OpParts \ {"kind", "phase", "done", "todo", "was"} : o[f] = op[f]
    <3>1. op = [f \in OpParts |-> op[f]]
      BY <1>2, OpFields
    <3> QED BY <1>7, <2>1, <3>1 DEF OpParts
  <2>3. /\ \A f \in {"target", "source", "remove", "refs", "faults", "left", "before", "goal"} :
              o[f] = op[f]
        /\ op.left = {}
    BY <1>2, <1>3, <2>2 DEF OpParts, Phased
  <2>4. op.source \in Storages /\ op.target \in Storages /\ op.source # op.target
        /\ saving.doc = op.target
    BY <1>2, <1>3, <1>7, OpFields DEF Arrives, Phased
  <2>5. Planned(o.todo, op.source) /\ <<>> \in Seq(Writes) /\ Range(<<>>) = {}
    BY <2>2, <2>4, RemovalsPlanned DEF Range
  <2>6. o \in Operations
    <3>1. /\ o.todo \in Seq(Writes) /\ o.done \in Seq(Writes) /\ o.was \in [Storages -> Vaults]
          /\ o.kind \in OpKinds /\ o.phase \in OpPhases
      BY <1>2, <2>2, <2>5 DEF OpKinds, OpPhases, Planned
    <3>2. /\ o.target \in Storages /\ o.source \in Storages /\ o.remove \in BOOLEAN
          /\ o.refs \in SUBSET Keys /\ o.faults \in 0..MaxFaults /\ o.left \in SUBSET Writes
          /\ o.before \in Vaults /\ o.goal \in Vaults
      BY <1>2, <2>3, OpFields
    <3> QED BY <2>2, <3>1, <3>2, OpMade
  <2>7. OneWriteEach(o)
    <3>1. Distinct(o.todo)
      BY <2>5 DEF Planned
    <3> QED BY <2>2, <2>5, <3>1 DEF OneWriteEach, Distinct, Apart
  <2>8. Restorable(o, vaults)
    BY <2>2, <2>5 DEF Restorable
  <2>9. Phased(o, NotSaving)
    BY <1>7, <2>2, <2>3 DEF Phased
  <2>10. Arrives(o, vaults)
    BY <2>2 DEF Arrives
  <2>11. Promised(o, vaults, op.target)
    <3>1. \A w \in Range(o.todo) : w.vault = op.source
      BY <2>5 DEF Planned, Range
    <3>2. o.before = op.before /\ o.goal = op.goal
      BY <2>3
    <3>3. CASE op.target = "session"
      <4>1. op.goal = Empty
        BY <1>2, <1>3, <1>7, <3>3 DEF Arrives
      <4> QED BY <3>2, <3>3, <4>1, EmptyVault DEF Promised
    <3>4. CASE op.target # "session"
      <4>1. \A k \in Keys : vaults[op.target][k] = op.goal[k]
        BY <1>2, <1>3, <1>7, <2>5, <3>4 DEF Arrives
      <4> QED BY <2>2, <2>4, <2>5, <3>1, <3>2, <3>4, <4>1 DEF Promised
    <3> QED BY <3>3, <3>4
  <2>12. OpInv(op', vaults', SettingsStorage', saving')
    BY <1>1, <1>4, <2>1, <2>4, <2>7, <2>8, <2>9, <2>10, <2>11 DEF OpInv
  <2> QED BY <1>1, <1>2, <1>5, <1>7, <2>1, <2>6, <2>12, GoesOn
<1> QED BY <1>6, <1>7 DEF SettingsSaved, Finish

LEMMA SettingsNotSavedKeeps == ASSUME CredInv, SettingsNotSaved PROVE CredInv'
<1>1. /\ op # NoOp /\ op' = NoOp /\ report' \in {"kept", "failed"}
      /\ saving' = NotSaving /\ primary' = primary /\ backup' = backup
      /\ storage' \in {op.source, storage}
      /\ UNCHANGED <<portable, vaults, refs, started>>
  BY DEF SettingsNotSaved, Abandon, Finish
<1>2. TypeOK /\ op.source \in Storages
  BY <1>1, Underway, OpFields
<1> QED BY <1>1, <1>2, Ends DEF TypeOK, FileTypeOK

LEMMA ProfilesSavedKeeps == ASSUME CredInv, ProfilesSaved PROVE CredInv'
<1>1. /\ op # NoOp /\ op.phase = "commit" /\ op' = NoOp /\ report' = "done"
      /\ refs' \in {refs, op.refs}
      /\ UNCHANGED <<filevars, storage, portable, vaults, started>>
  BY DEF ProfilesSaved, Finish
<1>2. TypeOK /\ op.refs \in SUBSET Keys /\ saving = NotSaving
  BY <1>1, Underway, OpFields
<1> QED BY <1>1, <1>2, Ends DEF TypeOK, FileTypeOK, filevars

LEMMA ProfilesNotSavedKeeps == ASSUME CredInv, ProfilesNotSaved PROVE CredInv'
<1>1. /\ op # NoOp /\ op.kind \in {"profile", "clearActive"} /\ op.phase = "commit"
      /\ op.faults < MaxFaults /\ op' = UndoPhase(op)
      /\ UNCHANGED <<filevars, storage, portable, vaults, refs, report, started>>
  BY DEF ProfilesNotSaved, Fails
<1>2. op \in Operations
  BY <1>1, Underway
<1> QED BY <1>1, <1>2, UndoPhaseFields, TurnsBack

-----------------------------------------------------------------------------
(***************************************************************************)
(* Between operations, and when the program ends.                          *)
(***************************************************************************)
LEMMA LockKeeps == ASSUME CredInv, OpenPortable \/ LockPortable PROVE CredInv'
<1>1. /\ op = NoOp /\ portable' \in {"open", "locked"}
      /\ UNCHANGED <<filevars, storage, vaults, refs, op, report, started>>
  BY DEF OpenPortable, LockPortable
<1> QED BY <1>1 DEF CredInv, TypeOK, FileTypeOK, filevars, SettingsStorage, Loaded

LEMMA RestartKeeps == ASSUME CredInv, Restart PROVE CredInv'
<1>1. TypeOK /\ SettingsStorage \in Storages
  BY Selected DEF CredInv
<1>2. storage' \in Storages
  BY <1>1, CredentialAssumption DEF Restart, LoadedFromBackup
<1>3. portable' \in {"absent", "locked", "open"} /\ vaults' \in [Storages -> Vaults]
  BY <1>1, EmptyVault DEF Restart, TypeOK
<1>4. /\ op' = NoOp /\ report' = None /\ saving' = NotSaving
      /\ primary' = primary /\ backup' = backup /\ refs' = refs /\ started' = started
  BY DEF Restart
<1> QED BY <1>1, <1>2, <1>3, <1>4, Ends DEF TypeOK, FileTypeOK

LEMMA FileFaultKeeps == ASSUME CredInv, FileInv', FileFault PROVE CredInv'
<1>1. /\ op = NoOp /\ saving' = saving /\ saving = NotSaving
      /\ UNCHANGED <<storage, portable, vaults, refs, op, report, started>>
  BY DEF FileFault, DamagePrimary, DamageBackup, Upgrade
<1> QED BY <1>1 DEF CredInv, TypeOK, FileInv

LEMMA InitCredInv == Init => CredInv
<1> SUFFICES ASSUME Init PROVE CredInv
  OBVIOUS
<1>1. [v \in Storages |-> Empty] \in [Storages -> Vaults] /\ 0 \in 0..MaxOperations
  BY EmptyVault, CredentialAssumption
<1>2. FileTypeOK
  BY InitFileInv DEF Init, FileInv
<1> QED BY <1>1, <1>2, CredentialAssumption DEF Init, FileInit, CredInv, TypeOK

LEMMA CredStepKeeps == CredInv /\ FileInv' /\ [Next]_vars => CredInv'
<1> SUFFICES ASSUME CredInv, FileInv', [Next]_vars PROVE CredInv'
  OBVIOUS
<1>1. ASSUME NEW v \in Storages, NEW remove \in BOOLEAN, Migrate(v, remove) PROVE CredInv'
  BY <1>1, MigrateKeeps
<1>2. ASSUME NEW v \in Storages, Clear(v) PROVE CredInv'
  BY <1>2, ClearKeeps
<1>3. ASSUME NEW slots \in SUBSET Slots, SaveProfile(slots) PROVE CredInv'
  BY <1>3, SaveProfileKeeps
<1>4. CASE WriteSecret \/ WriteFails \/ UndoWrite \/ ReportFailure
  BY <1>4, WriteSecretKeeps, WriteFailsKeeps, UndoWriteKeeps, ReportFailureKeeps
<1>5. CASE SaveStorage \/ BackUpSettings \/ SettingsSaved \/ SettingsNotSaved
  BY <1>5, SaveStorageKeeps, BackUpSettingsKeeps, SettingsSavedKeeps, SettingsNotSavedKeeps
<1>6. CASE ProfilesSaved \/ ProfilesNotSaved
  BY <1>6, ProfilesSavedKeeps, ProfilesNotSavedKeeps
<1>7. CASE SaveSettings \/ OpenPortable \/ LockPortable \/ Restart \/ FileFault
  BY <1>7, SaveSettingsKeeps, LockKeeps, RestartKeeps, FileFaultKeeps
<1>8. CASE UNCHANGED vars
  BY <1>8 DEF vars, filevars, CredInv, OpInv, TypeOK, FileTypeOK, SettingsStorage, Loaded,
              OneWriteEach, Restorable, Phased, Arrives, Promised
<1> QED BY <1>1, <1>2, <1>3, <1>4, <1>5, <1>6, <1>7, <1>8 DEF Next

LEMMA SettingsFileInv == Spec => []FileInv
<1>1. Init => FileInit BY DEF Init
<1> QED BY <1>1, CredentialStepIsFileStep, FileInvariant, PTL DEF Spec, FileSpec

LEMMA CredInvariant == Spec => []CredInv
  BY InitCredInv, CredStepKeeps, SettingsFileInv, PTL DEF Spec

\* Wherever an operation is cut off, each secret a start would find is that of
\* before it or the one asked for.
THEOREM AsBeforeOrAsAskedHolds == Spec => []AsBeforeOrAsAsked
<1>1. CredInv => AsBeforeOrAsAsked
  <2> SUFFICES ASSUME CredInv, op # NoOp, NEW k \in Keys
               PROVE  Durable(SettingsStorage)[k] \in {op.before[k], op.goal[k]}
    BY DEF AsBeforeOrAsAsked
  <2>1. Promised(op, vaults, SettingsStorage) /\ TypeOK
    BY Underway
  <2> QED BY <2>1, Selected DEF Promised
<1> QED BY <1>1, CredInvariant, PTL

\* A failure that is reported, whichever of its writes failed and however many
\* of its undoings, leaves every secret as the operation found it except those
\* whose own undoing failed.
THEOREM FailureRestoresHolds == Spec => FailureRestores
<1>1. CredInv /\ [Next]_vars
        => [op # NoOp /\ op' = NoOp /\ report' = "failed" =>
              /\ refs' = refs
              /\ \A v \in Storages, k \in Keys :
                    vaults'[v][k] # op.was[v][k] => \E w \in op.left : w.vault = v /\ w.key = k]_vars
  <2> SUFFICES ASSUME CredInv, Next, op # NoOp, op' = NoOp, report' = "failed"
               PROVE  /\ refs' = refs
                      /\ \A v \in Storages, k \in Keys :
                            vaults'[v][k] # op.was[v][k] => \E w \in op.left : w.vault = v /\ w.key = k
    OBVIOUS
  <2>1. /\ op \in Operations /\ Restorable(op, vaults) /\ Phased(op, saving)
        /\ op.was \in [Storages -> Vaults] /\ vaults \in [Storages -> Vaults]
    BY Underway, OpFields DEF TypeOK
  <2>2. /\ vaults' = vaults /\ refs' = refs
        /\ op.done = <<>>
    <3>1. CASE ReportFailure
      BY <3>1 DEF ReportFailure, Finish
    <3>2. CASE SettingsNotSaved
      <4>1. /\ saving # NotSaving /\ op.kind # "migrate" /\ vaults' = vaults /\ refs' = refs
        BY <3>2 DEF SettingsNotSaved, Abandon, Finish
      <4> QED BY <2>1, <4>1 DEF Phased
    <3>3. CASE \/ \E v \in Storages, remove \in BOOLEAN : Migrate(v, remove)
               \/ \E v \in Storages : Clear(v)
               \/ \E slots \in SUBSET Slots : SaveProfile(slots)
               \/ SaveSettings
      <4>1. Ready
        <5>1. ASSUME NEW slots \in SUBSET Slots, SaveProfile(slots) PROVE Ready
          BY <5>1 DEF SaveProfile, Begin
        <5>2. ASSUME NEW v \in Storages, NEW remove \in BOOLEAN, Migrate(v, remove) PROVE Ready
          BY <5>2 DEF Migrate, Begin
        <5>3. ASSUME NEW v \in Storages, Clear(v) PROVE Ready
          BY <5>3 DEF Clear, Begin
        <5>4. SaveSettings => Ready
          BY DEF SaveSettings, Begin
        <5> QED BY <3>3, <5>1, <5>2, <5>3, <5>4
      <4> QED BY <4>1 DEF Ready
    <3>4. CASE OpenPortable \/ LockPortable \/ FileFault
      BY <3>4 DEF OpenPortable, LockPortable, FileFault
    <3>5. CASE SettingsSaved \/ ProfilesSaved \/ Restart
      <4>1. report' \in {report, "done", None}
        BY <3>5 DEF SettingsSaved, ProfilesSaved, Restart, Finish
      <4> QED BY <4>1, Underway DEF None
    <3>6. CASE WriteSecret \/ WriteFails \/ UndoWrite \/ SaveStorage \/ BackUpSettings \/ ProfilesNotSaved
      <4>1. report' = report
        BY <3>6 DEF WriteSecret, WriteFails, UndoWrite, SaveStorage, BackUpSettings, ProfilesNotSaved
      <4> QED BY <4>1, Underway DEF None
    <3> QED BY <3>1, <3>2, <3>3, <3>4, <3>5, <3>6 DEF Next
  <2>3. Range(op.done) = {}
    BY <2>2 DEF Range
  <2>4. ASSUME NEW v \in Storages, NEW k \in Keys, \A w \in op.left : ~(w.vault = v /\ w.key = k)
        PROVE  vaults[v][k] = op.was[v][k]
    BY <2>1, <2>3, <2>4 DEF Restorable, Touches
  <2> QED BY <2>2, <2>4
<1> QED BY <1>1, CredInvariant, PTL DEF Spec, FailureRestores
=============================================================================
