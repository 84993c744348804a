---------------------------- MODULE Credentials ----------------------------
(***************************************************************************)
(* The credential vaults, the setting that selects one of them, and the    *)
(* operations of AppController that change secrets: saving or forgetting   *)
(* those of a host profile, migrating to another vault, clearing a vault.  *)
(* The settings file is that of LastKnownGood, whose documents are here    *)
(* the storage it names.                                                   *)
(*                                                                         *)
(* An operation runs on the GUI thread from beginning to end, but it       *)
(* writes one secret or one file at a time: a write may fail, and the      *)
(* program may die after each.  Every operation has the same form: it      *)
(* writes secrets in order and remembers what they were, saves a file, and *)
(* undoes its writes in reverse order when one of these fails.             *)
(***************************************************************************)
EXTENDS LastKnownGood, Naturals, Sequences, SequencesExt

CONSTANTS
    Secrets,        \* what the user types
    Default,        \* m_defaultCredentialStorage
    Slots,          \* the credentials of the profile that are managed: "login", "proxy"
    MaxOperations,  \* bound: operations the user starts
    MaxFaults       \* bound: writes that fail within one operation

Storages == {"system", "portable", "session"}

ASSUME CredentialAssumption ==
    /\ Documents = Storages /\ Default \in Storages
    /\ None \notin Secrets
    /\ Slots \subseteq {"login", "proxy"}
    /\ MaxOperations \in Nat /\ MaxFaults \in Nat

\* CredentialKind, of one profile: its login is stored under the kind that fits
\* the way it authenticates.
Kinds(slot) == IF slot = "proxy" THEN {"proxyPassword"} ELSE {"password", "passphrase"}
Keys == UNION {Kinds(s) : s \in Slots}

VARIABLES
    storage,    \* m_storage, the vault in use
    portable,   \* the portable vault: "absent", "locked" or "open"
    vaults,     \* the secrets each vault holds
    refs,       \* the keys the profile refers to, as saved
    op,         \* the operation under way
    report,     \* what the last operation told the user
    started     \* the number of operations started

vars == <<filevars, storage, portable, vaults, refs, op, report, started>>

Empty == [k \in Keys |-> None]
Vaults == [Keys -> Secrets \cup {None}]
NoOp == [kind |-> None]

\* A write still to be made, or one that was made and what it replaced.
Write(v, k, secret) == [vault |-> v, key |-> k, secret |-> secret]
Writes == [vault : Storages, key : Keys, secret : Secrets \cup {None}]

\* An operation: the writes still to be made and those made, with what they
\* replaced; the vault a migration goes to and the one it leaves, whether that
\* is then cleared; the references to save.  For the properties: the writes
\* whose undoing failed, what a start would find before the operation and is
\* meant to find after it, and the vaults as they were.
Operations ==
    [kind : {"migrate", "cleanup", "profile", "clear", "clearActive", "settings"},
     phase : {"write", "commit", "saving", "undo"},
     todo : Seq(Writes), done : Seq(Writes),
     target : Storages, source : Storages, remove : BOOLEAN, refs : SUBSET Keys,
     faults : 0..MaxFaults, left : SUBSET Writes,
     before : Vaults, goal : Vaults, was : [Storages -> Vaults]]

\* The vault a start of the program would select.
SettingsStorage == IF Loaded \in Documents THEN Loaded ELSE Default

\* What is left of the secrets when the program is started again.
Durable(v) == IF v = "session" THEN Empty ELSE vaults[v]

TypeOK ==
    /\ FileTypeOK
    /\ storage \in Storages
    /\ portable \in {"absent", "locked", "open"}
    /\ vaults \in [Storages -> Vaults]
    /\ refs \in SUBSET Keys
    /\ op \in {NoOp} \cup Operations
    /\ report \in {None, "done", "failed", "kept"}
    /\ started \in 0..MaxOperations

Init ==
    /\ FileInit
    /\ storage = Default
    /\ portable = "absent"
    /\ vaults = [v \in Storages |-> Empty]
    /\ refs = {}
    /\ op = NoOp /\ report = None /\ started = 0

-----------------------------------------------------------------------------
\* A vault answers: the portable one only when it exists and is unlocked.
Usable(v) == v # "portable" \/ portable = "open"

\* The keys a vault lists.
Listed(v) == SetToSeq({k \in Keys : vaults[v][k] # None})

\* Seeded fault: what is undone is removed.
UndoneByRemoval(w) == [vaults EXCEPT ![w.vault][w.key] = None]

\* The secret a write replaced is stored again, or the new one removed.
Undone(w) == [vaults EXCEPT ![w.vault][w.key] = w.secret]

\* The secrets after the writes of an operation: the last one of a key counts.
WritesOf(v, k, todo) == {i \in DOMAIN todo : todo[i].vault = v /\ todo[i].key = k}
LastOf(hits) == CHOOSE i \in hits : \A j \in hits : j <= i

After(secrets, v, todo) ==
    [k \in Keys |-> IF WritesOf(v, k, todo) = {} THEN secrets[k]
                    ELSE todo[LastOf(WritesOf(v, k, todo))].secret]

Ready == op = NoOp /\ saving = NotSaving /\ started < MaxOperations

\* An operation begins.
Begin(kind, todo, goal, target, remove, newRefs) ==
    /\ Ready
    /\ op' = [kind |-> kind, phase |-> IF todo = <<>> THEN "commit" ELSE "write",
              todo |-> todo, done |-> <<>>,
              target |-> target, source |-> storage, remove |-> remove, refs |-> newRefs,
              faults |-> 0, left |-> {},
              before |-> Durable(SettingsStorage), goal |-> goal, was |-> vaults]
    /\ started' = started + 1
    /\ report' = None

Finish(outcome) == op' = NoOp /\ report' = outcome

\* Seeded fault: the vault that is left is cleared with the copy still unselected.
CopyThenClear(target, remove) ==
    [i \in DOMAIN Listed(storage) |-> Write(target, Listed(storage)[i], vaults[storage][Listed(storage)[i]])]
    \o IF remove THEN [i \in DOMAIN Listed(storage) |-> Write(storage, Listed(storage)[i], None)] ELSE <<>>

\* The writes of migrate(): every secret of the vault in use, to the target.  A
\* portable vault that does not exist holds nothing.
Copy(target, remove) ==
    [i \in DOMAIN Listed(storage) |-> Write(target, Listed(storage)[i], vaults[storage][Listed(storage)[i]])]

\* migrateCredentialStorage(), without an encrypted history of conversations:
\* with one, leaving for the session and clearing the vault is refused.
Migrate(target, remove) ==
    /\ target # storage
    /\ Usable(storage) \/ portable = "absent"
    /\ LET todo == Copy(target, remove)
           goal == IF target = "session" THEN Empty ELSE After(vaults[target], target, todo)
       IN  Begin("migrate", todo, goal, target, remove, refs)
    /\ UNCHANGED <<filevars, storage, portable, vaults, refs>>

\* The writes of removeAll().
Removals(v) == [i \in DOMAIN Listed(v) |-> Write(v, Listed(v)[i], None)]

\* What a restart is meant to find after writes to a vault.
Changed(v, todo) ==
    IF v = SettingsStorage THEN After(Durable(v), v, todo) ELSE Durable(SettingsStorage)

\* clearCredentialStorage(): removeAllSavedCredentials() for the vault in use,
\* which also clears the reference to the login.
Clear(v) ==
    /\ Usable(v) \/ portable = "absent"
    /\ LET todo == Removals(v)
       IN  Begin(IF v = storage THEN "clearActive" ELSE "clear", todo, Changed(v, todo),
                 storage, FALSE, IF v = storage THEN refs \ {"password", "passphrase"} ELSE refs)
    /\ UNCHANGED <<filevars, storage, portable, vaults, refs>>

\* CredentialMutation::apply() for one credential: the secret to store under
\* the kind that is used now, None to forget the one that was stored.
Mutation(slot, kind, secret) ==
    LET previous == refs \cap Kinds(slot)
        stale == IF secret = None THEN previous ELSE previous \ {kind}
    IN  (IF secret # None THEN <<Write(storage, kind, secret)>> ELSE <<>>)
        \o [i \in 1..Len(SetToSeq(stale)) |-> Write(storage, SetToSeq(stale)[i], None)]

\* saveHostProfileWithCredential(); deleteHostProfile() and
\* forgetHostCredential() only forget.
SaveProfile(slots) ==
    /\ \E kind \in [slots -> Keys], secret \in [slots -> Secrets \cup {None}] :
          /\ \A s \in slots : kind[s] \in Kinds(s)
          /\ \E s \in slots : secret[s] # None \/ refs \cap Kinds(s) # {}
          /\ \A s \in slots : secret[s] # None => ~(storage = "portable" /\ portable = "absent")
          /\ LET of(s) == IF s \in slots THEN Mutation(s, kind[s], secret[s]) ELSE <<>>
                 todo == of("login") \o of("proxy")
                 kept == refs \ UNION {Kinds(s) : s \in slots}
             IN  Begin("profile", todo, Changed(storage, todo), storage, FALSE,
                       kept \cup {kind[s] : s \in {t \in slots : secret[t] # None}})
    /\ UNCHANGED <<filevars, storage, portable, vaults, refs>>

\* Another setting is changed: the document names the same storage.
SaveSettings ==
    /\ Begin("settings", <<>>, Durable(storage), storage, FALSE, refs)
    /\ UNCHANGED <<filevars, storage, portable, vaults, refs>>

-----------------------------------------------------------------------------
\* A step that may fail because of the disk or the system.
Fails == op.faults < MaxFaults

UndoPhase(o) == [o EXCEPT !.phase = "undo", !.faults = @ + 1]

\* The next secret is written.  migrate() reads it back, which may fail too; the
\* memory of the session does not fail.
WriteSecret ==
    /\ op # NoOp /\ op.phase = "write"
    /\ LET w == Head(op.todo)
           was == Write(w.vault, w.key, vaults[w.vault][w.key])
           made == [op EXCEPT !.todo = Tail(@), !.done = Append(@, was)]
           next == IF made.todo = <<>> THEN [made EXCEPT !.phase = "commit"] ELSE made
       IN  /\ Usable(w.vault)
           /\ vaults' = [vaults EXCEPT ![w.vault][w.key] = w.secret]
           /\ \/ op' = next
              \/ op.kind = "migrate" /\ w.vault # "session" /\ Fails /\ op' = UndoPhase(made)
    /\ UNCHANGED <<filevars, storage, portable, refs, report, started>>

\* It is not: a vault that is locked, or a fault, for a migration also one of
\* the vault it reads from.
WriteFails ==
    /\ op # NoOp /\ op.phase = "write"
    /\ LET v == Head(op.todo).vault
       IN  \/ /\ v # "session" \/ op.kind = "migrate"
              /\ Fails /\ op' = UndoPhase(op)
           \/ ~Usable(v) /\ op' = [op EXCEPT !.phase = "undo"]
    /\ UNCHANGED <<filevars, storage, portable, vaults, refs, report, started>>

\* The writes are undone, the last one first; a write that cannot be undone is
\* passed over.
UndoWrite ==
    /\ op # NoOp /\ op.phase = "undo" /\ op.done # <<>>
    /\ \/ vaults' = Undone(Last(op.done)) /\ op' = [op EXCEPT !.done = Front(@)]
       \/ /\ Last(op.done).vault # "session" /\ Fails
          /\ op' = [op EXCEPT !.done = Front(@), !.faults = @ + 1, !.left = @ \cup {Last(op.done)}]
          /\ UNCHANGED vaults
    /\ UNCHANGED <<filevars, storage, portable, refs, report, started>>

\* The failure is reported, and nothing of a rollback that failed itself: that
\* of a profile is only logged, that of a migration has the code of a failed
\* verification, that of a clearing says that the credentials were restored.
ReportFailure ==
    /\ op # NoOp /\ op.phase = "undo" /\ op.done = <<>>
    /\ Finish(IF op.kind = "cleanup" THEN "kept" ELSE "failed")
    /\ UNCHANGED <<filevars, storage, portable, vaults, refs, started>>

-----------------------------------------------------------------------------
\* Every secret is written.  A migration uses the target from now on and saves
\* the setting; another setting is saved with the storage as it is.
SaveStorage ==
    /\ op # NoOp /\ op.kind \in {"migrate", "settings"} /\ op.phase = "commit"
    /\ LET s == IF op.kind = "migrate" THEN op.target ELSE storage
       IN  storage' = s /\ Save(s)
    /\ op' = [op EXCEPT !.phase = "saving"]
    /\ UNCHANGED <<portable, vaults, refs, report, started>>

BackUpSettings ==
    /\ op # NoOp /\ BackUp
    /\ UNCHANGED <<storage, portable, vaults, refs, op, report, started>>

\* The setting is saved; then the vault that was left is cleared if that was
\* asked for.
SettingsSaved ==
    /\ op # NoOp /\ ReplacePrimary
    /\ IF op.kind = "migrate" /\ op.remove /\ Removals(op.source) # <<>>
       THEN /\ op' = [op EXCEPT !.kind = "cleanup", !.phase = "write", !.done = <<>>,
                                !.todo = Removals(op.source), !.was = vaults]
            /\ UNCHANGED report
       ELSE Finish("done")
    /\ UNCHANGED <<storage, portable, vaults, refs, started>>

\* It is not: the vault of before stays in use, with the secrets copied.
SettingsNotSaved ==
    /\ op # NoOp /\ Abandon
    /\ Fails \/ primary = Newer
    /\ storage' = IF op.kind = "migrate" THEN op.source ELSE storage
    /\ Finish(IF op.kind = "migrate" THEN "kept" ELSE "failed")
    /\ UNCHANGED <<portable, vaults, refs, started>>

\* The profiles are saved with their new references; clearing a vault that is
\* not in use saves nothing.
ProfilesSaved ==
    /\ op # NoOp /\ op.kind \in {"profile", "clearActive", "clear", "cleanup"} /\ op.phase = "commit"
    /\ refs' = IF op.kind = "cleanup" THEN refs ELSE op.refs
    /\ Finish("done")
    /\ UNCHANGED <<filevars, storage, portable, vaults, started>>

ProfilesNotSaved ==
    /\ op # NoOp /\ op.kind \in {"profile", "clearActive"} /\ op.phase = "commit"
    /\ Fails /\ op' = UndoPhase(op)
    /\ UNCHANGED <<filevars, storage, portable, vaults, refs, report, started>>

-----------------------------------------------------------------------------
\* initializePortableCredentialVault() and unlockPortableCredentialVault(); the
\* master password is left out.
OpenPortable ==
    /\ op = NoOp /\ portable # "open" /\ portable' = "open"
    /\ UNCHANGED <<filevars, storage, vaults, refs, op, report, started>>

\* lockPortableCredentialVault()
LockPortable ==
    /\ op = NoOp /\ portable = "open" /\ portable' = "locked"
    /\ UNCHANGED <<filevars, storage, vaults, refs, op, report, started>>

\* The program ends or dies, wherever it is, and is started again.  The settings
\* file may be one that cannot be read just then.
Restart ==
    /\ storage' \in {SettingsStorage,
                     IF LoadedFromBackup \in Documents THEN LoadedFromBackup ELSE Default}
    /\ portable' = IF portable = "open" THEN "locked" ELSE portable
    /\ vaults' = [vaults EXCEPT !["session"] = Empty]
    /\ op' = NoOp /\ report' = None
    /\ saving' = NotSaving
    /\ UNCHANGED <<primary, backup, refs, started>>

\* What happens to the settings file between operations.
FileFault ==
    /\ op = NoOp
    /\ DamagePrimary \/ DamageBackup \/ Upgrade
    /\ UNCHANGED <<storage, portable, vaults, refs, op, report, started>>

Next ==
    \/ \E v \in Storages, remove \in BOOLEAN : Migrate(v, remove)
    \/ \E v \in Storages : Clear(v)
    \/ \E slots \in SUBSET Slots : SaveProfile(slots)
    \/ SaveSettings
    \/ WriteSecret \/ WriteFails \/ UndoWrite \/ ReportFailure
    \/ SaveStorage \/ BackUpSettings \/ SettingsSaved \/ SettingsNotSaved
    \/ ProfilesSaved \/ ProfilesNotSaved
    \/ OpenPortable \/ LockPortable \/ Restart \/ FileFault

Spec == Init /\ [][Next]_vars

-----------------------------------------------------------------------------
(***************************************************************************)
(* Properties                                                              *)
(***************************************************************************)
\* Whenever the program dies in the course of an operation, each secret a start
\* would find is the one of before it or the one it was asked for: a migration
\* or a change of a profile that is cut off loses no saved secret.
AsBeforeOrAsAsked ==
    op # NoOp =>
        \A k \in Keys : Durable(SettingsStorage)[k] \in {op.before[k], op.goal[k]}

\* An operation that reports a failure, whichever of its writes failed and
\* however many of its undoings, has put every secret of every vault back except
\* those whose own undoing failed, and has saved no reference: a failed undoing
\* does not keep the rollback from the writes before it.  (The report says
\* nothing of the exceptions.)
FailureRestores ==
    [][op # NoOp /\ op' = NoOp /\ report' = "failed" =>
          /\ refs' = refs
          /\ \A v \in Storages, k \in Keys :
                vaults'[v][k] # op.was[v][k] => \E w \in op.left : w.vault = v /\ w.key = k]_vars

=============================================================================
