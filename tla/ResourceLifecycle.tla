------------------------- MODULE ResourceLifecycle --------------------------
(***************************************************************************)
(* plugin_manager/resource_lifecycle.py: one managed resource, its record  *)
(* in registry.json and in memory, the directories of its versions and its *)
(* backups.  Every operation holds the lock of the service, so operations  *)
(* do not interleave; the process may die between the steps of one, and a  *)
(* write of the registry may fail.                                         *)
(*                                                                         *)
(* An archive is a number: what its files contain and its digest.  Fields  *)
(* of the record that no property tells apart (names, sources, overrides,  *)
(* the bound workflow) are left out; what sets them writes the registry.   *)
(***************************************************************************)
EXTENDS Integers

CONSTANTS
  MaxVersion,   \* bound: versions, ordered like the semantic ones
  MaxArchives,  \* bound: archives uploaded
  Permission,   \* what a manifest may ask for
  MaxFaults,    \* bound: writes of the registry that fail
  MaxCrashes    \* bound: crashes

ASSUME LifecycleAssumption ==
  /\ MaxVersion \in Nat \ {0}
  /\ MaxArchives \in Nat
  /\ Permission # {}
  /\ MaxFaults \in Nat /\ MaxCrashes \in Nat

VARIABLES
  file,        \* the record in registry.json
  mem,         \* the record in memory
  disk,        \* the archive each version directory holds, 0 when there is none
  backups,     \* backups: the record of the time and the archive
  op,          \* the operation that holds the lock
  made,        \* archives uploaded
  agreed,      \* history: permissions and archive of the last confirmed enable
  discarded,   \* history: archives of backups that were deleted
  replaced,    \* history: archives whose directory a restore has removed
  stuck,       \* history: versions left behind by a crash or a restore
  faults, crashes

vars == <<file, mem, disk, backups, op, made, agreed, discarded, replaced, stuck,
          faults, crashes>>

Version == 1..MaxVersion
Archive == 1..MaxArchives
Manifest == [archive : 0..MaxArchives, permission : Permission]
Nothing == [archive |-> 0, permission |-> CHOOSE p \in Permission : TRUE]

\* A record has its current version, 0 when the resource is not installed,
\* and the manifests of the versions it knows.
Record == [cur : 0..MaxVersion, versions : [Version -> Manifest],
           enabled : BOOLEAN, confirmation : BOOLEAN]
NoRecord == [cur |-> 0, versions |-> [v \in Version |-> Nothing],
             enabled |-> FALSE, confirmation |-> TRUE]
Backup == [record : Record, archive : Archive]
Op == [pc : {"idle", "remove", "place", "write"}, next : Record, version : 0..MaxVersion,
       archive : 0..MaxArchives]
Idle == [pc |-> "idle", next |-> NoRecord, version |-> 0, archive |-> 0]

Current(r) == r.versions[r.cur]

TypeOK ==
  /\ file \in Record /\ mem \in Record
  /\ disk \in [Version -> 0..MaxArchives]
  /\ \A b \in backups : b \in Backup
  /\ op \in Op
  /\ made \in 0..MaxArchives
  /\ agreed \in Manifest
  /\ discarded \subseteq Archive /\ replaced \subseteq Archive
  /\ stuck \subseteq Version
  /\ faults \in 0..MaxFaults
  /\ crashes \in 0..MaxCrashes

Init ==
  /\ file = NoRecord /\ mem = NoRecord
  /\ disk = [v \in Version |-> 0]
  /\ backups = {}
  /\ op = Idle
  /\ made = 0
  /\ agreed = Nothing
  /\ discarded = {} /\ replaced = {}
  /\ stuck = {}
  /\ faults = 0 /\ crashes = 0

-----------------------------------------------------------------------------
Installed == op.pc = "idle" /\ mem.cur # 0

\* The next step writes the registry, and undoes version when that fails.
Write(next, version) ==
  op' = [pc |-> "write", next |-> next, version |-> version, archive |-> 0]

\* _backup_version: nothing is done for a version that is not on disk.  The
\* record is kept the way restore_backup will use it: disabled.
Disabled(r) == [r EXCEPT !.enabled = FALSE, !.confirmation = TRUE]

Backed ==
  IF disk[mem.cur] = 0 THEN backups
  ELSE backups \cup {[record |-> Disabled(mem), archive |-> disk[mem.cur]]}

Upload == made < MaxArchives /\ made' = made + 1

\* install_archive, and author_document which builds the archive itself.
Install(v, p) ==
  LET m == [archive |-> made + 1, permission |-> p] IN
  /\ op.pc = "idle"
  /\ mem.cur = 0
  /\ disk[v] = 0
  /\ Upload
  /\ disk' = [disk EXCEPT ![v] = m.archive]
  /\ Write([cur |-> v, versions |-> [NoRecord.versions EXCEPT ![v] = m],
            enabled |-> FALSE, confirmation |-> TRUE], v)
  /\ UNCHANGED <<file, mem, backups, agreed, discarded, replaced, stuck, faults, crashes>>

\* Mutant of Update: new permissions do not need a confirmation.
Update_Trusting(v, p) ==
  LET m == [archive |-> made + 1, permission |-> p] IN
  /\ Installed
  /\ v > mem.cur
  /\ mem.versions[v].archive = 0
  /\ disk[v] = 0
  /\ Upload
  /\ backups' = Backed
  /\ disk' = [disk EXCEPT ![v] = m.archive]
  /\ Write([mem EXCEPT !.cur = v, !.versions[v] = m], v)
  /\ UNCHANGED <<file, mem, agreed, discarded, replaced, stuck, faults, crashes>>

\* update_archive, and author_document_version.  The backup is made before
\* a directory in the way is noticed.  Only other permissions disable it.
Update(v, p) ==
  LET m == [archive |-> made + 1, permission |-> p]
      same == p = Current(mem).permission
  IN /\ Installed
     /\ v > mem.cur
     /\ mem.versions[v].archive = 0
     /\ Upload
     /\ backups' = Backed
     /\ IF disk[v] # 0 THEN UNCHANGED <<disk, op>>
        ELSE /\ disk' = [disk EXCEPT ![v] = m.archive]
             /\ Write([mem EXCEPT !.cur = v, !.versions[v] = m,
                                  !.enabled = @ /\ same, !.confirmation = @ \/ ~same], v)
     /\ UNCHANGED <<file, mem, agreed, discarded, replaced, stuck, faults, crashes>>

Enable ==
  /\ Installed
  /\ ~mem.enabled \/ mem.confirmation
  /\ Write([mem EXCEPT !.enabled = TRUE, !.confirmation = FALSE], 0)
  /\ agreed' = Current(mem)
  /\ UNCHANGED <<file, mem, disk, backups, made, discarded, replaced, stuck, faults, crashes>>

Disable ==
  /\ Installed
  /\ mem.enabled
  /\ Write([mem EXCEPT !.enabled = FALSE], 0)
  /\ UNCHANGED <<file, mem, disk, backups, made, agreed, discarded, replaced, stuck, faults, crashes>>

\* bind_workflow, set_runtime_overrides and the repositories of the registry.
Touch ==
  /\ Installed
  /\ Write(mem, 0)
  /\ UNCHANGED <<file, mem, disk, backups, made, agreed, discarded, replaced, stuck, faults, crashes>>

\* The directory must hold what the record says of the version.
RestoreVersion(v) ==
  /\ Installed
  /\ mem.versions[v].archive # 0
  /\ disk[v] = mem.versions[v].archive
  /\ backups' = Backed
  /\ Write([Disabled(mem) EXCEPT !.cur = v], 0)
  /\ UNCHANGED <<file, mem, disk, made, agreed, discarded, replaced, stuck, faults, crashes>>

\* Mutant of Remove: there is no backup.
Remove_Unsaved ==
  /\ Installed
  /\ op' = [Idle EXCEPT !.pc = "remove"]
  /\ UNCHANGED <<file, mem, disk, backups, made, agreed, discarded, replaced, stuck, faults, crashes>>

Remove ==
  /\ Installed
  /\ backups' = Backed
  /\ op' = [Idle EXCEPT !.pc = "remove"]
  /\ UNCHANGED <<file, mem, disk, made, agreed, discarded, replaced, stuck, faults, crashes>>

\* The directories go before the record does.
RemoveFiles ==
  /\ op.pc = "remove"
  /\ disk' = [v \in Version |-> 0]
  /\ Write(NoRecord, 0)
  /\ stuck' = {}
  /\ UNCHANGED <<file, mem, backups, made, agreed, discarded, replaced, faults, crashes>>

\* restore_backup replaces the directory, without a backup of what is there.
RestoreBackup(b) ==
  LET v == b.record.cur IN
  /\ op.pc = "idle"
  /\ b \in backups
  /\ disk' = [disk EXCEPT ![v] = 0]
  /\ replaced' = replaced \cup ({disk[v]} \ {0, b.archive})
  /\ op' = [pc |-> "place", version |-> v, archive |-> b.archive, next |-> b.record]
  /\ UNCHANGED <<file, mem, backups, made, agreed, discarded, stuck, faults, crashes>>

PlaceBackup ==
  /\ op.pc = "place"
  /\ disk' = [disk EXCEPT ![op.version] = op.archive]
  /\ op' = [op EXCEPT !.pc = "write"]
  /\ UNCHANGED <<file, mem, backups, made, agreed, discarded, replaced, stuck, faults, crashes>>

DeleteBackup(b) ==
  /\ op.pc = "idle"
  /\ b \in backups
  /\ backups' = backups \ {b}
  /\ discarded' = discarded \cup {b.archive}
  /\ UNCHANGED <<file, mem, disk, op, made, agreed, replaced, stuck, faults, crashes>>

\* Directories that the record of a restored backup does not know.
Forgotten(next) == {v \in Version : disk[v] # 0 /\ next.versions[v].archive = 0}

\* _write_registry, and the record in memory after it.
WriteRegistry ==
  /\ op.pc = "write"
  /\ file' = op.next
  /\ mem' = op.next
  /\ stuck' = (stuck \cup (IF op.archive # 0 THEN Forgotten(op.next) ELSE {})) \ {op.version}
  /\ op' = Idle
  /\ UNCHANGED <<disk, backups, made, agreed, discarded, replaced, faults, crashes>>

\* Mutant of WriteFails: the new directory stays.
WriteFails_Kept ==
  /\ op.pc = "write"
  /\ faults < MaxFaults
  /\ faults' = faults + 1
  /\ op' = Idle
  /\ UNCHANGED <<file, mem, disk, backups, made, agreed, discarded, replaced, stuck, crashes>>

\* The directory that was to be registered is removed again.
WriteFails ==
  /\ op.pc = "write"
  /\ faults < MaxFaults
  /\ faults' = faults + 1
  /\ disk' = IF op.version = 0 THEN disk ELSE [disk EXCEPT ![op.version] = 0]
  /\ op' = Idle
  /\ UNCHANGED <<file, mem, backups, made, agreed, discarded, replaced, stuck, crashes>>

\* The process dies, amid the removal of directories perhaps, and the next
\* one loads the registry.
Restart ==
  /\ crashes < MaxCrashes
  /\ crashes' = crashes + 1
  /\ \E S \in IF op.pc = "remove" THEN SUBSET Version ELSE {{}} :
       disk' = [v \in Version |-> IF v \in S THEN 0 ELSE disk[v]]
  /\ mem' = file
  /\ stuck' = IF op.pc = "write" /\ op.version # 0 THEN stuck \cup {op.version} ELSE stuck
  /\ op' = Idle
  /\ UNCHANGED <<file, backups, made, agreed, discarded, replaced, faults>>

Next ==
  \/ \E v \in Version, p \in Permission : Install(v, p) \/ Update(v, p)
  \/ Enable \/ Disable \/ Touch
  \/ \E v \in Version : RestoreVersion(v)
  \/ Remove \/ RemoveFiles
  \/ \E b \in backups : RestoreBackup(b) \/ DeleteBackup(b)
  \/ PlaceBackup \/ WriteRegistry \/ WriteFails \/ Restart

Spec == Init /\ [][Next]_vars

-----------------------------------------------------------------------------
(* Properties                                                              *)

\* What the record says is installed is in its directory or in a backup,
\* whatever crashes and failed writes cut operations short, unless its
\* backups were deleted or a restore took its directory (_backup_version).
Recoverable ==
  op.pc = "idle" =>
    \A v \in Version :
      LET c == mem.versions[v].archive IN
      \/ c = 0
      \/ disk[v] = c
      \/ \E b \in backups : b.archive = c
      \/ c \in discarded \cup replaced

\* A resource that is enabled, now or after a restart, has the permissions
\* somebody has confirmed (update_archive, restore_version, enable).
ConfirmedPermissions ==
  \A r \in {file, mem} : r.enabled => Current(r).permission = agreed.permission

\* A version that is not registered has no directory, so it can be
\* installed, unless a crash or the restore of a backup left it behind.
NoOrphans ==
  op.pc = "idle" =>
    \A v \in Version : disk[v] # 0 => mem.versions[v].archive # 0 \/ v \in stuck
=============================================================================
