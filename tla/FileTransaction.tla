-------------------------- MODULE FileTransaction ---------------------------
(***************************************************************************)
(* workflow/persistence.py: a group of files is replaced with a journal,   *)
(* staged files and backups, rolled back on an error, and completed by the *)
(* recovery of the next start.  Two kinds of callers use it, each under a  *)
(* lock of its own: the price catalogue (llm/pricing.py) recovers the      *)
(* directory before every write and compares it with its memory; the       *)
(* registries of workflows and rules recover when they load, and publish   *)
(* the new entry to memory before the transaction is committed.            *)
(*                                                                         *)
(* A transaction writes its own number into the files it replaces.  The    *)
(* order of the entries is the caller's, so any order is allowed.          *)
(***************************************************************************)
EXTENDS Integers, FiniteSets

CONSTANTS
  File,           \* the targets of a transaction
  MaxTx,          \* bound: number of transactions
  MaxFaults,      \* bound: operations on files that raise, for each caller
  MaxCrashes      \* bound: crashes of the process

ASSUME TransactionAssumption ==
  /\ MaxTx \in Nat
  /\ MaxFaults \in [{"catalogue", "registry"} -> Nat]
  /\ MaxCrashes \in Nat

VARIABLES
  caller,    \* who writes: the price catalogue or a registry
  files,     \* content of each target
  staged,    \* the staged files of each transaction
  backup,    \* the backup files of each transaction, Absent when there is none
  had,       \* the targets that existed when the transaction was prepared
  journal,   \* state of each transaction's journal file
  image,     \* what each transaction writes; image[0] are the initial files
  mem,       \* the contents the caller has in memory
  pc,        \* what the process is doing
  mode,      \* for whom: a commit, or a recovery at a start, write or refresh
  cur,       \* the transaction at hand
  todo,      \* its entries not yet published, rolled back or cleaned up
  tx,        \* transactions begun
  last,      \* history: the transaction whose commit was last made durable
  torn,      \* history: transactions that lost staged files with their journal there
  faults, crashes

disk == <<files, staged, backup, had, journal>>
bounds == <<faults, crashes>>
vars == <<caller, files, staged, backup, had, journal, image, mem, pc, mode, cur,
          todo, tx, last, torn, faults, crashes>>

Tx == 1..MaxTx
Absent == -1
Content == {Absent} \cup 0..MaxTx
Contents == [File -> Content]
Journals == {t \in Tx : journal[t] # "none"}

JournalState == {"none", "prepared", "committed", "rolling_back"}
Step == {"down", "scan", "ready", "prepare", "discard", "publish", "rollback", "undo",
         "cleanup"}
Mode == {"start", "write", "refresh", "commit"}

Caller == {"catalogue", "registry"}

TypeOK ==
  /\ caller \in Caller
  /\ files \in Contents
  /\ staged \in [Tx -> SUBSET File]
  /\ backup \in [Tx -> Contents]
  /\ had \in [Tx -> SUBSET File]
  /\ journal \in [Tx -> JournalState]
  /\ image \in [0..MaxTx -> Contents]
  /\ mem \in Contents
  /\ pc \in Step
  /\ mode \in Mode
  /\ cur \in 0..MaxTx
  /\ todo \subseteq File
  /\ tx \in 0..MaxTx
  /\ last \in 0..MaxTx
  /\ torn \subseteq Tx
  /\ faults \in 0..MaxFaults[caller]
  /\ crashes \in 0..MaxCrashes

NoBackup == [f \in File |-> Absent]

Init ==
  /\ caller \in Caller
  /\ files \in [File -> {Absent, 0}]
  /\ staged = [t \in Tx |-> {}]
  /\ backup = [t \in Tx |-> NoBackup]
  /\ had = [t \in Tx |-> {}]
  /\ journal = [t \in Tx |-> "none"]
  /\ image = [t \in 0..MaxTx |-> files]
  /\ mem = files
  /\ pc = "down" /\ mode = "start" /\ cur = 0 /\ todo = {}
  /\ tx = 0 /\ last = 0 /\ torn = {} /\ faults = 0 /\ crashes = 0

-----------------------------------------------------------------------------
(* Recovery: recover_directory                                             *)

Start ==
  /\ pc = "down"
  /\ pc' = "scan" /\ mode' = "start"
  /\ UNCHANGED <<disk, image, mem, cur, todo, tx, last, torn, bounds>>

\* refresh() of the price catalogue.
Refresh ==
  /\ pc = "ready"
  /\ caller = "catalogue"
  /\ pc' = "scan" /\ mode' = "refresh"
  /\ UNCHANGED <<disk, image, mem, cur, todo, tx, last, torn, bounds>>

\* Journals are taken in the order of their names, which are random.
Recover(t) ==
  /\ pc = "scan"
  /\ journal[t] # "none"
  /\ cur' = t
  /\ todo' = File
  /\ pc' = CASE journal[t] = "rolling_back" -> "undo"
             [] journal[t] = "committed" -> "cleanup"
             [] journal[t] = "prepared" -> "publish"
  /\ last' = IF journal[t] = "committed" /\ last < t THEN t ELSE last
  /\ UNCHANGED <<disk, image, mem, mode, tx, torn, bounds>>

\* No journal is left: the files are loaded, or compared with the memory
\* before a write, which is refused when they differ.
Recovered ==
  /\ pc = "scan"
  /\ Journals = {}
  /\ mem' = IF mode = "write" THEN mem ELSE files
  /\ pc' = IF mode = "write" /\ mem = files THEN "prepare" ELSE "ready"
  /\ UNCHANGED <<disk, image, mode, cur, todo, tx, last, torn, bounds>>

-----------------------------------------------------------------------------
(* Commit                                                                  *)

\* Mutant: a write does not look for the journals of earlier ones.
Begin_NoRecovery ==
  /\ pc = "ready"
  /\ tx < MaxTx
  /\ pc' = "prepare" /\ mode' = "write"
  /\ UNCHANGED <<disk, image, mem, cur, todo, tx, last, torn, bounds>>

Begin ==
  /\ pc = "ready"
  /\ tx < MaxTx
  /\ pc' = IF caller = "catalogue" THEN "scan" ELSE "prepare"
  /\ mode' = "write"
  /\ UNCHANGED <<disk, image, mem, cur, todo, tx, last, torn, bounds>>

\* The error of a step is raised to the caller, or starts the rollback.
Raise ==
  pc' = CASE mode = "commit" -> "rollback"
          [] mode = "start" -> "down"
          [] mode \in {"write", "refresh"} -> "ready"

Fault ==
  /\ faults < MaxFaults[caller]
  /\ faults' = faults + 1
  /\ UNCHANGED crashes

\* _prepare_entries and the first write of the journal: backups and staged
\* files are there before the journal is.  The write may raise when the journal
\* is in its place and only the directory could not be synchronised; everything
\* is then removed, as after an error before.
Prepare(dels) ==
  LET t == tx + 1 IN
  /\ pc = "prepare"
  /\ tx' = t /\ cur' = t /\ mode' = "commit" /\ todo' = File
  /\ image' = [image EXCEPT ![t] = [f \in File |-> IF f \in dels THEN Absent ELSE t]]
  /\ had' = [had EXCEPT ![t] = {f \in File : files[f] # Absent}]
  /\ staged' = [staged EXCEPT ![t] = File \ dels]
  /\ backup' = [backup EXCEPT ![t] = files]
  /\ journal' = [journal EXCEPT ![t] = "prepared"]
  /\ \/ pc' = "publish" /\ UNCHANGED bounds
     \/ Fault /\ pc' = "discard"
  /\ UNCHANGED <<files, mem, last, torn>>

\* An error before the journal is there: no recovery looks at what is left.
PrepareFails ==
  /\ pc = "prepare"
  /\ Fault
  /\ tx' = tx + 1
  /\ pc' = "ready"
  /\ UNCHANGED <<disk, image, mem, mode, cur, todo, last, torn>>

\* The entry f of the transaction at hand is in its place.
Replace(f) ==
  /\ files' = [files EXCEPT ![f] = IF f \in staged[cur] \/ image[cur][f] = Absent
                                   THEN image[cur][f] ELSE @]
  /\ staged' = [staged EXCEPT ![cur] = @ \ {f}]
  /\ UNCHANGED <<backup, had, journal>>

\* Mutant: an entry that was published before the crash has no staged file.
Publishable_StagedOnly(f) == f \in staged[cur] \/ image[cur][f] = Absent

Publishable(f) ==
  f \in staged[cur] \/ image[cur][f] = Absent \/ files[f] # Absent

\* _publish_entry between two writes of the journal.
Publish(f) ==
  /\ pc = "publish"
  /\ f \in todo
  /\ \/ /\ Publishable(f)
        /\ Replace(f)
        /\ todo' = todo \ {f}
        /\ UNCHANGED <<pc, bounds>>
     \/ /\ ~Publishable(f)
        /\ Raise
        /\ UNCHANGED <<disk, todo, bounds>>
     \/ /\ Fault
        /\ Replace(f) \/ UNCHANGED disk
        /\ Raise
        /\ UNCHANGED todo
  /\ UNCHANGED <<image, mem, mode, cur, tx, last, torn>>

\* A write of the journal that raises may have replaced the file before the
\* directory could be synchronised (_write_journal).
WriteFails(state) == journal' \in {journal, [journal EXCEPT ![cur] = state]}

\* All entries are published.  A registry publishes to memory, then the
\* journal says that the transaction is committed; from there on commit()
\* returns without an error, and the catalogue takes over what it wrote.
Commit ==
  /\ pc = "publish"
  /\ todo = {}
  /\ \/ /\ journal' = [journal EXCEPT ![cur] = "committed"]
        /\ last' = cur
        /\ pc' = "cleanup" /\ todo' = File
        /\ mem' = IF mode = "commit" THEN image[cur] ELSE mem
        /\ UNCHANGED bounds
     \/ /\ Fault
        /\ WriteFails("committed")
        /\ Raise
        /\ mem' = IF mode = "commit" /\ caller = "registry" THEN image[cur] ELSE mem
        /\ UNCHANGED <<todo, last>>
  /\ UNCHANGED <<files, staged, backup, had, image, mode, cur, tx, torn>>

\* Mutant: backups are used up before the journal says so.
Rollback_Unmarked ==
  /\ pc = "rollback"
  /\ pc' = "undo" /\ todo' = File
  /\ UNCHANGED <<disk, image, mem, mode, cur, tx, last, torn, bounds>>

\* The rollback is marked in the journal first.  When that fails, nothing
\* is rolled back here and the error is raised.
Rollback ==
  /\ pc = "rollback"
  /\ \/ /\ journal' = [journal EXCEPT ![cur] = "rolling_back"]
        /\ pc' = "undo" /\ todo' = File
        /\ UNCHANGED bounds
     \/ /\ Fault
        /\ WriteFails("rolling_back")
        /\ pc' = "ready"
        /\ UNCHANGED todo
  /\ UNCHANGED <<files, staged, backup, had, image, mem, mode, cur, tx, last, torn>>

\* An error inside a rollback or a cleanup leaves the journal; only a recovery
\* at the start is not allowed to go on.
GiveUp == pc' = IF mode = "start" THEN "down" ELSE "ready"

Restore(f) ==
  /\ files' = [files EXCEPT ![f] = IF f \notin had[cur] THEN Absent
                                   ELSE IF backup[cur][f] # Absent THEN backup[cur][f]
                                   ELSE @]
  /\ backup' = [backup EXCEPT ![cur][f] = Absent]

\* _rollback_entries for one entry.
Undo(f) ==
  LET lost == f \in had[cur] /\ backup[cur][f] = Absent /\ files[f] = Absent IN
  /\ pc = "undo"
  /\ f \in todo
  /\ \/ /\ ~lost
        /\ Restore(f)
        /\ todo' = todo \ {f}
        /\ UNCHANGED <<pc, bounds>>
     \/ /\ lost
        /\ GiveUp
        /\ UNCHANGED <<files, backup, todo, bounds>>
     \/ /\ Fault
        /\ Restore(f) \/ UNCHANGED <<files, backup>>
        /\ GiveUp
        /\ UNCHANGED todo
  /\ UNCHANGED <<staged, had, journal, image, mem, mode, cur, tx, last, torn>>

\* Everything is rolled back.
Undone ==
  /\ pc = "undo"
  /\ todo = {}
  /\ pc' = "cleanup" /\ todo' = File
  /\ UNCHANGED <<disk, image, mem, mode, cur, tx, last, torn, bounds>>

\* _cleanup_entries for one entry: its staged file, then its backup.
Clean(f) ==
  LET left == [staged EXCEPT ![cur] = @ \ {f}] IN
  /\ pc \in {"cleanup", "discard"}
  /\ f \in todo
  /\ \/ /\ staged' = left
        /\ backup' = [backup EXCEPT ![cur][f] = Absent]
        /\ todo' = todo \ {f}
        /\ UNCHANGED <<pc, bounds>>
     \/ /\ Fault
        /\ staged' \in {staged, left}
        /\ GiveUp
        /\ UNCHANGED <<backup, todo>>
  /\ torn' = IF pc = "discard" /\ staged' # staged THEN torn \cup {cur} ELSE torn
  /\ UNCHANGED <<files, had, journal, image, mem, mode, cur, tx, last>>

\* At last the journal is removed; a write that was discarded is gone.
Close ==
  /\ pc \in {"cleanup", "discard"}
  /\ todo = {}
  /\ \/ /\ journal' = [journal EXCEPT ![cur] = "none"]
        /\ pc' = IF mode = "commit" THEN "ready" ELSE "scan"
        /\ UNCHANGED bounds
     \/ /\ Fault
        /\ WriteFails("none")
        /\ GiveUp
  /\ torn' = IF pc = "discard" /\ journal'[cur] = "none" THEN torn \ {cur} ELSE torn
  /\ UNCHANGED <<files, staged, backup, had, image, mem, mode, cur, todo, tx, last>>

Crash ==
  /\ pc # "down"
  /\ crashes < MaxCrashes
  /\ crashes' = crashes + 1
  /\ pc' = "down"
  /\ UNCHANGED <<disk, image, mem, mode, cur, todo, tx, last, torn, faults>>

-----------------------------------------------------------------------------
Proceed ==
  /\ \/ Start \/ Recovered \/ Commit \/ Rollback \/ Undone \/ Close
     \/ \E t \in Tx : Recover(t)
     \/ \E f \in File : Publish(f) \/ Undo(f) \/ Clean(f)
     \/ \E dels \in SUBSET File : Prepare(dels)
  /\ UNCHANGED caller

Next ==
  \/ Proceed
  \/ (Refresh \/ Begin \/ PrepareFails \/ Crash) /\ UNCHANGED caller

Spec == Init /\ [][Next]_vars

\* The process is started again and does not stop in the middle.
FairSpec == Spec /\ WF_vars(Proceed)

-----------------------------------------------------------------------------
(* Properties                                                              *)

\* What the recovery of the next start makes of the files.
AfterRecovery ==
  LET open == {t \in Tx : journal[t] \in {"prepared", "rolling_back"}}
      t == CHOOSE t \in open : TRUE
  IN CASE open = {} -> files
       [] open # {} /\ journal[t] = "prepared" ->
            [f \in File |-> IF f \in staged[t] \/ image[t][f] = Absent
                            THEN image[t][f] ELSE files[f]]
       [] open # {} /\ journal[t] = "rolling_back" ->
            [f \in File |-> IF f \notin had[t] THEN Absent
                            ELSE IF backup[t][f] # Absent THEN backup[t][f]
                            ELSE files[f]]

\* Whatever moment the process dies at, the recovery of the next start ends
\* with all files of one transaction, and a commit or a rollback whose marker
\* is on disk is not undone (FileTransaction.commit and recover_directory);
\* until a write that is discarded loses its staged files before its journal.
Atomic == INSTANCE AtomicFiles WITH
  Version <- [File -> {Absent, 0}] \cup
             {[f \in File |-> IF f \in d THEN Absent ELSE t] : d \in SUBSET File, t \in Tx},
  value <- AfterRecovery, settled <- image[last], broken <- torn # {}
AllOrNothing == Atomic!Spec

\* Recovery never puts the files of an earlier transaction over those of a
\* later one that was committed (recover_directory).
NothingResurrected == [][last' >= last]_last

\* A start comes to an end once operations on files stop failing, unless it
\* finds the journal of a write whose staged files were discarded
\* (recover_directory).
StartEnds == (pc = "down" /\ torn = {}) ~> pc = "ready"
=============================================================================
