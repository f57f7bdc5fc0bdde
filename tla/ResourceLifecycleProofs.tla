----------------------- MODULE ResourceLifecycleProofs -----------------------
(***************************************************************************)
(* Proofs about ResourceLifecycle, for any number of versions, archives,   *)
(* permissions, failing writes and crashes.                                *)
(***************************************************************************)
EXTENDS ResourceLifecycle, TLAPS

\* A record knows its current version; one of nothing knows none.
Proper(r) ==
  IF r.cur = 0 THEN ~r.enabled /\ \A v \in Version : r.versions[v].archive = 0
               ELSE r.versions[r.cur].archive # 0
ProperInv ==
  /\ file = mem /\ Proper(mem)
  /\ \A b \in backups : Proper(b.record) /\ b.record.cur # 0 /\ ~b.record.enabled
  /\ op.pc = "idle" => op = Idle
  /\ op.pc \in {"place", "write"} => Proper(op.next)
  /\ op.pc = "place" => op.version # 0 /\ op.archive # 0 /\ op.next.cur = op.version
  /\ op.pc \in {"place", "write"} /\ op.version # 0 =>
       op.next.versions[op.version].archive # 0
  /\ op.pc = "remove" => op.version = 0

Base == TypeOK /\ ProperInv

\* What an operation is about to register is as agreed, too.
Agreed(r) == r.enabled => Current(r).permission = agreed.permission
PermissionInv ==
  /\ Agreed(mem)
  /\ op.pc \in {"place", "write"} => Agreed(op.next)

\* Directories that a record explains.
Explained(r, v) == disk[v] # 0 => r.versions[v].archive # 0 \/ v \in stuck
OrphanInv ==
  /\ \A v \in Version : (op.pc = "write" /\ v = op.version) \/ Explained(mem, v)
  /\ op.pc = "write" /\ op.archive = 0 =>
       \A v \in Version : v = op.version \/ Explained(op.next, v)

\* What can be had again without the directory of the version; and a record
\* of which only the current version needs its directory.
Covered(c) == c = 0 \/ (\E b \in backups : b.archive = c) \/ c \in discarded \cup replaced
AllCovered(r) == \A v \in Version : Covered(r.versions[v].archive)
Held(r) ==
  \A v \in Version :
    \/ Covered(r.versions[v].archive)
    \/ v = r.cur /\ disk[v] = r.versions[v].archive
CoverInv ==
  /\ Held(mem)
  /\ \A b \in backups : AllCovered(b.record)
  /\ op.pc = "remove" => AllCovered(mem)
  /\ op.pc = "place" => AllCovered(op.next)
  /\ op.pc = "write" => Held(op.next)
  /\ op.pc \in {"place", "write"} /\ op.version # 0 =>
       mem.cur # op.version \/ Covered(mem.versions[op.version].archive)

-----------------------------------------------------------------------------
(* Records                                                                 *)

LEMMA NoRecordType ==
  /\ Nothing \in Manifest /\ Nothing.archive = 0
  /\ NoRecord \in Record /\ NoRecord.cur = 0 /\ NoRecord.enabled = FALSE
  /\ \A v \in Version : NoRecord.versions[v] = Nothing
  /\ Proper(NoRecord)
  /\ Idle \in Op /\ Idle.pc = "idle" /\ Idle.version = 0 /\ Idle.archive = 0
<1>1. (CHOOSE p \in Permission : TRUE) \in Permission
  BY LifecycleAssumption
<1>2. 0 \in 0..MaxArchives /\ 0 \in 0..MaxVersion
  BY LifecycleAssumption
<1>3. Nothing \in Manifest /\ Nothing.archive = 0
  BY <1>1, <1>2 DEF Nothing, Manifest
<1>4. /\ NoRecord \in Record /\ NoRecord.cur = 0 /\ NoRecord.enabled = FALSE
      /\ \A v \in Version : NoRecord.versions[v] = Nothing
  BY <1>2, <1>3 DEF NoRecord, Record
<1>5. Proper(NoRecord)
  BY <1>3, <1>4 DEF Proper
<1>6. Idle \in Op /\ Idle.pc = "idle" /\ Idle.version = 0 /\ Idle.archive = 0
  BY <1>2, <1>4 DEF Idle, Op
<1> QED BY <1>3, <1>4, <1>5, <1>6

LEMMA DisabledEffect ==
  ASSUME NEW r \in Record, NEW s, s = Disabled(r)
  PROVE  s \in Record /\ s.cur = r.cur /\ s.versions = r.versions /\ s.enabled = FALSE
<1>1. s = [r EXCEPT !.enabled = FALSE, !.confirmation = TRUE]
  BY Zenon DEF Disabled
<1>2. TRUE \in BOOLEAN /\ FALSE \in BOOLEAN
  OBVIOUS
<1> QED BY <1>1, <1>2, Zenon DEF Record

\* The same record with another current version, disabled.
LEMMA RestoredEffect ==
  ASSUME NEW r \in Record, NEW v \in Version, NEW s, s = [Disabled(r) EXCEPT !.cur = v]
  PROVE  s \in Record /\ s.cur = v /\ s.versions = r.versions /\ s.enabled = FALSE
<1> DEFINE d == Disabled(r)
<1>1. d \in Record /\ d.versions = r.versions /\ d.enabled = FALSE
  BY DisabledEffect
<1>2. s = [d EXCEPT !.cur = v] /\ v \in 0..MaxVersion
  BY LifecycleAssumption DEF Version
<1> HIDE DEF d
<1>3. s \in Record /\ s.cur = v /\ s.versions = d.versions /\ s.enabled = d.enabled
  BY <1>1, <1>2, Zenon DEF Record
<1> QED BY <1>1, <1>3

\* Backups only grow when the current version is kept.
LEMMA BackedEffect ==
  ASSUME Base, Installed
  PROVE  /\ mem.cur \in Version /\ mem \in Record
         /\ backups \subseteq Backed
         /\ \A b \in Backed : \/ b \in backups
                              \/ /\ b.record \in Record /\ b.record.cur = mem.cur
                                 /\ b.record.versions = mem.versions
                                 /\ b.record.enabled = FALSE /\ b.archive = disk[mem.cur]
                                 /\ b \in Backup
         /\ disk[mem.cur] # 0 => \E b \in Backed : b.archive = disk[mem.cur]
<1>1. mem \in Record /\ mem.cur # 0 /\ disk \in [Version -> 0..MaxArchives]
  BY DEF Base, TypeOK, Installed
<1>2. mem.cur \in Version
  BY <1>1, LifecycleAssumption DEF Record, Version
<1>3. CASE disk[mem.cur] = 0
  BY <1>1, <1>2, <1>3 DEF Backed
<1>4. CASE disk[mem.cur] # 0
  <2> DEFINE b == [record |-> Disabled(mem), archive |-> disk[mem.cur]]
  <2>1. /\ b.record \in Record /\ b.record.cur = mem.cur /\ b.record.versions = mem.versions
        /\ b.record.enabled = FALSE
    BY <1>1, DisabledEffect
  <2>2. b.archive = disk[mem.cur]
    OBVIOUS
  <2>3. b \in Backup
    BY <1>1, <1>2, <1>4, <2>1, LifecycleAssumption DEF Backup, Archive
  <2>4. Backed = backups \cup {b}
    BY <1>4 DEF Backed
  <2> HIDE DEF b
  <2> QED BY <1>1, <1>2, <2>1, <2>2, <2>3, <2>4
<1> QED BY <1>3, <1>4


-----------------------------------------------------------------------------
(* Operations                                                              *)

Inv == Base /\ PermissionInv /\ OrphanInv /\ CoverInv

\* The next step writes the record next.
Begins(next, v) ==
  /\ op.pc = "idle" /\ op'.pc = "write" /\ op'.next = next
  /\ op'.version = v /\ op'.archive = 0 /\ op' \in Op
  /\ mem' = mem /\ file' = file

LEMMA WriteEffect ==
  ASSUME NEW next \in Record, NEW v \in 0..MaxVersion, Write(next, v),
         op.pc = "idle", UNCHANGED <<mem, file>>
  PROVE  Begins(next, v)
<1>1. op' = [pc |-> "write", next |-> next, version |-> v, archive |-> 0]
  BY DEF Write
<1>2. 0 \in 0..MaxArchives
  BY LifecycleAssumption
<1> QED BY <1>1, <1>2 DEF Begins, Op

\* Enable, disable and the operations that change other fields.
LEMMA SameVersions ==
  ASSUME Base, Enable \/ Disable \/ Touch
  PROVE  /\ mem.cur # 0 /\ mem.cur \in Version
         /\ \E next \in Record :
              /\ Begins(next, 0) /\ next.cur = mem.cur /\ next.versions = mem.versions
              /\ next.enabled => mem.enabled \/ agreed' = Current(mem)
         /\ agreed' \in {agreed, Current(mem)}
         /\ UNCHANGED <<disk, backups, made, discarded, replaced, stuck, faults, crashes>>
<1>1. Installed /\ mem \in Record /\ 0 \in 0..MaxVersion /\ op.pc = "idle" /\ mem.cur # 0
  BY LifecycleAssumption DEF Base, TypeOK, Enable, Disable, Touch, Installed
<1>2. mem.cur \in Version
  BY <1>1, LifecycleAssumption DEF Record, Version
<1>3. CASE Enable
  <2> DEFINE r == [mem EXCEPT !.enabled = TRUE, !.confirmation = FALSE]
  <2>1. r \in Record /\ r.cur = mem.cur /\ r.versions = mem.versions
    BY <1>1, Zenon DEF Record
  <2>2. Write(r, 0) /\ agreed' = Current(mem)
    BY <1>3, Zenon DEF Enable
  <2> HIDE DEF r
  <2>3. Begins(r, 0)
    BY <1>1, <1>3, <2>1, <2>2, WriteEffect DEF Enable
  <2> QED BY <1>1, <1>2, <1>3, <2>1, <2>2, <2>3 DEF Enable
<1>4. CASE Disable
  <2> DEFINE r == [mem EXCEPT !.enabled = FALSE]
  <2>1. r \in Record /\ r.cur = mem.cur /\ r.versions = mem.versions /\ r.enabled = FALSE
    BY <1>1, Zenon DEF Record
  <2>2. Write(r, 0)
    BY <1>4, Zenon DEF Disable
  <2> HIDE DEF r
  <2>3. Begins(r, 0)
    BY <1>1, <1>4, <2>1, <2>2, WriteEffect DEF Disable
  <2> QED BY <1>1, <1>2, <1>4, <2>1, <2>2, <2>3 DEF Disable
<1>5. CASE Touch
  <2>1. Begins(mem, 0)
    BY <1>1, <1>5, WriteEffect DEF Touch
  <2> QED BY <1>1, <1>2, <1>5, <2>1 DEF Touch
<1> QED BY <1>3, <1>4, <1>5

LEMMA SameStep ==
  ASSUME Inv, Enable \/ Disable \/ Touch
  PROVE  Inv'
<1>1. PICK next \in Record :
        /\ Begins(next, 0) /\ next.cur = mem.cur /\ next.versions = mem.versions
        /\ next.enabled => mem.enabled \/ agreed' = Current(mem)
  BY SameVersions DEF Inv
<1>2. /\ mem.cur # 0 /\ mem.cur \in Version /\ agreed' \in {agreed, Current(mem)}
      /\ UNCHANGED <<disk, backups, made, discarded, replaced, stuck, faults, crashes>>
  BY SameVersions DEF Inv
<1>3. mem' = mem /\ file' = file /\ op'.next = next /\ op'.pc = "write" /\ op'.version = 0
      /\ op'.archive = 0 /\ op' \in Op /\ op.pc = "idle"
  BY <1>1 DEF Begins
<1>4. Current(next) = Current(mem)
  BY <1>1 DEF Current
<1>5. TypeOK'
  <2>1. agreed' \in Manifest
    BY <1>2 DEF Inv, Base, TypeOK, Current, Record
  <2> QED BY <1>2, <1>3, <2>1 DEF Inv, Base, TypeOK
<1>6. ProperInv'
  <2>1. Proper(next)
    BY <1>1, <1>2 DEF Inv, Base, ProperInv, Proper
  <2>2. /\ file' = mem' /\ Proper(mem')
        /\ \A b \in backups' : Proper(b.record) /\ b.record.cur # 0 /\ ~b.record.enabled
    BY <1>2, <1>3 DEF Inv, Base, ProperInv
  <2> QED BY <1>3, <2>1, <2>2 DEF ProperInv, Proper
<1>7. PermissionInv'
  <2>1. mem.enabled => Current(mem).permission = agreed'.permission
    BY <1>2 DEF Inv, PermissionInv, Agreed
  <2>2. next.enabled => Current(next).permission = agreed'.permission
    BY <1>1, <1>4, <2>1
  <2> QED BY <1>3, <2>1, <2>2 DEF PermissionInv, Agreed, Current
<1>8. OrphanInv'
  <2>1. \A v \in Version : Explained(mem, v)
    BY <1>3 DEF Inv, OrphanInv
  <2>2. \A v \in Version : Explained(mem, v)' /\ Explained(next, v)'
    BY <1>1, <1>2, <1>3, <2>1 DEF Explained
  <2> QED BY <1>3, <2>2 DEF OrphanInv, Explained
<1>9. CoverInv'
  <2>1. Held(mem) /\ Held(next) /\ \A b \in backups : AllCovered(b.record)
    BY <1>1 DEF Inv, CoverInv, Held
  <2> QED BY <1>2, <1>3, <2>1 DEF CoverInv, Held, AllCovered, Covered
<1> QED BY <1>5, <1>6, <1>7, <1>8, <1>9 DEF Inv, Base


\* What is covered after a step.
CoveredNext(c) == c = 0 \/ (\E b \in backups' : b.archive = c) \/ c \in discarded' \cup replaced'

HeldNext(r) ==
  \A v \in Version :
    \/ CoveredNext(r.versions[v].archive)
    \/ v = r.cur /\ disk'[v] = r.versions[v].archive

LEMMA CoverNext ==
  ASSUME HeldNext(mem'),
         \A b \in backups' : \A v \in Version : CoveredNext(b.record.versions[v].archive),
         op'.pc = "remove" => \A v \in Version : CoveredNext(mem'.versions[v].archive),
         op'.pc = "place" => \A v \in Version : CoveredNext(op'.next.versions[v].archive),
         op'.pc = "write" => HeldNext(op'.next),
         op'.pc \in {"place", "write"} /\ op'.version # 0 =>
           mem'.cur # op'.version \/ CoveredNext(mem'.versions[op'.version].archive)
  PROVE  CoverInv'
<1>1. Held(mem)'
  BY DEF Held, Covered, HeldNext, CoveredNext
<1>2. \A b \in backups' : \A v \in Version : Covered(b.record.versions[v].archive)'
  BY DEF Covered, CoveredNext
<1>3. (\A b \in backups : AllCovered(b.record))'
  BY <1>2 DEF AllCovered, Covered
<1>4. (op.pc = "remove" => AllCovered(mem))'
  BY DEF AllCovered, Covered, CoveredNext
<1>5. (op.pc = "place" => AllCovered(op.next))'
  BY DEF AllCovered, Covered, CoveredNext
<1>6. (op.pc = "write" => Held(op.next))'
  BY DEF Held, Covered, HeldNext, CoveredNext
<1>7. (op.pc \in {"place", "write"} /\ op.version # 0 =>
         mem.cur # op.version \/ Covered(mem.versions[op.version].archive))'
  BY DEF Covered, CoveredNext
<1> QED BY <1>1, <1>3, <1>4, <1>5, <1>6, <1>7 DEF CoverInv

\* Nothing that was covered is lost as long as the histories and backups stay.
LEMMA CoverStays ==
  ASSUME backups' = backups, discarded' = discarded, replaced \subseteq replaced'
  PROVE  \A c : Covered(c) => CoveredNext(c)
BY DEF Covered, CoveredNext

\* After a backup, every version the record knows is covered.
LEMMA BackedCover ==
  ASSUME Inv, Installed, backups' = Backed, discarded' = discarded, replaced' = replaced
  PROVE  /\ \A c : Covered(c) => CoveredNext(c)
         /\ \A v \in Version : CoveredNext(mem.versions[v].archive)
         /\ \A b \in backups' : \A v \in Version : CoveredNext(b.record.versions[v].archive)
         /\ \A b \in backups' : /\ b \in Backup /\ Proper(b.record) /\ b.record.cur # 0
                                /\ ~b.record.enabled
<1>1. /\ mem.cur \in Version /\ mem \in Record /\ backups \subseteq Backed
      /\ \A b \in Backed : \/ b \in backups
                           \/ /\ b.record \in Record /\ b.record.cur = mem.cur
                              /\ b.record.versions = mem.versions
                              /\ b.record.enabled = FALSE /\ b.archive = disk[mem.cur]
                              /\ b \in Backup
      /\ disk[mem.cur] # 0 => \E b \in Backed : b.archive = disk[mem.cur]
  BY BackedEffect DEF Inv
<1>2. \A c : Covered(c) => CoveredNext(c)
  BY <1>1 DEF Covered, CoveredNext
<1>3. ASSUME NEW v \in Version PROVE CoveredNext(mem.versions[v].archive)
  <2>1. Covered(mem.versions[v].archive) \/ (v = mem.cur /\ disk[v] = mem.versions[v].archive)
    BY DEF Inv, CoverInv, Held
  <2>2. CASE Covered(mem.versions[v].archive)
    BY <1>2, <2>2
  <2>3. CASE v = mem.cur /\ disk[v] = mem.versions[v].archive
    <3>1. CASE disk[v] = 0
      BY <2>3, <3>1 DEF CoveredNext
    <3>2. CASE disk[v] # 0
      <4>1. \E b \in backups' : b.archive = mem.versions[v].archive
        BY <1>1, <2>3, <3>2
      <4> QED BY <4>1 DEF CoveredNext
    <3> QED BY <3>1, <3>2
  <2> QED BY <2>1, <2>2, <2>3
<1>4. ASSUME NEW b \in backups', NEW v \in Version
      PROVE  CoveredNext(b.record.versions[v].archive)
  <2>1. CASE b \in backups
    BY <1>2, <2>1 DEF Inv, CoverInv, AllCovered
  <2>2. CASE b.record.versions = mem.versions
    BY <1>3, <2>2
  <2> QED BY <1>1, <2>1, <2>2
<1>5. ASSUME NEW b \in backups'
      PROVE  b \in Backup /\ Proper(b.record) /\ b.record.cur # 0 /\ ~b.record.enabled
  <2>1. CASE b \in backups
    BY <2>1 DEF Inv, Base, TypeOK, ProperInv
  <2>2. CASE /\ b.record \in Record /\ b.record.cur = mem.cur
             /\ b.record.versions = mem.versions
             /\ b.record.enabled = FALSE /\ b \in Backup
    <3>1. mem.cur # 0 /\ mem.versions[mem.cur].archive # 0
      BY DEF Inv, Base, ProperInv, Proper, Installed
    <3> QED BY <2>2, <3>1 DEF Proper
  <2> QED BY <1>1, <2>1, <2>2
<1> QED BY <1>2, <1>3, <1>4, <1>5

LEMMA RestoreVersionStep ==
  ASSUME Inv, NEW v \in Version, RestoreVersion(v)
  PROVE  Inv'
<1>1. /\ Installed /\ mem.versions[v].archive # 0 /\ backups' = Backed
      /\ disk' = disk /\ made' = made /\ agreed' = agreed /\ discarded' = discarded
      /\ replaced' = replaced /\ stuck' = stuck /\ faults' = faults /\ crashes' = crashes
      /\ mem' = mem /\ file' = file /\ op.pc = "idle"
  BY DEF RestoreVersion, Installed
<1> DEFINE next == [Disabled(mem) EXCEPT !.cur = v]
<1>2. next \in Record /\ next.cur = v /\ next.versions = mem.versions /\ next.enabled = FALSE
  <2>1. mem \in Record
    BY DEF Inv, Base, TypeOK
  <2>2. \A s : s = [Disabled(mem) EXCEPT !.cur = v] =>
          s \in Record /\ s.cur = v /\ s.versions = mem.versions /\ s.enabled = FALSE
    BY <2>1, RestoredEffect
  <2> QED BY <2>2, Zenon
<1>3. Write(next, 0)
  BY DEF RestoreVersion
<1> HIDE DEF next
<1>4. /\ op'.next = next /\ op'.pc = "write" /\ op'.version = 0 /\ op'.archive = 0 /\ op' \in Op
  BY <1>1, <1>2, <1>3, WriteEffect, LifecycleAssumption DEF Begins
<1>5. /\ \A c : Covered(c) => CoveredNext(c)
      /\ \A u \in Version : CoveredNext(mem.versions[u].archive)
      /\ \A b \in backups' : \A u \in Version : CoveredNext(b.record.versions[u].archive)
      /\ \A b \in backups' : /\ b \in Backup /\ Proper(b.record) /\ b.record.cur # 0
                             /\ ~b.record.enabled
  BY <1>1, BackedCover
<1>6. TypeOK'
  BY <1>1, <1>4, <1>5 DEF Inv, Base, TypeOK
<1>7. ProperInv'
  <2>1. Proper(next)
    BY <1>1, <1>2, LifecycleAssumption DEF Proper, Version
  <2>2. file' = mem' /\ Proper(mem')
    BY <1>1 DEF Inv, Base, ProperInv
  <2> QED BY <1>4, <1>5, <2>1, <2>2 DEF ProperInv, Proper
<1>8. PermissionInv'
  BY <1>1, <1>2, <1>4 DEF Inv, PermissionInv, Agreed, Current
<1>9. OrphanInv'
  <2>1. \A u \in Version : Explained(mem, u)
    BY <1>1 DEF Inv, OrphanInv
  <2> QED BY <1>1, <1>2, <1>4, <2>1 DEF OrphanInv, Explained
<1>10. CoverInv'
  <2>1. HeldNext(mem') /\ HeldNext(next)
    BY <1>1, <1>2, <1>5 DEF HeldNext
  <2> QED BY <1>4, <1>5, <2>1, CoverNext
<1> QED BY <1>6, <1>7, <1>8, <1>9, <1>10 DEF Inv, Base

LEMMA InstallStep ==
  ASSUME Inv, NEW v \in Version, NEW p \in Permission, Install(v, p)
  PROVE  Inv'
<1> DEFINE m == [archive |-> made + 1, permission |-> p]
           vs == [NoRecord.versions EXCEPT ![v] = m]
           next == [cur |-> v, versions |-> vs, enabled |-> FALSE, confirmation |-> TRUE]
<1>1. /\ op.pc = "idle" /\ mem.cur = 0 /\ disk[v] = 0
      /\ made < MaxArchives /\ made' = made + 1
      /\ backups' = backups /\ agreed' = agreed /\ discarded' = discarded
      /\ replaced' = replaced /\ stuck' = stuck /\ faults' = faults /\ crashes' = crashes
      /\ mem' = mem /\ file' = file
  BY DEF Install, Upload
<1>2. disk' = [disk EXCEPT ![v] = made + 1] /\ Write(next, v)
  BY DEF Install
<1>3. made + 1 \in 1..MaxArchives /\ made \in Nat /\ v \in 0..MaxVersion /\ v # 0
  BY <1>1, LifecycleAssumption DEF Inv, Base, TypeOK, Version
<1>4. m \in Manifest /\ m.archive # 0 /\ m.archive = made + 1
  BY <1>3 DEF Manifest
<1> HIDE DEF m
<1>5. /\ vs \in [Version -> Manifest] /\ vs[v] = m
      /\ \A u \in Version : u # v => vs[u].archive = 0
  BY <1>4, NoRecordType DEF Record
<1> HIDE DEF vs
<1>6. next \in Record /\ next.cur = v /\ next.versions = vs /\ next.enabled = FALSE
  BY <1>3, <1>5 DEF Record
<1> HIDE DEF next
<1>7. op'.next = next /\ op'.pc = "write" /\ op'.version = v /\ op'.archive = 0 /\ op' \in Op
  BY <1>1, <1>2, <1>3, <1>6, WriteEffect DEF Begins
<1>8. /\ disk' \in [Version -> 0..MaxArchives] /\ disk'[v] = made + 1
      /\ \A u \in Version : u # v => disk'[u] = disk[u]
  BY <1>2, <1>3 DEF Inv, Base, TypeOK
<1>9. \A u \in Version : mem.versions[u].archive = 0
  BY <1>1 DEF Inv, Base, ProperInv, Proper
<1>10. TypeOK'
  BY <1>1, <1>3, <1>7, <1>8 DEF Inv, Base, TypeOK
<1>11. ProperInv'
  <2>1. Proper(next)
    BY <1>3, <1>4, <1>5, <1>6 DEF Proper
  <2>2. /\ file' = mem' /\ Proper(mem')
        /\ \A b \in backups' : Proper(b.record) /\ b.record.cur # 0 /\ ~b.record.enabled
    BY <1>1 DEF Inv, Base, ProperInv
  <2>3. next.versions[v].archive # 0
    BY <1>4, <1>5, <1>6
  <2> QED BY <1>7, <2>1, <2>2, <2>3 DEF ProperInv, Proper
<1>12. PermissionInv'
  BY <1>1, <1>6, <1>7 DEF Inv, PermissionInv, Agreed, Current
<1>13. OrphanInv'
  <2>1. \A u \in Version : u # v /\ disk'[u] # 0 => u \in stuck
    BY <1>1, <1>8, <1>9 DEF Inv, OrphanInv, Explained
  <2> QED BY <1>1, <1>7, <2>1 DEF OrphanInv, Explained
<1>14. CoverInv'
  <2>1. HeldNext(mem') /\ \A u \in Version : CoveredNext(mem'.versions[u].archive)
    BY <1>1, <1>9 DEF HeldNext, CoveredNext
  <2>2. \A b \in backups' : \A u \in Version : CoveredNext(b.record.versions[u].archive)
    BY <1>1, CoverStays DEF Inv, CoverInv, AllCovered
  <2>3. ASSUME NEW u \in Version
        PROVE  \/ CoveredNext(next.versions[u].archive)
               \/ u = next.cur /\ disk'[u] = next.versions[u].archive
    <3>1. CASE u = v
      BY <1>4, <1>5, <1>6, <1>8, <3>1
    <3>2. CASE u # v
      BY <1>5, <1>6, <3>2 DEF CoveredNext
    <3> QED BY <3>1, <3>2
  <2>4. HeldNext(next)
    BY <2>3 DEF HeldNext
  <2>5. mem'.cur # v
    BY <1>1, <1>3
  <2> QED BY <1>7, <2>1, <2>2, <2>4, <2>5, CoverNext
<1> QED BY <1>10, <1>11, <1>12, <1>13, <1>14 DEF Inv, Base


\* An update makes the backup whether or not it finds the directory free.
LEMMA UpdateStep ==
  ASSUME Inv, NEW v \in Version, NEW p \in Permission, Update(v, p)
  PROVE  Inv'
<1> DEFINE m == [archive |-> made + 1, permission |-> p]
           same == p = Current(mem).permission
           next == [mem EXCEPT !.cur = v, !.versions[v] = m,
                               !.enabled = @ /\ same, !.confirmation = @ \/ ~same]
<1>1. /\ Installed /\ mem.cur # 0 /\ op.pc = "idle" /\ v > mem.cur
      /\ mem.versions[v].archive = 0
      /\ made < MaxArchives /\ made' = made + 1 /\ backups' = Backed
      /\ agreed' = agreed /\ discarded' = discarded
      /\ replaced' = replaced /\ stuck' = stuck /\ faults' = faults /\ crashes' = crashes
      /\ mem' = mem /\ file' = file
  BY DEF Update, Upload, Installed
<1>2. \/ disk[v] # 0 /\ disk' = disk /\ op' = op
      \/ disk[v] = 0 /\ disk' = [disk EXCEPT ![v] = made + 1] /\ Write(next, v)
  BY DEF Update
<1>3. /\ made + 1 \in 1..MaxArchives /\ made \in Nat /\ v \in 0..MaxVersion /\ v # 0
      /\ mem \in Record /\ disk \in [Version -> 0..MaxArchives] /\ v # mem.cur
  BY <1>1, LifecycleAssumption DEF Inv, Base, TypeOK, Version, Record
<1>4. mem.cur \in Version
  BY <1>1, <1>3, LifecycleAssumption DEF Record, Version
<1>5. m \in Manifest /\ m.archive # 0 /\ m.archive = made + 1 /\ m.permission = p
  BY <1>3 DEF Manifest
<1>6. same \in BOOLEAN /\ (same => p = mem.versions[mem.cur].permission)
  BY DEF Current
<1> HIDE DEF m, same
<1>7. /\ next \in Record /\ next.cur = v /\ next.versions[v] = m
      /\ \A u \in Version : u # v => next.versions[u] = mem.versions[u]
      /\ next.enabled => mem.enabled /\ same
  <2> DEFINE vs == [mem.versions EXCEPT ![v] = m]
             en == mem.enabled /\ same
             co == mem.confirmation \/ ~same
  <2>1. next = [mem EXCEPT !.cur = v, !.versions = vs, !.enabled = en, !.confirmation = co]
    BY Zenon DEF Record
  <2> HIDE DEF next
  <2>2. mem.versions \in [Version -> Manifest]
    BY <1>3 DEF Record
  <2>3. /\ vs \in [Version -> Manifest] /\ vs[v] = m
        /\ \A u \in Version : u # v => vs[u] = mem.versions[u]
    BY <1>5, <2>2
  <2>4. en \in BOOLEAN /\ co \in BOOLEAN /\ (en => mem.enabled /\ same)
    BY Zenon
  <2> HIDE DEF vs, en, co
  <2>5. next \in Record /\ next.cur = v /\ next.versions = vs /\ next.enabled = en
    BY <1>3, <2>1, <2>3, <2>4, Zenon DEF Record
  <2> QED BY <2>3, <2>4, <2>5
<1> HIDE DEF next
<1>8. /\ \A c : Covered(c) => CoveredNext(c)
      /\ \A u \in Version : CoveredNext(mem.versions[u].archive)
      /\ \A b \in backups' : \A u \in Version : CoveredNext(b.record.versions[u].archive)
      /\ \A b \in backups' : /\ b \in Backup /\ Proper(b.record) /\ b.record.cur # 0
                             /\ ~b.record.enabled
  BY <1>1, BackedCover
<1>9. HeldNext(mem')
  BY <1>1, <1>8 DEF HeldNext
<1>10. CASE disk[v] # 0 /\ disk' = disk /\ op' = op
  <2>1. TypeOK'
    BY <1>1, <1>3, <1>8, <1>10 DEF Inv, Base, TypeOK
  <2>2. ProperInv'
    BY <1>1, <1>8, <1>10 DEF Inv, Base, ProperInv, Proper
  <2>3. PermissionInv'
    BY <1>1, <1>10 DEF Inv, PermissionInv, Agreed, Current
  <2>4. OrphanInv'
    BY <1>1, <1>10 DEF Inv, OrphanInv, Explained
  <2>5. CoverInv'
    BY <1>1, <1>8, <1>9, <1>10, CoverNext
  <2> QED BY <2>1, <2>2, <2>3, <2>4, <2>5 DEF Inv, Base
<1>11. CASE disk[v] = 0 /\ disk' = [disk EXCEPT ![v] = made + 1] /\ Write(next, v)
  <2>1. op'.next = next /\ op'.pc = "write" /\ op'.version = v /\ op'.archive = 0 /\ op' \in Op
    BY <1>1, <1>3, <1>7, <1>11, WriteEffect DEF Begins
  <2>2. /\ disk' \in [Version -> 0..MaxArchives] /\ disk'[v] = made + 1
        /\ \A u \in Version : u # v => disk'[u] = disk[u]
    BY <1>3, <1>11
  <2>3. TypeOK'
    BY <1>1, <1>3, <1>8, <2>1, <2>2 DEF Inv, Base, TypeOK
  <2>4. ProperInv'
    <3>1. Proper(next) /\ next.versions[v].archive # 0
      BY <1>3, <1>5, <1>7 DEF Proper
    <3>2. file' = mem' /\ Proper(mem')
      BY <1>1 DEF Inv, Base, ProperInv
    <3> QED BY <1>8, <2>1, <3>1, <3>2 DEF ProperInv, Proper
  <2>5. PermissionInv'
    <3>1. mem.enabled => mem.versions[mem.cur].permission = agreed.permission
      BY DEF Inv, PermissionInv, Agreed, Current
    <3>2. next.enabled => next.versions[next.cur].permission = agreed.permission
      BY <1>5, <1>6, <1>7, <3>1
    <3> QED BY <1>1, <2>1, <3>1, <3>2 DEF PermissionInv, Agreed, Current
  <2>6. OrphanInv'
    <3>1. \A u \in Version : u # v =>
            (disk'[u] # 0 => mem.versions[u].archive # 0 \/ u \in stuck)
      BY <1>1, <2>2 DEF Inv, OrphanInv, Explained
    <3>2. \A u \in Version : u # v =>
            (disk'[u] # 0 => next.versions[u].archive # 0 \/ u \in stuck)
      BY <1>7, <3>1
    <3> QED BY <1>1, <2>1, <3>1, <3>2 DEF OrphanInv, Explained
  <2>7. CoverInv'
    <3>1. ASSUME NEW u \in Version
          PROVE  \/ CoveredNext(next.versions[u].archive)
                 \/ u = next.cur /\ disk'[u] = next.versions[u].archive
      <4>1. CASE u = v
        BY <1>5, <1>7, <2>2, <4>1
      <4>2. CASE u # v
        BY <1>7, <1>8, <4>2
      <4> QED BY <4>1, <4>2
    <3>2. HeldNext(next)
      BY <3>1 DEF HeldNext
    <3>3. mem'.cur # v
      BY <1>1, <1>3
    <3> QED BY <1>8, <1>9, <2>1, <3>2, <3>3, CoverNext
  <2> QED BY <2>3, <2>4, <2>5, <2>6, <2>7 DEF Inv, Base
<1> QED BY <1>2, <1>10, <1>11

LEMMA RemoveStep ==
  ASSUME Inv, Remove
  PROVE  Inv'
<1>1. /\ Installed /\ backups' = Backed /\ op.pc = "idle" /\ op' = [Idle EXCEPT !.pc = "remove"]
      /\ disk' = disk /\ made' = made /\ agreed' = agreed /\ discarded' = discarded
      /\ replaced' = replaced /\ stuck' = stuck /\ faults' = faults /\ crashes' = crashes
      /\ mem' = mem /\ file' = file
  BY DEF Remove, Installed
<1>2. op' \in Op /\ op'.pc = "remove" /\ op'.version = 0
  <2>1. "remove" \in {"idle", "remove", "place", "write"}
    OBVIOUS
  <2> QED BY <1>1, <2>1, NoRecordType, Zenon DEF Op
<1>3. /\ \A c : Covered(c) => CoveredNext(c)
      /\ \A u \in Version : CoveredNext(mem.versions[u].archive)
      /\ \A b \in backups' : \A u \in Version : CoveredNext(b.record.versions[u].archive)
      /\ \A b \in backups' : /\ b \in Backup /\ Proper(b.record) /\ b.record.cur # 0
                             /\ ~b.record.enabled
  BY <1>1, BackedCover
<1>4. TypeOK'
  BY <1>1, <1>2, <1>3 DEF Inv, Base, TypeOK
<1>5. ProperInv'
  BY <1>1, <1>2, <1>3 DEF Inv, Base, ProperInv, Proper
<1>6. PermissionInv'
  BY <1>1, <1>2 DEF Inv, PermissionInv, Agreed, Current
<1>7. OrphanInv'
  BY <1>1, <1>2 DEF Inv, OrphanInv, Explained
<1>8. CoverInv'
  <2>1. HeldNext(mem')
    BY <1>1, <1>3 DEF HeldNext
  <2> QED BY <1>1, <1>2, <1>3, <2>1, CoverNext
<1> QED BY <1>4, <1>5, <1>6, <1>7, <1>8 DEF Inv, Base

LEMMA RemoveFilesStep ==
  ASSUME Inv, RemoveFiles
  PROVE  Inv'
<1>1. /\ op.pc = "remove" /\ disk' = [v \in Version |-> 0] /\ Write(NoRecord, 0) /\ stuck' = {}
      /\ backups' = backups /\ made' = made /\ agreed' = agreed /\ discarded' = discarded
      /\ replaced' = replaced /\ faults' = faults /\ crashes' = crashes
      /\ mem' = mem /\ file' = file
  BY DEF RemoveFiles
<1>2. 0 \in 0..MaxVersion /\ 0 \in 0..MaxArchives
  BY LifecycleAssumption
<1>3. /\ op' \in Op /\ op'.pc = "write" /\ op'.next = NoRecord /\ op'.version = 0
      /\ op'.archive = 0
  BY <1>1, <1>2, NoRecordType DEF Write, Op
<1>4. /\ disk' \in [Version -> 0..MaxArchives] /\ \A v \in Version : disk'[v] = 0
  BY <1>1, <1>2
<1>5. TypeOK'
  BY <1>1, <1>3, <1>4 DEF Inv, Base, TypeOK
<1>6. ProperInv'
  BY <1>1, <1>3, NoRecordType DEF Inv, Base, ProperInv, Proper
<1>7. PermissionInv'
  BY <1>1, <1>3, NoRecordType DEF Inv, PermissionInv, Agreed, Current
<1>8. OrphanInv'
  BY <1>4 DEF OrphanInv, Explained
<1>9. CoverInv'
  <2>1. \A c : Covered(c) => CoveredNext(c)
    BY <1>1, CoverStays
  <2>2. HeldNext(mem')
    BY <1>1, <2>1 DEF Inv, CoverInv, AllCovered, HeldNext
  <2>3. \A b \in backups' : \A v \in Version : CoveredNext(b.record.versions[v].archive)
    BY <1>1, <2>1 DEF Inv, CoverInv, AllCovered
  <2>4. \A v \in Version : NoRecord.versions[v].archive = 0
    BY NoRecordType
  <2>5. HeldNext(NoRecord)
    BY <2>4 DEF HeldNext, CoveredNext
  <2> QED BY <1>3, <2>2, <2>3, <2>5, CoverNext
<1> QED BY <1>5, <1>6, <1>7, <1>8, <1>9 DEF Inv, Base


LEMMA RestoreBackupStep ==
  ASSUME Inv, NEW b \in backups, RestoreBackup(b)
  PROVE  Inv'
<1> DEFINE v == b.record.cur
<1>1. /\ op.pc = "idle" /\ disk' = [disk EXCEPT ![v] = 0]
      /\ replaced' = replaced \cup ({disk[v]} \ {0, b.archive})
      /\ op' = [pc |-> "place", version |-> v, archive |-> b.archive, next |-> b.record]
      /\ backups' = backups /\ made' = made /\ agreed' = agreed /\ discarded' = discarded
      /\ stuck' = stuck /\ faults' = faults /\ crashes' = crashes
      /\ mem' = mem /\ file' = file
  BY DEF RestoreBackup
<1>2. /\ b \in Backup /\ Proper(b.record) /\ b.record.cur # 0 /\ ~b.record.enabled
  BY DEF Inv, Base, TypeOK, ProperInv
<1>3. /\ b.record \in Record /\ v \in 0..MaxVersion /\ v # 0 /\ b.archive \in 0..MaxArchives
      /\ b.archive # 0
  BY <1>2, LifecycleAssumption DEF Backup, Record, Archive
<1>4. v \in Version /\ b.record.versions[v].archive # 0
  BY <1>2, <1>3, LifecycleAssumption DEF Version, Proper
<1> HIDE DEF v
<1>5. /\ op' \in Op /\ op'.pc = "place" /\ op'.version = v /\ op'.archive = b.archive
      /\ op'.next = b.record
  BY <1>1, <1>3 DEF Op
<1>6. /\ disk' \in [Version -> 0..MaxArchives] /\ disk'[v] = 0
      /\ \A u \in Version : u # v => disk'[u] = disk[u]
      /\ disk[v] \in 0..MaxArchives
  <2>1. 0 \in 0..MaxArchives /\ disk \in [Version -> 0..MaxArchives]
    BY LifecycleAssumption DEF Inv, Base, TypeOK
  <2> QED BY <1>1, <1>4, <2>1
<1>7. TypeOK'
  <2>1. replaced' \subseteq Archive
    <3>1. disk[v] # 0 => disk[v] \in Archive
      BY <1>6, LifecycleAssumption DEF Archive
    <3>2. replaced \subseteq Archive
      BY DEF Inv, Base, TypeOK
    <3> QED BY <1>1, <3>1, <3>2
  <2> QED BY <1>1, <1>5, <1>6, <2>1 DEF Inv, Base, TypeOK
<1>8. ProperInv'
  <2>1. /\ file' = mem' /\ Proper(mem')
        /\ \A d \in backups' : Proper(d.record) /\ d.record.cur # 0 /\ ~d.record.enabled
    BY <1>1 DEF Inv, Base, ProperInv
  <2>2. b.record.cur = v
    BY DEF v
  <2> QED BY <1>2, <1>3, <1>4, <1>5, <2>1, <2>2 DEF ProperInv, Proper
<1>9. PermissionInv'
  BY <1>1, <1>2, <1>5 DEF Inv, PermissionInv, Agreed, Current
<1>10. OrphanInv'
  BY <1>1, <1>5, <1>6 DEF Inv, OrphanInv, Explained
<1>11. CoverInv'
  <2>1. \A c : Covered(c) => CoveredNext(c)
    BY <1>1, CoverStays
  <2>2. CoveredNext(disk[v])
    BY <1>1 DEF CoveredNext
  <2>3. ASSUME NEW u \in Version
        PROVE  \/ CoveredNext(mem.versions[u].archive)
               \/ u = mem.cur /\ u # v /\ disk[u] = mem.versions[u].archive
    <3>1. \/ Covered(mem.versions[u].archive)
          \/ u = mem.cur /\ disk[u] = mem.versions[u].archive
      BY DEF Inv, CoverInv, Held
    <3> QED BY <2>1, <2>2, <3>1
  <2>4. HeldNext(mem')
    BY <1>1, <1>6, <2>3 DEF HeldNext
  <2>5. \A d \in backups' : \A u \in Version : CoveredNext(d.record.versions[u].archive)
    BY <1>1, <2>1 DEF Inv, CoverInv, AllCovered
  <2>6. mem'.cur # v \/ CoveredNext(mem'.versions[v].archive)
    BY <1>1, <1>4, <2>3
  <2> QED BY <1>1, <1>5, <2>4, <2>5, <2>6, CoverNext
<1> QED BY <1>7, <1>8, <1>9, <1>10, <1>11 DEF Inv, Base

LEMMA PlaceBackupStep ==
  ASSUME Inv, PlaceBackup
  PROVE  Inv'
<1>1. /\ op.pc = "place" /\ disk' = [disk EXCEPT ![op.version] = op.archive]
      /\ op' = [op EXCEPT !.pc = "write"]
      /\ backups' = backups /\ made' = made /\ agreed' = agreed /\ discarded' = discarded
      /\ replaced' = replaced /\ stuck' = stuck /\ faults' = faults /\ crashes' = crashes
      /\ mem' = mem /\ file' = file
  BY DEF PlaceBackup
<1>2. op \in Op /\ op.version # 0 /\ op.archive # 0
  BY <1>1 DEF Inv, Base, TypeOK, ProperInv
<1>3. op.version \in Version /\ op.archive \in 0..MaxArchives
  BY <1>2, LifecycleAssumption DEF Op, Version
<1>4. /\ op' \in Op /\ op'.pc = "write" /\ op'.version = op.version
      /\ op'.archive = op.archive /\ op'.next = op.next
  <2>1. "write" \in {"idle", "remove", "place", "write"}
    OBVIOUS
  <2> QED BY <1>1, <1>2, <2>1, Zenon DEF Op
<1>5. /\ disk' \in [Version -> 0..MaxArchives]
      /\ \A u \in Version : u # op.version => disk'[u] = disk[u]
  BY <1>1, <1>3 DEF Inv, Base, TypeOK
<1>6. TypeOK'
  BY <1>1, <1>4, <1>5 DEF Inv, Base, TypeOK
<1>7. ProperInv'
  BY <1>1, <1>2, <1>4 DEF Inv, Base, ProperInv, Proper
<1>8. PermissionInv'
  BY <1>1, <1>4 DEF Inv, PermissionInv, Agreed, Current
<1>9. OrphanInv'
  BY <1>1, <1>2, <1>4, <1>5 DEF Inv, OrphanInv, Explained
<1>10. CoverInv'
  <2>1. \A c : Covered(c) => CoveredNext(c)
    BY <1>1, CoverStays
  <2>2. mem.cur # op.version \/ CoveredNext(mem.versions[op.version].archive)
    BY <1>1, <1>2, <2>1 DEF Inv, CoverInv
  <2>3. ASSUME NEW u \in Version
        PROVE  \/ CoveredNext(mem.versions[u].archive)
               \/ u = mem.cur /\ disk'[u] = mem.versions[u].archive
    <3>1. \/ Covered(mem.versions[u].archive)
          \/ u = mem.cur /\ disk[u] = mem.versions[u].archive
      BY DEF Inv, CoverInv, Held
    <3> QED BY <1>5, <2>1, <2>2, <3>1
  <2>4. HeldNext(mem')
    BY <1>1, <2>3 DEF HeldNext
  <2>5. HeldNext(op.next)
    BY <1>1, <2>1 DEF Inv, CoverInv, AllCovered, HeldNext
  <2>6. \A b \in backups' : \A u \in Version : CoveredNext(b.record.versions[u].archive)
    BY <1>1, <2>1 DEF Inv, CoverInv, AllCovered
  <2> QED BY <1>1, <1>4, <2>2, <2>4, <2>5, <2>6, CoverNext
<1> QED BY <1>6, <1>7, <1>8, <1>9, <1>10 DEF Inv, Base

LEMMA DeleteBackupStep ==
  ASSUME Inv, NEW b \in backups, DeleteBackup(b)
  PROVE  Inv'
<1>1. /\ op.pc = "idle" /\ op' = op /\ backups' = backups \ {b}
      /\ discarded' = discarded \cup {b.archive}
      /\ disk' = disk /\ made' = made /\ agreed' = agreed
      /\ replaced' = replaced /\ stuck' = stuck /\ faults' = faults /\ crashes' = crashes
      /\ mem' = mem /\ file' = file
  BY DEF DeleteBackup
<1>2. TypeOK'
  <2>1. b.archive \in Archive
    BY DEF Inv, Base, TypeOK, Backup
  <2> QED BY <1>1, <2>1 DEF Inv, Base, TypeOK
<1>3. ProperInv'
  BY <1>1 DEF Inv, Base, ProperInv, Proper
<1>4. PermissionInv'
  BY <1>1 DEF Inv, PermissionInv, Agreed, Current
<1>5. OrphanInv'
  BY <1>1 DEF Inv, OrphanInv, Explained
<1>6. CoverInv'
  <2>1. \A c : Covered(c) => CoveredNext(c)
    BY <1>1 DEF Covered, CoveredNext
  <2>2. HeldNext(mem')
    BY <1>1, <2>1 DEF Inv, CoverInv, Held, HeldNext
  <2>3. \A d \in backups' : \A u \in Version : CoveredNext(d.record.versions[u].archive)
    BY <1>1, <2>1 DEF Inv, CoverInv, AllCovered
  <2> QED BY <1>1, <2>2, <2>3, CoverNext
<1> QED BY <1>2, <1>3, <1>4, <1>5, <1>6 DEF Inv, Base


LEMMA WriteRegistryStep ==
  ASSUME Inv, WriteRegistry
  PROVE  Inv'
<1>1. /\ op.pc = "write" /\ file' = op.next /\ mem' = op.next /\ op' = Idle
      /\ stuck' = (stuck \cup (IF op.archive # 0 THEN Forgotten(op.next) ELSE {}))
                    \ {op.version}
      /\ backups' = backups /\ made' = made /\ agreed' = agreed /\ discarded' = discarded
      /\ replaced' = replaced /\ faults' = faults /\ crashes' = crashes /\ disk' = disk
  BY DEF WriteRegistry
<1>2. /\ op.next \in Record /\ Proper(op.next) /\ Idle \in Op /\ Idle.pc = "idle"
  BY <1>1, NoRecordType DEF Inv, Base, TypeOK, ProperInv, Op
<1>3. TypeOK'
  <2>1. stuck' \subseteq Version
    BY <1>1 DEF Inv, Base, TypeOK, Forgotten
  <2> QED BY <1>1, <1>2, <2>1 DEF Inv, Base, TypeOK
<1>4. ProperInv'
  <2>1. \A b \in backups' : Proper(b.record) /\ b.record.cur # 0 /\ ~b.record.enabled
    BY <1>1 DEF Inv, Base, ProperInv
  <2> QED BY <1>1, <1>2, <2>1 DEF ProperInv, Proper
<1>5. PermissionInv'
  BY <1>1, <1>2 DEF Inv, PermissionInv, Agreed, Current
<1>6. OrphanInv'
  <2>1. ASSUME NEW u \in Version, disk[u] # 0, op.next.versions[u].archive = 0
        PROVE  u \in stuck'
    <3>1. u # op.version
      BY <1>1, <2>1, LifecycleAssumption DEF Inv, Base, ProperInv, Version
    <3>2. CASE op.archive # 0
      BY <1>1, <2>1, <3>1, <3>2 DEF Forgotten
    <3>3. CASE op.archive = 0
      BY <1>1, <2>1, <3>1, <3>3 DEF Inv, OrphanInv, Explained
    <3> QED BY <3>2, <3>3
  <2> QED BY <1>1, <1>2, <2>1 DEF OrphanInv, Explained
<1>7. CoverInv'
  <2>1. \A c : Covered(c) => CoveredNext(c)
    BY <1>1, CoverStays
  <2>2. HeldNext(mem')
    BY <1>1, <2>1 DEF Inv, CoverInv, Held, HeldNext
  <2>3. \A d \in backups' : \A u \in Version : CoveredNext(d.record.versions[u].archive)
    BY <1>1, <2>1 DEF Inv, CoverInv, AllCovered
  <2> QED BY <1>1, <1>2, <2>2, <2>3, CoverNext
<1> QED BY <1>3, <1>4, <1>5, <1>6, <1>7 DEF Inv, Base

LEMMA WriteFailsStep ==
  ASSUME Inv, WriteFails
  PROVE  Inv'
<1>1. /\ op.pc = "write" /\ op' = Idle /\ faults < MaxFaults /\ faults' = faults + 1
      /\ disk' = IF op.version = 0 THEN disk ELSE [disk EXCEPT ![op.version] = 0]
      /\ backups' = backups /\ made' = made /\ agreed' = agreed /\ discarded' = discarded
      /\ replaced' = replaced /\ stuck' = stuck /\ crashes' = crashes
      /\ mem' = mem /\ file' = file
  BY DEF WriteFails
<1>2. Idle \in Op /\ Idle.pc = "idle"
  BY NoRecordType
<1>3. /\ disk' \in [Version -> 0..MaxArchives]
      /\ \A u \in Version : u # op.version => disk'[u] = disk[u]
      /\ \A u \in Version : u = op.version => disk'[u] = 0
  <2>1. 0 \in 0..MaxArchives /\ disk \in [Version -> 0..MaxArchives] /\ 0 \notin Version
    BY LifecycleAssumption DEF Inv, Base, TypeOK, Version
  <2> QED BY <1>1, <2>1
<1>4. TypeOK'
  <2>1. faults' \in 0..MaxFaults
    BY <1>1, LifecycleAssumption DEF Inv, Base, TypeOK
  <2> QED BY <1>1, <1>2, <1>3, <2>1 DEF Inv, Base, TypeOK
<1>5. ProperInv'
  BY <1>1, <1>2 DEF Inv, Base, ProperInv, Proper
<1>6. PermissionInv'
  BY <1>1, <1>2 DEF Inv, PermissionInv, Agreed, Current
<1>7. OrphanInv'
  BY <1>1, <1>2, <1>3 DEF Inv, OrphanInv, Explained
<1>8. CoverInv'
  <2>1. \A c : Covered(c) => CoveredNext(c)
    BY <1>1, CoverStays
  <2>2. ASSUME NEW u \in Version
        PROVE  \/ CoveredNext(mem.versions[u].archive)
               \/ u = mem.cur /\ disk'[u] = mem.versions[u].archive
    <3>1. \/ Covered(mem.versions[u].archive)
          \/ u = mem.cur /\ disk[u] = mem.versions[u].archive
      BY DEF Inv, CoverInv, Held
    <3>2. u # op.version \/ mem.cur # op.version \/ Covered(mem.versions[u].archive)
      BY <1>1, LifecycleAssumption DEF Inv, CoverInv, Version
    <3> QED BY <1>3, <2>1, <3>1, <3>2
  <2>3. HeldNext(mem')
    BY <1>1, <2>2 DEF HeldNext
  <2>4. \A d \in backups' : \A u \in Version : CoveredNext(d.record.versions[u].archive)
    BY <1>1, <2>1 DEF Inv, CoverInv, AllCovered
  <2> QED BY <1>1, <1>2, <2>3, <2>4, CoverNext
<1> QED BY <1>4, <1>5, <1>6, <1>7, <1>8 DEF Inv, Base

LEMMA RestartStep ==
  ASSUME Inv, Restart
  PROVE  Inv'
<1>1. /\ crashes < MaxCrashes /\ crashes' = crashes + 1 /\ op' = Idle
      /\ mem' = file /\ file' = file /\ backups' = backups /\ made' = made
      /\ agreed' = agreed /\ discarded' = discarded /\ replaced' = replaced
      /\ faults' = faults
      /\ stuck' = IF op.pc = "write" /\ op.version # 0 THEN stuck \cup {op.version} ELSE stuck
  BY DEF Restart
<1>2. PICK S : /\ op.pc # "remove" => S = {}
               /\ disk' = [v \in Version |-> IF v \in S THEN 0 ELSE disk[v]]
  BY DEF Restart
<1>3. Idle \in Op /\ Idle.pc = "idle" /\ mem' = mem
  BY <1>1, NoRecordType DEF Inv, Base, ProperInv
<1>4. /\ disk' \in [Version -> 0..MaxArchives]
      /\ \A u \in Version : disk'[u] # 0 => disk'[u] = disk[u]
      /\ op.pc # "remove" => \A u \in Version : disk'[u] = disk[u]
  <2>1. 0 \in 0..MaxArchives /\ disk \in [Version -> 0..MaxArchives]
    BY LifecycleAssumption DEF Inv, Base, TypeOK
  <2> QED BY <1>2, <2>1
<1>5. TypeOK'
  <2>1. crashes' \in 0..MaxCrashes
    BY <1>1, LifecycleAssumption DEF Inv, Base, TypeOK
  <2>2. stuck' \subseteq Version
    <3>1. op.version # 0 => op.version \in Version
      BY LifecycleAssumption DEF Inv, Base, TypeOK, Op, Version
    <3>2. stuck \subseteq Version
      BY DEF Inv, Base, TypeOK
    <3> QED BY <1>1, <3>1, <3>2
  <2> QED BY <1>1, <1>3, <1>4, <2>1, <2>2 DEF Inv, Base, TypeOK
<1>6. ProperInv'
  BY <1>1, <1>3 DEF Inv, Base, ProperInv, Proper
<1>7. PermissionInv'
  BY <1>1, <1>3 DEF Inv, PermissionInv, Agreed, Current
<1>8. OrphanInv'
  <2>1. ASSUME NEW u \in Version, disk'[u] # 0
        PROVE  mem.versions[u].archive # 0 \/ u \in stuck'
    <3>1. (op.pc = "write" /\ u = op.version) \/ Explained(mem, u)
      BY DEF Inv, OrphanInv
    <3>2. u # 0
      BY LifecycleAssumption DEF Version
    <3> QED BY <1>1, <1>4, <2>1, <3>1, <3>2 DEF Explained
  <2> QED BY <1>1, <1>3, <2>1 DEF OrphanInv, Explained
<1>9. CoverInv'
  <2>1. \A c : Covered(c) => CoveredNext(c)
    BY <1>1, CoverStays
  <2>2. HeldNext(mem')
    <3>1. CASE op.pc = "remove"
      BY <1>3, <2>1, <3>1 DEF Inv, CoverInv, AllCovered, HeldNext
    <3>2. CASE op.pc # "remove"
      BY <1>3, <1>4, <2>1, <3>2 DEF Inv, CoverInv, Held, HeldNext
    <3> QED BY <3>1, <3>2
  <2>3. \A d \in backups' : \A u \in Version : CoveredNext(d.record.versions[u].archive)
    BY <1>1, <2>1 DEF Inv, CoverInv, AllCovered
  <2> QED BY <1>1, <1>3, <2>2, <2>3, CoverNext
<1> QED BY <1>5, <1>6, <1>7, <1>8, <1>9 DEF Inv, Base

-----------------------------------------------------------------------------
(* The theorems                                                            *)

LEMMA InvInit == Init => Inv
<1> SUFFICES ASSUME Init PROVE Inv
  OBVIOUS
<1>1. /\ file = NoRecord /\ mem = NoRecord /\ disk = [v \in Version |-> 0] /\ backups = {}
      /\ op = Idle /\ made = 0 /\ agreed = Nothing /\ discarded = {} /\ replaced = {}
      /\ stuck = {} /\ faults = 0 /\ crashes = 0
  BY DEF Init
<1>2. 0 \in 0..MaxArchives /\ 0 \in 0..MaxFaults /\ 0 \in 0..MaxCrashes
  BY LifecycleAssumption
<1>3. \A v \in Version : disk[v] = 0 /\ mem.versions[v].archive = 0
  BY <1>1, NoRecordType
<1>4. TypeOK
  BY <1>1, <1>2, NoRecordType DEF TypeOK
<1>5. ProperInv
  BY <1>1, NoRecordType DEF ProperInv
<1>6. PermissionInv /\ OrphanInv
  BY <1>1, <1>3, NoRecordType DEF PermissionInv, Agreed, OrphanInv, Explained
<1>7. CoverInv
  BY <1>1, <1>3, NoRecordType DEF CoverInv, Held, AllCovered, Covered
<1> QED BY <1>4, <1>5, <1>6, <1>7 DEF Inv, Base

LEMMA InvNext == Inv /\ [Next]_vars => Inv'
<1> SUFFICES ASSUME Inv, [Next]_vars PROVE Inv'
  OBVIOUS
<1>1. ASSUME NEW v \in Version, NEW p \in Permission, Install(v, p) PROVE Inv'
  BY <1>1, InstallStep
<1>2. ASSUME NEW v \in Version, NEW p \in Permission, Update(v, p) PROVE Inv'
  BY <1>2, UpdateStep
<1>3. CASE Enable \/ Disable \/ Touch
  BY <1>3, SameStep
<1>4. ASSUME NEW v \in Version, RestoreVersion(v) PROVE Inv'
  BY <1>4, RestoreVersionStep
<1>5. CASE Remove
  BY <1>5, RemoveStep
<1>6. CASE RemoveFiles
  BY <1>6, RemoveFilesStep
<1>7. ASSUME NEW b \in backups, RestoreBackup(b) PROVE Inv'
  BY <1>7, RestoreBackupStep
<1>8. ASSUME NEW b \in backups, DeleteBackup(b) PROVE Inv'
  BY <1>8, DeleteBackupStep
<1>9. CASE PlaceBackup
  BY <1>9, PlaceBackupStep
<1>10. CASE WriteRegistry
  BY <1>10, WriteRegistryStep
<1>11. CASE WriteFails
  BY <1>11, WriteFailsStep
<1>12. CASE Restart
  BY <1>12, RestartStep
<1>13. CASE UNCHANGED vars
  <2>1. TypeOK'
    BY <1>13 DEF vars, Inv, Base, TypeOK
  <2>2. ProperInv'
    BY <1>13 DEF vars, Inv, Base, ProperInv, Proper
  <2>3. PermissionInv' /\ OrphanInv'
    BY <1>13 DEF vars, Inv, PermissionInv, Agreed, Current, OrphanInv, Explained
  <2>4. CoverInv'
    BY <1>13 DEF vars, Inv, CoverInv, Held, AllCovered, Covered
  <2> QED BY <2>1, <2>2, <2>3, <2>4 DEF Inv, Base
<1> QED
  BY <1>1, <1>2, <1>3, <1>4, <1>5, <1>6, <1>7, <1>8, <1>9, <1>10, <1>11, <1>12, <1>13
  DEF Next

\* In every reachable state the record in memory is the one in the file and
\* knows its current version, what an operation is about to write was agreed
\* to and explains the directories, and what could be lost is covered.
THEOREM Invariant == Spec => []Inv
<1>1. Init => Inv
  BY InvInit
<1>2. Inv /\ [Next]_vars => Inv'
  BY InvNext
<1> QED BY <1>1, <1>2, PTL DEF Spec

\* Every variable keeps its type through all the steps of every operation.
THEOREM TypeCorrect == Spec => []TypeOK
<1>1. Inv => TypeOK
  BY DEF Inv, Base
<1> QED BY <1>1, Invariant, PTL

\* What the record says is installed can be had again, wherever a crash or a
\* failed write of the registry cut an operation short.
THEOREM InstalledIsRecoverable == Spec => []Recoverable
<1>1. Inv => Recoverable
  <2> SUFFICES ASSUME Inv, op.pc = "idle", NEW v \in Version
               PROVE  \/ mem.versions[v].archive = 0
                      \/ disk[v] = mem.versions[v].archive
                      \/ \E b \in backups : b.archive = mem.versions[v].archive
                      \/ mem.versions[v].archive \in discarded \cup replaced
    BY DEF Recoverable
  <2> QED BY DEF Inv, CoverInv, Held, Covered
<1> QED BY <1>1, Invariant, PTL

\* A resource is never enabled, in memory or in the file the next process
\* loads, with permissions that nobody has confirmed.
THEOREM PermissionsAreConfirmed == Spec => []ConfirmedPermissions
<1>1. Inv => ConfirmedPermissions
  BY DEF Inv, Base, ProperInv, PermissionInv, Agreed, ConfirmedPermissions
<1> QED BY <1>1, Invariant, PTL

\* Directories of versions the record does not know come only from a crash
\* or from the restore of a backup whose record is older.
THEOREM DirectoriesAreExplained == Spec => []NoOrphans
<1>1. Inv => NoOrphans
  BY DEF Inv, OrphanInv, Explained, NoOrphans
<1> QED BY <1>1, Invariant, PTL

=============================================================================
