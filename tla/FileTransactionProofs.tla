------------------------ MODULE FileTransactionProofs ------------------------
(***************************************************************************)
(* Proofs about FileTransaction, for any files, number of transactions and *)
(* crashes, and for any number of faults of a caller that recovers before  *)
(* it writes.                                                              *)
(*                                                                         *)
(* The invariant has two layers: in what order transactions come, which    *)
(* always holds, and what is in their files, which holds until a write     *)
(* that is discarded is interrupted after it lost staged files.            *)
(***************************************************************************)
EXTENDS FileTransaction, TLAPS

\* The caller the promise is made to: one that recovers before it writes, or
\* is not hit by a second error while it deals with a first one.
Careful == caller = "catalogue" \/ MaxFaults["registry"] <= 1

\* A transaction whose journal makes a recovery change files, and one whose
\* commit is on disk and has been reported to nobody.
Open(t) == journal[t] \in {"prepared", "rolling_back"}
Unreported(t) == journal[t] = "committed" /\ last < t
Pending(t) == Open(t) \/ Unreported(t)
Settled == \A t \in Tx : ~Pending(t)

\* No write was discarded halfway and left there.
Sound == torn = {} \/ (pc = "discard" /\ torn \subseteq {cur})

\* One transaction at most is pending, and it is newer than what is settled.
Ordered(t) == (journal[t] # "none" => t <= tx) /\ (Open(t) => last < t)

OrderInv ==
  /\ last <= tx
  /\ \A t \in torn : t <= tx
  /\ \A t \in Tx : Ordered(t)
  /\ \A s, t \in Tx : Pending(s) /\ Pending(t) => s = t

\* What the process is doing with the transaction at hand.
StepInv ==
  /\ pc \in {"publish", "rollback", "undo", "cleanup", "discard"} => cur \in Tx
  /\ pc = "publish" =>
       /\ journal[cur] = "prepared"
       /\ mode = "commit" => \A f \in todo : f \in staged[cur] \/ image[cur][f] = Absent
  /\ pc = "rollback" => mode = "commit" /\ (journal[cur] = "prepared" \/ Unreported(cur))
  /\ pc = "undo" => journal[cur] = "rolling_back"
  /\ pc = "cleanup" =>
       /\ journal[cur] \in {"committed", "rolling_back"}
       /\ journal[cur] = "committed" => cur <= last /\ (mode = "commit" => Settled)
  /\ pc = "discard" => mode = "commit" /\ journal[cur] = "prepared"
  /\ pc = "scan" => mode # "commit"
  /\ pc = "prepare" => mode = "write" /\ Settled
  /\ mode = "write" /\ pc \notin {"ready", "down"} => tx < MaxTx

\* A registry that is at work on the consequences of an error.
Shaken ==
  \/ pc \in {"rollback", "discard"}
  \/ pc = "undo" /\ mode = "commit"
  \/ pc = "cleanup" /\ mode = "commit" /\ journal[cur] = "rolling_back"

\* Who may leave a transaction pending when it is ready again.
CallerInv ==
  /\ Careful
  /\ caller = "registry" =>
       /\ pc = "ready" => Settled
       /\ pc \in {"scan", "publish", "undo", "cleanup"} => mode \in {"start", "commit"}
       /\ Shaken => faults >= 1
       /\ torn # {} => faults >= 1
       /\ Shaken /\ pc # "discard" => torn = {}

Base == TypeOK /\ OrderInv /\ StepInv /\ CallerInv

\* The backups hold what the last committed transaction left.
Saved(t) ==
  \A f \in File :
    /\ f \in had[t] <=> image[last][f] # Absent
    /\ backup[t][f] = image[last][f]

\* The files, staged files and backups suffice to complete a transaction, or
\* to withdraw it.
Completable(t) ==
  \A f \in File : f \in staged[t] \/ image[t][f] = Absent \/ files[f] = image[t][f]

Withdrawable(t) ==
  \A f \in File :
    /\ f \in had[t] <=> image[last][f] # Absent
    /\ backup[t][f] \in {Absent, image[last][f]}
    /\ f \in had[t] /\ backup[t][f] = Absent => files[f] = image[last][f]

TxContent(t) ==
  /\ journal[t] = "prepared" /\ t \notin torn => Completable(t)
  /\ journal[t] = "rolling_back" => Withdrawable(t)
  /\ Unreported(t) => \A f \in File : files[f] = image[t][f]

DiskContent ==
  /\ \A t \in Tx : TxContent(t)
  /\ Settled => \A f \in File : files[f] = image[last][f]

StepContent ==
  /\ pc = "publish" => \A f \in File \ todo : files[f] = image[cur][f]
  /\ pc = "rollback" \/ (pc = "publish" /\ mode = "commit") => Saved(cur)
  /\ pc = "undo" =>
       \A f \in File \ todo : files[f] = image[last][f] /\ backup[cur][f] = Absent
  /\ pc = "discard" \/ (pc = "cleanup" /\ journal[cur] = "rolling_back") =>
       \A f \in File : files[f] = image[last][f]

Contentful == DiskContent /\ StepContent

Inv == Base /\ (Sound => Contentful)

-----------------------------------------------------------------------------
(* What the actions have in common                                         *)

\* A fault counts, and cannot happen twice to a caller that is not careful.
LEMMA FaultEffect ==
  ASSUME TypeOK, CallerInv, Fault \/ UNCHANGED bounds, caller' = caller
  PROVE  /\ faults' \in 0..MaxFaults[caller'] /\ crashes' \in 0..MaxCrashes
         /\ faults' >= faults /\ faults' \in Nat /\ faults \in Nat
         /\ Fault => faults' >= 1
         /\ Fault /\ caller = "registry" => faults = 0
         /\ Careful'
<1>1. MaxFaults[caller] \in Nat /\ caller \in Caller
  BY TransactionAssumption DEF TypeOK, Caller
<1>2. faults \in Nat /\ faults <= MaxFaults[caller]
  BY <1>1 DEF TypeOK
<1>3. Careful'
  BY DEF CallerInv, Careful
<1>4. caller = "registry" => MaxFaults[caller] <= 1
  BY DEF CallerInv, Careful
<1>5. CASE UNCHANGED bounds
  BY <1>1, <1>2, <1>3, <1>5 DEF TypeOK, bounds, Fault
<1>6. CASE Fault
  BY <1>1, <1>2, <1>3, <1>4, <1>6 DEF TypeOK, Fault
<1> QED BY <1>5, <1>6

\* The numbers of transactions are ordered.
LEMMA Numbers ==
  ASSUME TypeOK
  PROVE  /\ last \in Nat /\ tx \in Nat /\ MaxTx \in Nat /\ cur \in Nat
         /\ \A t \in Tx : t \in Nat /\ t >= 1 /\ t <= MaxTx
BY TransactionAssumption DEF TypeOK, Tx

\* The journal of the transaction at hand is written.
LEMMA JournalEffect ==
  ASSUME TypeOK, NEW s \in JournalState, NEW c \in Tx,
         journal' = [journal EXCEPT ![c] = s]
  PROVE  /\ journal' \in [Tx -> JournalState] /\ journal'[c] = s
         /\ \A t \in Tx : t # c => journal'[t] = journal[t]
BY DEF TypeOK

\* While one transaction is pending, the others are settled.
LEMMA Others ==
  ASSUME Base, NEW c \in Tx, Pending(c), tx' = tx, last' \in {last, c},
         \A t \in Tx : t # c => journal'[t] = journal[t]
  PROVE  \A t \in Tx : t # c => ~Pending(t)' /\ Ordered(t)'
<1> SUFFICES ASSUME NEW t \in Tx, t # c PROVE ~Pending(t)' /\ Ordered(t)'
  OBVIOUS
<1>1. ~Pending(t) /\ Ordered(t) /\ Ordered(c)
  BY DEF Base, OrderInv
<1>2. last \in Int /\ t \in Int /\ c \in Int
  BY Numbers DEF Base
<1>3. last < c
  BY <1>1 DEF Pending, Unreported, Ordered
<1>4. ~Pending(t)'
  BY <1>1, <1>2, <1>3 DEF Pending, Open, Unreported
<1> QED BY <1>1, <1>4 DEF Ordered, Pending, Open

LEMMA OrderNext ==
  ASSUME NEW c \in Tx, last' <= tx', Ordered(c)', \A t \in torn' : t <= tx',
         \A t \in Tx : t # c => ~Pending(t)' /\ Ordered(t)'
  PROVE  OrderInv'
BY DEF OrderInv

LEMMA ContentNext ==
  ASSUME NEW c \in Tx, TxContent(c)', \A t \in Tx : t # c => ~Pending(t)',
         Pending(c)' \/ \A f \in File : files'[f] = image'[last'][f]
  PROVE  DiskContent'
BY DEF DiskContent, TxContent, Settled, Pending, Open

\* Nothing on the disk changes.
LEMMA SameOrder ==
  ASSUME OrderInv, UNCHANGED <<journal, last, tx>>, torn' = torn
  PROVE  OrderInv' /\ (Settled' <=> Settled)
BY DEF OrderInv, Ordered, Settled, Pending, Open, Unreported

LEMMA SameContent ==
  ASSUME DiskContent, UNCHANGED <<disk, image, last, torn>>
  PROVE  DiskContent'
BY DEF DiskContent, TxContent, Completable, Withdrawable, Settled, Pending, Open,
   Unreported, disk

\* Outside of a discard no transaction becomes torn.
LEMMA StillSound ==
  ASSUME Sound', torn' = torn, pc' # "discard" \/ (pc = "discard" /\ cur' = cur)
  PROVE  Sound
BY DEF Sound

\* The transaction at hand when it is on its way.
LEMMA AtHand ==
  ASSUME Base, pc \in {"publish", "rollback", "undo", "discard"}
  PROVE  /\ cur \in Tx /\ Pending(cur) /\ Ordered(cur) /\ last < cur /\ cur <= tx
         /\ image[cur] \in [File -> Content] /\ image[last] \in [File -> Content]
         /\ last <= tx /\ last \in Nat /\ cur \in Nat
<1>1. cur \in Tx /\ Pending(cur)
  BY DEF Base, StepInv, Pending, Open
<1>2. Ordered(cur) /\ last <= tx
  BY <1>1 DEF Base, OrderInv
<1>3. last < cur /\ cur <= tx
  BY <1>1, <1>2 DEF Pending, Open, Unreported, Ordered
<1>4. cur \in 0..MaxTx /\ last \in 0..MaxTx /\ image \in [0..MaxTx -> [File -> Content]]
  BY <1>1 DEF Base, TypeOK, Tx, Contents
<1> QED BY <1>1, <1>2, <1>3, <1>4

\* What is in the files of the transaction at hand, when all is sound.
LEMMA InHand ==
  ASSUME Inv, Sound, pc \in {"publish", "rollback", "undo", "discard"}
  PROVE  TxContent(cur) /\ DiskContent /\ StepContent
BY AtHand DEF Inv, Contentful, DiskContent

-----------------------------------------------------------------------------
(* Starts, recoveries and the beginning of a write                         *)

LEMMA StartStep ==
  ASSUME Inv, Start \/ Refresh, caller' = caller
  PROVE  Inv'
<1>1. /\ UNCHANGED <<disk, image, mem, cur, todo, tx, last, torn, bounds>> /\ pc' = "scan"
      /\ mode' = "start" \/ (mode' = "refresh" /\ caller = "catalogue")
  BY DEF Start, Refresh
<1>2. TypeOK'
  BY <1>1 DEF Inv, Base, TypeOK, disk, bounds, Step, Mode
<1>3. OrderInv'
  BY <1>1, SameOrder DEF Inv, Base, disk
<1>4. StepInv'
  BY <1>1 DEF StepInv
<1>5. CallerInv'
  BY <1>1 DEF Inv, Base, CallerInv, Careful, Shaken, bounds
<1>6. ASSUME Sound' PROVE Contentful'
  <2>1. Sound
    BY <1>1, <1>6, StillSound
  <2>2. DiskContent'
    BY <1>1, <2>1, SameContent DEF Inv, Contentful
  <2> QED BY <1>1, <2>2 DEF Contentful, StepContent
<1> QED BY <1>2, <1>3, <1>4, <1>5, <1>6 DEF Inv, Base

LEMMA RecoverStep ==
  ASSUME Inv, NEW t \in Tx, Recover(t), caller' = caller
  PROVE  Inv'
<1>1. /\ UNCHANGED <<disk, image, mem, mode, tx, torn, bounds>>
      /\ pc = "scan" /\ cur' = t /\ todo' = File
      /\ \/ journal[t] = "rolling_back" /\ pc' = "undo" /\ last' = last
         \/ /\ journal[t] = "committed" /\ pc' = "cleanup"
            /\ last' = IF last < t THEN t ELSE last
         \/ journal[t] = "prepared" /\ pc' = "publish" /\ last' = last
  BY DEF Recover, Inv, Base, TypeOK, JournalState
<1>2. mode # "commit" /\ (mode = "write" => tx < MaxTx) /\ last <= tx /\ Ordered(t)
  BY <1>1 DEF Inv, Base, StepInv, OrderInv
<1>3. t \in Nat /\ last \in Nat /\ tx \in Nat /\ t <= tx /\ t \in 0..MaxTx
  BY <1>1, <1>2, Numbers DEF Inv, Base, Ordered, TypeOK, Tx
<1>4. last' \in 0..MaxTx
  BY <1>1, <1>3 DEF Inv, Base, TypeOK
<1>5. TypeOK'
  BY <1>1, <1>3, <1>4 DEF Inv, Base, TypeOK, disk, bounds, Step
<1>6. journal' = journal /\ files' = files
  BY <1>1 DEF disk
<1>7. CASE last' = last
  <2>1. OrderInv'
    BY <1>1, <1>6, <1>7, SameOrder DEF Inv, Base
  <2>2. StepInv'
    BY <1>1, <1>2, <1>3, <1>6, <1>7 DEF StepInv
  <2>3. CallerInv'
    BY <1>1, <1>2 DEF Inv, Base, CallerInv, Careful, Shaken, bounds
  <2>4. ASSUME Sound' PROVE Contentful'
    <3>1. DiskContent
      BY <1>1, <2>4, StillSound DEF Inv, Contentful
    <3>2. DiskContent'
      BY <1>1, <1>7, <3>1, SameContent
    <3>3. ASSUME torn = {}, journal[t] = "rolling_back" PROVE pc' = "undo"
      BY <1>1, <3>3
    <3> QED BY <1>1, <1>2, <1>6, <3>2 DEF Contentful, StepContent
  <2> QED BY <1>5, <2>1, <2>2, <2>3, <2>4 DEF Inv, Base
<1>8. CASE last' # last
  <2>1. journal[t] = "committed" /\ last < t /\ last' = t /\ pc' = "cleanup" /\ Pending(t)
    BY <1>1, <1>8 DEF Pending, Unreported
  <2>2. \A s \in Tx : s # t => ~Pending(s)' /\ Ordered(s)'
    BY <1>1, <1>6, <2>1, Others DEF Inv
  <2>3. ~Pending(t)' /\ Ordered(t)'
    BY <1>1, <1>3, <1>6, <2>1 DEF Pending, Open, Unreported, Ordered
  <2>4. OrderInv'
    BY <1>1, <1>3, <2>1, <2>2, <2>3, OrderNext DEF Inv, Base, OrderInv
  <2>5. StepInv'
    BY <1>1, <1>2, <1>3, <1>6, <2>1 DEF StepInv
  <2>6. CallerInv'
    BY <1>1, <1>2 DEF Inv, Base, CallerInv, Careful, Shaken, bounds
  <2>7. ASSUME Sound' PROVE Contentful'
    <3>1. DiskContent
      BY <1>1, <2>7, StillSound DEF Inv, Contentful
    <3>2. \A f \in File : files'[f] = image'[last'][f]
      BY <1>1, <1>6, <2>1, <3>1 DEF DiskContent, TxContent, Unreported
    <3>3. TxContent(t)'
      BY <1>6, <2>1, <2>3 DEF TxContent, Pending
    <3>4. DiskContent'
      BY <2>2, <3>2, <3>3, ContentNext
    <3> QED BY <1>1, <1>2, <1>6, <2>1, <3>4 DEF Contentful, StepContent
  <2> QED BY <1>5, <2>4, <2>5, <2>6, <2>7 DEF Inv, Base
<1> QED BY <1>7, <1>8

LEMMA RecoveredStep ==
  ASSUME Inv, Recovered, caller' = caller
  PROVE  Inv'
<1>1. /\ UNCHANGED <<disk, image, mode, cur, todo, tx, last, torn, bounds>>
      /\ pc = "scan" /\ mem' \in {mem, files}
      /\ pc' = "ready" \/ (pc' = "prepare" /\ mode = "write")
      /\ \A t \in Tx : journal[t] = "none"
  BY DEF Recovered, Journals
<1>2. TypeOK'
  BY <1>1 DEF Inv, Base, TypeOK, disk, bounds, Step
<1>3. OrderInv'
  BY <1>1, SameOrder DEF Inv, Base, disk
<1>4. Settled'
  BY <1>1 DEF Settled, Pending, Open, Unreported, disk
<1>5. StepInv'
  BY <1>1, <1>4 DEF Inv, Base, StepInv
<1>6. CallerInv'
  BY <1>1, <1>4 DEF Inv, Base, CallerInv, Careful, Shaken, bounds
<1>7. ASSUME Sound' PROVE Contentful'
  <2>1. Sound
    BY <1>1, <1>7, StillSound
  <2>2. DiskContent'
    BY <1>1, <2>1, SameContent DEF Inv, Contentful
  <2> QED BY <1>1, <2>2 DEF Contentful, StepContent
<1> QED BY <1>2, <1>3, <1>5, <1>6, <1>7 DEF Inv, Base

LEMMA BeginStep ==
  ASSUME Inv, Begin, caller' = caller
  PROVE  Inv'
<1>1. /\ UNCHANGED <<disk, image, mem, cur, todo, tx, last, torn, bounds>>
      /\ pc = "ready" /\ tx < MaxTx /\ mode' = "write"
      /\ pc' = IF caller = "catalogue" THEN "scan" ELSE "prepare"
      /\ caller \in {"catalogue", "registry"}
  BY DEF Begin, Inv, Base, TypeOK, Caller
<1>2. TypeOK'
  BY <1>1 DEF Inv, Base, TypeOK, disk, bounds, Step, Mode
<1>3. OrderInv' /\ (Settled' <=> Settled)
  BY <1>1, SameOrder DEF Inv, Base, disk
<1>4. caller = "registry" => Settled'
  BY <1>1, <1>3 DEF Inv, Base, CallerInv
<1>5. StepInv'
  BY <1>1, <1>4 DEF StepInv
<1>6. CallerInv'
  BY <1>1, <1>4 DEF Inv, Base, CallerInv, Careful, Shaken, bounds
<1>7. ASSUME Sound' PROVE Contentful'
  <2>1. Sound
    BY <1>1, <1>7, StillSound
  <2>2. DiskContent'
    BY <1>1, <2>1, SameContent DEF Inv, Contentful
  <2> QED BY <1>1, <2>2 DEF Contentful, StepContent
<1> QED BY <1>2, <1>3, <1>5, <1>6, <1>7 DEF Inv, Base

LEMMA CrashStep ==
  ASSUME Inv, Crash, caller' = caller
  PROVE  Inv'
<1>1. /\ UNCHANGED <<disk, image, mem, mode, cur, todo, tx, last, torn, faults>>
      /\ pc' = "down" /\ crashes < MaxCrashes /\ crashes' = crashes + 1
  BY DEF Crash
<1>2. crashes' \in 0..MaxCrashes
  BY <1>1, TransactionAssumption DEF Inv, Base, TypeOK
<1>3. TypeOK'
  BY <1>1, <1>2 DEF Inv, Base, TypeOK, disk, Step
<1>4. OrderInv'
  BY <1>1, SameOrder DEF Inv, Base, disk
<1>5. StepInv'
  BY <1>1 DEF StepInv
<1>6. CallerInv'
  BY <1>1 DEF Inv, Base, CallerInv, Careful, Shaken
<1>7. ASSUME Sound' PROVE Contentful'
  <2>1. Sound
    BY <1>1, <1>7, StillSound
  <2>2. DiskContent'
    BY <1>1, <2>1, SameContent DEF Inv, Contentful
  <2> QED BY <1>1, <2>2 DEF Contentful, StepContent
<1> QED BY <1>3, <1>4, <1>5, <1>6, <1>7 DEF Inv, Base

LEMMA PrepareFailsStep ==
  ASSUME Inv, PrepareFails, caller' = caller
  PROVE  Inv'
<1>1. /\ UNCHANGED <<disk, image, mem, mode, cur, todo, last, torn>>
      /\ pc = "prepare" /\ pc' = "ready" /\ tx' = tx + 1 /\ Fault
  BY DEF PrepareFails
<1>2. tx < MaxTx /\ Settled
  BY <1>1 DEF Inv, Base, StepInv
<1>3. /\ faults' \in 0..MaxFaults[caller'] /\ crashes' \in 0..MaxCrashes /\ Careful'
      /\ faults' >= 1
  BY <1>1, FaultEffect DEF Inv, Base
<1>4. /\ tx' \in 0..MaxTx /\ tx \in Nat /\ last \in Nat /\ last <= tx
      /\ \A t \in Tx : t \in Nat
      /\ \A t \in torn : t \in Tx /\ t <= tx
  BY <1>1, <1>2, Numbers DEF Inv, Base, TypeOK, OrderInv
<1>5. TypeOK'
  BY <1>1, <1>3, <1>4 DEF Inv, Base, TypeOK, disk, Step
<1>6. Settled'
  BY <1>1, <1>2 DEF Settled, Pending, Open, Unreported, disk
<1>7. OrderInv'
  <2>1. \A t \in Tx : journal'[t] # "none" => t <= tx'
    BY <1>1, <1>4 DEF Inv, Base, OrderInv, Ordered, disk
  <2>2. \A t \in torn' : t <= tx'
    BY <1>1, <1>4
  <2>3. \A t \in Tx : Ordered(t)'
    BY <1>6, <2>1 DEF Ordered, Settled, Pending, Open
  <2> QED BY <1>1, <1>4, <1>6, <2>2, <2>3 DEF OrderInv, Settled
<1>8. StepInv'
  BY <1>1 DEF StepInv
<1>9. CallerInv'
  BY <1>1, <1>3, <1>6 DEF Inv, Base, CallerInv, Shaken
<1>10. ASSUME Sound' PROVE Contentful'
  <2>1. Sound
    BY <1>1, <1>10, StillSound
  <2>2. DiskContent'
    BY <1>1, <2>1, SameContent DEF Inv, Contentful
  <2> QED BY <1>1, <2>2 DEF Contentful, StepContent
<1> QED BY <1>5, <1>7, <1>8, <1>9, <1>10 DEF Inv, Base

LEMMA PrepareStep ==
  ASSUME Inv, NEW dels \in SUBSET File, Prepare(dels), caller' = caller
  PROVE  /\ Inv'
         /\ image' \in [0..MaxTx -> Contents]
         /\ image'[last] = image[last]
         /\ \E t \in Tx : /\ journal'[t] = "prepared"
                          /\ image'[t] = [f \in File |-> IF f \in dels THEN Absent ELSE t]
<1> DEFINE t == tx + 1
<1>1. /\ UNCHANGED <<files, mem, last, torn>>
      /\ pc = "prepare" /\ tx' = t /\ cur' = t /\ mode' = "commit" /\ todo' = File
      /\ image' = [image EXCEPT ![t] = [f \in File |-> IF f \in dels THEN Absent ELSE t]]
      /\ had' = [had EXCEPT ![t] = {f \in File : files[f] # Absent}]
      /\ staged' = [staged EXCEPT ![t] = File \ dels]
      /\ backup' = [backup EXCEPT ![t] = files]
      /\ journal' = [journal EXCEPT ![t] = "prepared"]
      /\ \/ pc' = "publish" /\ UNCHANGED bounds
         \/ pc' = "discard" /\ Fault
  BY DEF Prepare
<1>2. tx < MaxTx /\ Settled
  BY <1>1 DEF Inv, Base, StepInv
<1>3. /\ t \in Tx /\ t \in 0..MaxTx /\ last \in 0..MaxTx /\ last <= tx /\ last # t /\ tx \in Nat
      /\ last < t /\ last \in Nat
      /\ \A s \in torn : s \in Tx /\ s \in Nat /\ s <= tx
  BY <1>2, Numbers DEF Inv, Base, TypeOK, OrderInv, Tx
<1>4. PICK c \in Tx : c = t
  BY <1>3
<1>a. tx' = tx + 1 /\ c = tx + 1
  BY <1>1, <1>4
<1> HIDE DEF t
<1> DEFINE im == [f \in File |-> IF f \in dels THEN Absent ELSE c]
<1>5. im \in Contents /\ c \in Content
  BY <1>3, <1>4 DEF Contents, Content
<1>6. /\ image' \in [0..MaxTx -> Contents] /\ image'[c] = im /\ image'[last] = image[last]
      /\ had' \in [Tx -> SUBSET File] /\ had'[c] = {f \in File : files[f] # Absent}
      /\ staged' \in [Tx -> SUBSET File] /\ staged'[c] = File \ dels
      /\ backup' \in [Tx -> Contents] /\ backup'[c] = files
      /\ journal' \in [Tx -> JournalState] /\ journal'[c] = "prepared"
      /\ \A s \in Tx : s # c => journal'[s] = journal[s]
  BY <1>1, <1>3, <1>4, <1>5 DEF Inv, Base, TypeOK, JournalState
<1>7. /\ faults' \in 0..MaxFaults[caller'] /\ crashes' \in 0..MaxCrashes /\ Careful'
      /\ Fault => faults' >= 1
  BY <1>1, FaultEffect DEF Inv, Base
<1>8. TypeOK'
  BY <1>1, <1>3, <1>4, <1>6, <1>7 DEF Inv, Base, TypeOK, Step, Mode
<1>9. \A f \in File : f \in staged'[c] \/ image'[c][f] = Absent
  BY <1>6
<1>10. \A s \in Tx : s # c => ~Pending(s)' /\ Ordered(s)'
  <2> SUFFICES ASSUME NEW s \in Tx, s # c PROVE ~Pending(s)' /\ Ordered(s)'
    OBVIOUS
  <2>1. ~Pending(s)'
    BY <1>1, <1>2, <1>6 DEF Settled, Pending, Open, Unreported
  <2>2. journal'[s] # "none" => s <= tx'
    BY <1>3, <1>6, <1>a, Numbers DEF Inv, Base, OrderInv, Ordered
  <2> QED BY <2>1, <2>2 DEF Ordered, Pending, Open
<1>11. Pending(c)' /\ Ordered(c)' /\ last' <= tx'
  BY <1>1, <1>3, <1>4, <1>6, <1>a DEF Pending, Open, Ordered
<1>12. \A s \in torn' : s <= tx'
  BY <1>1, <1>3, <1>a
<1>13. OrderInv'
  BY <1>10, <1>11, <1>12, OrderNext
<1>14. StepInv'
  BY <1>1, <1>4, <1>6, <1>9 DEF StepInv
<1>15. CallerInv'
  <2>1. caller = "registry" /\ torn # {} => faults >= 1
    BY DEF Inv, Base, CallerInv
  <2>2. faults' >= faults /\ faults \in Nat /\ faults' \in Nat
    BY <1>1, FaultEffect DEF Inv, Base
  <2>3. pc' = "discard" => faults' >= 1
    BY <1>1, <1>7
  <2>4. pc' # "discard" => ~Shaken'
    BY <1>1 DEF Shaken
  <2> QED BY <1>1, <1>7, <2>1, <2>2, <2>3, <2>4 DEF CallerInv
<1>16. ASSUME Sound' PROVE Contentful'
  <2>1. torn' = {} /\ torn = {} /\ Sound
    <3>1. c \notin torn /\ cur' = c
      BY <1>1, <1>3, <1>4, <1>a
    <3> QED BY <1>1, <1>16, <3>1 DEF Sound
  <2>2. \A f \in File : files[f] = image[last][f]
    BY <1>2, <2>1 DEF Inv, Contentful, DiskContent
  <2>3. Saved(c)'
    BY <1>1, <1>6, <2>2 DEF Saved
  <2>4. TxContent(c)'
    BY <1>6, <1>9 DEF TxContent, Completable, Unreported
  <2>5. DiskContent'
    BY <1>10, <1>11, <2>4, ContentNext
  <2>6. \A f \in File : files'[f] = image'[last'][f]
    BY <1>1, <1>6, <2>2
  <2>7. StepContent'
    BY <1>1, <1>4, <2>3, <2>6 DEF StepContent
  <2> QED BY <2>5, <2>7 DEF Contentful
<1>17. \E s \in Tx : /\ journal'[s] = "prepared"
                     /\ image'[s] = [f \in File |-> IF f \in dels THEN Absent ELSE s]
  BY <1>6
<1> QED BY <1>6, <1>8, <1>13, <1>14, <1>15, <1>16, <1>17 DEF Inv, Base

-----------------------------------------------------------------------------
(* The steps of a commit, a rollback and their recovery                    *)

\* An error while entries are published: the process rolls back, stops or is
\* ready.
LEMMA RaiseEffect ==
  ASSUME Inv, pc = "publish", Raise, Fault, UNCHANGED <<caller, mode, cur, tx, last, torn>>,
         journal'[cur] \in {"prepared", "committed"}
  PROVE  /\ StepInv' /\ CallerInv' /\ pc' \in Step /\ pc' # "discard"
         /\ faults' \in 0..MaxFaults[caller'] /\ crashes' \in 0..MaxCrashes
         /\ pc' = "rollback" => mode = "commit"
         /\ pc' \in {"rollback", "down", "ready"}
<1>1. cur \in Tx /\ last < cur
  BY AtHand DEF Inv
<1>2. mode \in Mode
  BY DEF Inv, Base, TypeOK
<1>3. \/ mode = "commit" /\ pc' = "rollback"
      \/ mode = "start" /\ pc' = "down"
      \/ mode \in {"write", "refresh"} /\ pc' = "ready"
  BY <1>2 DEF Raise, Mode
<1>4. journal'[cur'] = "prepared" \/ Unreported(cur)'
  BY <1>1 DEF Unreported
<1>5. StepInv'
  BY <1>1, <1>3, <1>4 DEF StepInv
<1>6. /\ Careful' /\ faults' >= 1
      /\ caller = "registry" => faults = 0
      /\ faults' \in 0..MaxFaults[caller'] /\ crashes' \in 0..MaxCrashes
  BY FaultEffect DEF Inv, Base
<1>7. caller = "registry" => mode \in {"start", "commit"} /\ torn = {}
  BY <1>6 DEF Inv, Base, CallerInv
<1>8. CallerInv'
  BY <1>3, <1>6, <1>7 DEF CallerInv
<1> QED BY <1>3, <1>5, <1>6, <1>8 DEF Step

\* An entry of the transaction at hand is published.
LEMMA ReplaceEffect ==
  ASSUME Inv, pc = "publish", NEW f \in File, Replace(f),
         UNCHANGED <<image, last, tx, cur, torn>>
  PROVE  /\ files' \in Contents /\ staged' \in [Tx -> SUBSET File]
         /\ backup' = backup /\ had' = had /\ journal' = journal
         /\ \A g \in File : g # f => files'[g] = files[g]
         /\ \A g \in File : g # f /\ g \in staged[cur] => g \in staged'[cur]
         /\ Sound => DiskContent' /\ files'[f] = image[cur][f]
<1> PICK c \in Tx : c = cur
  BY AtHand DEF Inv
<1>1. /\ c = cur /\ cur \in Tx /\ Pending(cur) /\ last < cur /\ last <= tx
      /\ image[cur] \in [File -> Content] /\ journal[cur] = "prepared"
  BY AtHand DEF Inv, Base, StepInv
<1>2. /\ files \in [File -> Content] /\ staged \in [Tx -> SUBSET File]
      /\ backup' = backup /\ had' = had /\ journal' = journal
  BY DEF Inv, Base, TypeOK, Replace, Contents
<1> DEFINE e == IF f \in staged[cur] \/ image[cur][f] = Absent
                THEN image[cur][f] ELSE files[f]
<1>3. files' = [files EXCEPT ![f] = e] /\ e \in Content
  <2>1. files' = [files EXCEPT ![f] = e]
    BY Zenon DEF Replace
  <2>2. e \in Content
    BY <1>1, <1>2
  <2> QED BY <2>1, <2>2
<1>4. e = image[cur][f] \/ (e = files[f] /\ f \notin staged[cur] /\ image[cur][f] # Absent)
  OBVIOUS
<1> HIDE DEF e
<1>5. /\ files' \in [File -> Content] /\ files'[f] = e
      /\ \A g \in File : g # f => files'[g] = files[g]
  BY <1>2, <1>3
<1>6. /\ staged' \in [Tx -> SUBSET File]
      /\ \A g \in File : g # f /\ g \in staged[cur] => g \in staged'[cur]
  BY <1>1, <1>2 DEF Replace
<1>7. ASSUME Sound PROVE DiskContent' /\ files'[f] = image[cur][f]
  <2>1. torn = {} /\ TxContent(cur)
    BY <1>7, InHand DEF Sound
  <2>2. Completable(cur)
    BY <1>1, <2>1 DEF TxContent
  <2>3. files'[f] = image[cur][f]
    BY <1>4, <1>5, <2>2 DEF Completable
  <2>4. Completable(c)'
    BY <1>1, <1>5, <1>6, <2>2, <2>3 DEF Completable
  <2>5. TxContent(c)'
    BY <1>1, <1>2, <2>4 DEF TxContent, Unreported
  <2>6. \A t \in Tx : t # c => ~Pending(t)'
    BY <1>1, <1>2, Others DEF Inv
  <2>7. Pending(c)'
    BY <1>1, <1>2 DEF Pending, Open
  <2>8. DiskContent'
    BY <2>5, <2>6, <2>7, ContentNext
  <2> QED BY <2>3, <2>8
<1> QED BY <1>2, <1>5, <1>6, <1>7 DEF Contents

LEMMA PublishStep ==
  ASSUME Inv, NEW f \in File, Publish(f), caller' = caller
  PROVE  Inv'
<1>1. /\ UNCHANGED <<image, mem, mode, cur, tx, last, torn>> /\ pc = "publish" /\ f \in todo
      /\ \/ Replace(f) /\ todo' = todo \ {f} /\ UNCHANGED <<pc, bounds>>
         \/ ~Publishable(f) /\ Raise /\ UNCHANGED <<disk, todo, bounds>>
         \/ Fault /\ (Replace(f) \/ UNCHANGED disk) /\ Raise /\ UNCHANGED todo
  BY DEF Publish
<1>2. /\ cur \in Tx /\ journal[cur] = "prepared"
      /\ image[cur] \in [File -> Content]
      /\ mode = "commit" => \A g \in todo : g \in staged[cur] \/ image[cur][g] = Absent
      /\ mode = "write" => tx < MaxTx
  BY <1>1, AtHand DEF Inv, Base, StepInv
<1>3. Sound' => Sound
  <2>1. Raise => pc' # "discard"
    BY DEF Raise, Inv, Base, TypeOK, Mode
  <2>2. UNCHANGED pc => pc' # "discard"
    BY <1>1
  <2>3. torn' = torn /\ pc' # "discard"
    BY <1>1, <2>1, <2>2
  <2> QED BY <2>3, StillSound
<1>4. CASE Replace(f) /\ todo' = todo \ {f} /\ UNCHANGED <<pc, bounds>>
  <2>1. /\ files' \in Contents /\ staged' \in [Tx -> SUBSET File]
        /\ backup' = backup /\ had' = had /\ journal' = journal
        /\ \A g \in File : g # f => files'[g] = files[g]
        /\ \A g \in File : g # f /\ g \in staged[cur] => g \in staged'[cur]
        /\ Sound => DiskContent' /\ files'[f] = image[cur][f]
    BY <1>1, <1>4, ReplaceEffect
  <2>2. TypeOK'
    BY <1>1, <1>4, <2>1 DEF Inv, Base, TypeOK, bounds
  <2>3. OrderInv'
    BY <1>1, <2>1, SameOrder DEF Inv, Base
  <2>4. mode = "commit" => \A g \in todo' : g \in staged'[cur] \/ image'[cur][g] = Absent
    <3>1. todo \subseteq File
      BY DEF Inv, Base, TypeOK
    <3> QED BY <1>1, <1>2, <1>4, <2>1, <3>1
  <2>5. StepInv'
    BY <1>1, <1>2, <1>4, <2>1, <2>4 DEF StepInv
  <2>6. CallerInv'
    BY <1>1, <1>4 DEF Inv, Base, CallerInv, Careful, Shaken, bounds
  <2>7. ASSUME Sound' PROVE Contentful'
    <3>1. DiskContent' /\ files'[f] = image[cur][f] /\ StepContent
      BY <1>1, <1>3, <2>1, <2>7, InHand
    <3>2. \A g \in File \ todo' : files'[g] = image'[cur'][g]
      BY <1>1, <1>4, <2>1, <3>1 DEF StepContent
    <3>3. mode = "commit" => Saved(cur)'
      BY <1>1, <2>1, <3>1 DEF StepContent, Saved
    <3> QED BY <1>1, <1>4, <3>1, <3>2, <3>3 DEF Contentful, StepContent
  <2> QED BY <2>2, <2>3, <2>5, <2>6, <2>7 DEF Inv, Base
<1>5. CASE Fault /\ (Replace(f) \/ UNCHANGED disk) /\ Raise /\ UNCHANGED todo
  <2>1. /\ files' \in Contents /\ staged' \in [Tx -> SUBSET File]
        /\ backup' = backup /\ had' = had /\ journal' = journal
        /\ Sound => DiskContent'
    <3>1. CASE Replace(f)
      BY <1>1, <3>1, ReplaceEffect
    <3>2. CASE UNCHANGED disk
      BY <1>1, <3>2, SameContent, InHand DEF Inv, Base, TypeOK, disk
    <3> QED BY <1>5, <3>1, <3>2
  <2>2. /\ StepInv' /\ CallerInv' /\ pc' \in Step
        /\ faults' \in 0..MaxFaults[caller'] /\ crashes' \in 0..MaxCrashes
        /\ pc' = "rollback" => mode = "commit"
        /\ pc' \in {"rollback", "down", "ready"}
    BY <1>1, <1>2, <1>5, <2>1, RaiseEffect
  <2>3. TypeOK'
    BY <1>1, <1>5, <2>1, <2>2 DEF Inv, Base, TypeOK
  <2>4. OrderInv'
    BY <1>1, <2>1, SameOrder DEF Inv, Base
  <2>5. ASSUME Sound' PROVE Contentful'
    <3>1. DiskContent' /\ StepContent
      BY <1>1, <1>3, <2>1, <2>5, InHand
    <3>2. pc' = "rollback" => Saved(cur)'
      BY <1>1, <2>1, <2>2, <3>1 DEF StepContent, Saved
    <3> QED BY <1>1, <2>2, <3>1, <3>2 DEF Contentful, StepContent
  <2> QED BY <2>2, <2>3, <2>4, <2>5 DEF Inv, Base
<1>6. CASE ~Publishable(f) /\ Raise /\ UNCHANGED <<disk, todo, bounds>>
  <2>1. mode # "commit" /\ mode \in Mode
    BY <1>1, <1>2, <1>6 DEF Publishable, Inv, Base, TypeOK
  <2>2. \/ mode = "start" /\ pc' = "down"
        \/ mode \in {"write", "refresh"} /\ pc' = "ready"
    BY <1>6, <2>1 DEF Raise, Mode
  <2>3. TypeOK'
    BY <1>1, <1>6, <2>2 DEF Inv, Base, TypeOK, disk, bounds, Step
  <2>4. OrderInv'
    BY <1>1, <1>6, SameOrder DEF Inv, Base, disk
  <2>5. StepInv'
    BY <1>1, <2>2 DEF StepInv
  <2>6. CallerInv'
    BY <1>1, <1>6, <2>2 DEF Inv, Base, CallerInv, Careful, Shaken, bounds
  <2>7. ASSUME Sound' PROVE Contentful'
    <3>1. DiskContent'
      BY <1>1, <1>3, <1>6, <2>7, SameContent, InHand
    <3> QED BY <2>2, <3>1 DEF Contentful, StepContent
  <2> QED BY <2>3, <2>4, <2>5, <2>6, <2>7 DEF Inv, Base
<1> QED BY <1>1, <1>4, <1>5, <1>6

\* A journal that says less or more of the transaction at hand.
LEMMA Marked ==
  ASSUME Inv, pc \in {"publish", "rollback"}, NEW s \in {"committed", "rolling_back"},
         s = "committed" => pc = "publish" /\ todo = {},
         s = "rolling_back" => pc = "rollback",
         journal' = [journal EXCEPT ![cur] = s],
         UNCHANGED <<files, staged, backup, had, image, cur, tx, torn>>,
         last' = last \/ (last' = cur /\ s = "committed")
  PROVE  /\ OrderInv' /\ journal' \in [Tx -> JournalState] /\ journal'[cur] = s
         /\ \A t \in Tx : t # cur => ~Pending(t)'
         /\ Sound => DiskContent'
<1> PICK c \in Tx : c = cur
  BY AtHand DEF Inv
<1>1. /\ c = cur /\ Pending(c) /\ last < c /\ last <= tx /\ c <= tx /\ torn' = torn
  BY AtHand DEF Inv
<1>2. /\ journal' \in [Tx -> JournalState] /\ journal'[c] = s
      /\ \A t \in Tx : t # c => journal'[t] = journal[t]
  <2>1. TypeOK /\ s \in JournalState /\ journal' = [journal EXCEPT ![c] = s]
    BY <1>1 DEF Inv, Base, JournalState
  <2> QED BY <2>1, JournalEffect
<1>3. \A t \in Tx : t # c => ~Pending(t)' /\ Ordered(t)'
  BY <1>1, <1>2, Others DEF Inv
<1>4. last' <= tx' /\ Ordered(c)' /\ \A t \in torn' : t <= tx'
  BY <1>1, <1>2 DEF Ordered, Open, Inv, Base, OrderInv
<1>5. OrderInv'
  BY <1>3, <1>4, OrderNext
<1>6. ASSUME Sound PROVE DiskContent'
  <2>1. StepContent
    BY <1>6, InHand
  <2>2. CASE s = "committed"
    <3>1. \A f \in File : files[f] = image[c][f]
      BY <1>1, <2>1, <2>2 DEF StepContent
    <3>2. TxContent(c)'
      BY <1>2, <2>2, <3>1 DEF TxContent
    <3>3. Pending(c)' \/ \A f \in File : files'[f] = image'[last'][f]
      BY <1>1, <1>2, <2>2, <3>1 DEF Pending, Unreported
    <3> QED BY <1>3, <3>2, <3>3, ContentNext
  <2>3. CASE s = "rolling_back"
    <3>1. Saved(c)
      BY <1>1, <2>1, <2>3 DEF StepContent
    <3>2. last' = last
      BY <2>3
    <3>3. Withdrawable(c)'
      BY <3>1, <3>2 DEF Saved, Withdrawable
    <3>4. TxContent(c)' /\ Pending(c)'
      BY <1>2, <2>3, <3>3 DEF TxContent, Unreported, Pending, Open
    <3> QED BY <1>3, <3>4, ContentNext
  <2> QED BY <2>2, <2>3
<1> QED BY <1>1, <1>2, <1>3, <1>5, <1>6

LEMMA CommitStep ==
  ASSUME Inv, Commit, caller' = caller
  PROVE  Inv'
<1>1. /\ UNCHANGED <<files, staged, backup, had, image, mode, cur, tx, torn>>
      /\ pc = "publish" /\ todo = {} /\ mem' \in {mem, image[cur]}
      /\ \/ /\ journal' = [journal EXCEPT ![cur] = "committed"]
            /\ last' = cur /\ pc' = "cleanup" /\ todo' = File /\ UNCHANGED bounds
         \/ /\ Fault /\ WriteFails("committed") /\ Raise /\ UNCHANGED <<todo, last>>
  BY DEF Commit
<1>2. /\ cur \in Tx /\ last < cur /\ journal[cur] = "prepared"
      /\ image[cur] \in Contents /\ cur \in 0..MaxTx /\ cur \in Nat
      /\ mode = "write" => tx < MaxTx
  BY <1>1, AtHand DEF Inv, Base, StepInv, Contents, Tx
<1>3. CASE /\ journal' = [journal EXCEPT ![cur] = "committed"]
           /\ last' = cur /\ pc' = "cleanup" /\ todo' = File /\ UNCHANGED bounds
  <2>1. /\ OrderInv' /\ journal' \in [Tx -> JournalState] /\ journal'[cur] = "committed"
        /\ \A t \in Tx : t # cur => ~Pending(t)'
        /\ Sound => DiskContent'
    BY <1>1, <1>3, Marked
  <2>2. TypeOK'
    BY <1>1, <1>2, <1>3, <2>1 DEF Inv, Base, TypeOK, bounds, Step
  <2>3. Settled'
    <3>1. ASSUME NEW t \in Tx, t = cur PROVE ~Pending(t)'
      BY <1>2, <1>3, <2>1, <3>1 DEF Pending, Open, Unreported, Tx
    <3> QED BY <2>1, <3>1 DEF Settled
  <2>4. StepInv'
    BY <1>1, <1>2, <1>3, <2>1, <2>3 DEF StepInv
  <2>5. CallerInv'
    BY <1>1, <1>3, <2>1 DEF Inv, Base, CallerInv, Careful, Shaken, bounds
  <2>6. ASSUME Sound' PROVE Contentful'
    <3>1. DiskContent'
      BY <1>1, <1>3, <2>1, <2>6, StillSound
    <3> QED BY <1>1, <1>3, <2>1, <3>1 DEF Contentful, StepContent
  <2> QED BY <2>1, <2>2, <2>4, <2>5, <2>6 DEF Inv, Base
<1>4. CASE Fault /\ WriteFails("committed") /\ Raise /\ UNCHANGED <<todo, last>>
  <2>1. /\ OrderInv' /\ journal' \in [Tx -> JournalState]
        /\ journal'[cur] \in {"prepared", "committed"}
        /\ Sound => DiskContent'
    <3>1. CASE journal' = journal
      <4>1. Sound => DiskContent'
        BY <1>1, <1>4, <3>1, SameContent, InHand DEF disk
      <4> QED BY <1>1, <1>2, <1>4, <3>1, <4>1, SameOrder DEF Inv, Base, TypeOK
    <3>2. CASE journal' = [journal EXCEPT ![cur] = "committed"]
      BY <1>1, <1>4, <3>2, Marked
    <3> QED BY <1>4, <3>1, <3>2 DEF WriteFails
  <2>2. /\ StepInv' /\ CallerInv' /\ pc' \in Step
        /\ faults' \in 0..MaxFaults[caller'] /\ crashes' \in 0..MaxCrashes
        /\ pc' = "rollback" => mode = "commit"
        /\ pc' \in {"rollback", "down", "ready"}
    BY <1>1, <1>4, <2>1, RaiseEffect
  <2>3. TypeOK'
    BY <1>1, <1>2, <1>4, <2>1, <2>2 DEF Inv, Base, TypeOK
  <2>4. ASSUME Sound' PROVE Contentful'
    <3>1. DiskContent' /\ StepContent
      BY <1>1, <2>1, <2>2, <2>4, StillSound, InHand
    <3>2. pc' = "rollback" => Saved(cur)'
      BY <1>1, <1>4, <2>2, <3>1 DEF StepContent, Saved
    <3> QED BY <1>1, <2>2, <3>1, <3>2 DEF Contentful, StepContent
  <2> QED BY <2>1, <2>2, <2>3, <2>4 DEF Inv, Base
<1> QED BY <1>1, <1>3, <1>4

LEMMA RollbackStep ==
  ASSUME Inv, Rollback, caller' = caller
  PROVE  Inv'
<1>1. /\ UNCHANGED <<files, staged, backup, had, image, mem, mode, cur, tx, last, torn>>
      /\ pc = "rollback"
      /\ \/ /\ journal' = [journal EXCEPT ![cur] = "rolling_back"]
            /\ pc' = "undo" /\ todo' = File /\ UNCHANGED bounds
         \/ /\ Fault /\ WriteFails("rolling_back") /\ pc' = "ready" /\ UNCHANGED todo
  BY DEF Rollback
<1>2. cur \in Tx /\ mode = "commit"
  BY <1>1 DEF Inv, Base, StepInv
<1>3. CASE /\ journal' = [journal EXCEPT ![cur] = "rolling_back"]
           /\ pc' = "undo" /\ todo' = File /\ UNCHANGED bounds
  <2>1. /\ OrderInv' /\ journal' \in [Tx -> JournalState] /\ journal'[cur] = "rolling_back"
        /\ Sound => DiskContent'
    BY <1>1, <1>3, Marked
  <2>2. TypeOK'
    BY <1>1, <1>3, <2>1 DEF Inv, Base, TypeOK, bounds, Step
  <2>3. StepInv'
    BY <1>1, <1>2, <1>3, <2>1 DEF StepInv
  <2>4. CallerInv'
    BY <1>1, <1>2, <1>3 DEF Inv, Base, CallerInv, Careful, Shaken, bounds
  <2>5. ASSUME Sound' PROVE Contentful'
    BY <1>1, <1>3, <2>1, <2>5, StillSound DEF Contentful, StepContent
  <2> QED BY <2>1, <2>2, <2>3, <2>4, <2>5 DEF Inv, Base
<1>4. CASE Fault /\ WriteFails("rolling_back") /\ pc' = "ready" /\ UNCHANGED todo
  <2>1. OrderInv' /\ journal' \in [Tx -> JournalState] /\ (Sound => DiskContent')
    <3>1. CASE journal' = journal
      <4>1. Sound => DiskContent'
        BY <1>1, <3>1, SameContent, InHand DEF disk
      <4> QED BY <1>1, <3>1, <4>1, SameOrder DEF Inv, Base, TypeOK
    <3>2. CASE journal' = [journal EXCEPT ![cur] = "rolling_back"]
      BY <1>1, <3>2, Marked
    <3> QED BY <1>4, <3>1, <3>2 DEF WriteFails
  <2>2. /\ faults' \in 0..MaxFaults[caller'] /\ crashes' \in 0..MaxCrashes /\ Careful'
        /\ caller = "registry" => faults = 0
    BY <1>4, FaultEffect DEF Inv, Base
  <2>3. TypeOK'
    BY <1>1, <1>4, <2>1, <2>2 DEF Inv, Base, TypeOK, Step
  <2>4. StepInv'
    BY <1>1, <1>2, <1>4 DEF StepInv
  <2>5. caller # "registry"
    BY <1>1, <2>2 DEF Inv, Base, CallerInv, Shaken
  <2>6. CallerInv'
    BY <2>2, <2>5 DEF CallerInv
  <2>7. ASSUME Sound' PROVE Contentful'
    BY <1>1, <1>4, <2>1, <2>7, StillSound DEF Contentful, StepContent
  <2> QED BY <2>1, <2>3, <2>4, <2>6, <2>7 DEF Inv, Base
<1> QED BY <1>1, <1>3, <1>4

\* An entry of the transaction at hand is rolled back.
LEMMA RestoreEffect ==
  ASSUME Inv, pc = "undo", NEW f \in File, Restore(f),
         UNCHANGED <<staged, had, journal, image, last, tx, cur, torn>>
  PROVE  /\ files' \in Contents /\ backup' \in [Tx -> Contents]
         /\ backup'[cur][f] = Absent
         /\ \A g \in File : g # f => files'[g] = files[g] /\ backup'[cur][g] = backup[cur][g]
         /\ Sound => DiskContent' /\ files'[f] = image[last][f]
<1> PICK c \in Tx : c = cur
  BY AtHand DEF Inv
<1>1. /\ c = cur /\ cur \in Tx /\ Pending(cur) /\ last < cur /\ last <= tx
      /\ image[last] \in [File -> Content] /\ journal[cur] = "rolling_back"
  BY AtHand DEF Inv, Base, StepInv
<1>2. /\ files \in [File -> Content] /\ backup \in [Tx -> [File -> Content]]
      /\ Absent \in Content
  BY DEF Inv, Base, TypeOK, Contents, Content
<1> DEFINE b == [backup[cur] EXCEPT ![f] = Absent]
<1>3. backup' = [backup EXCEPT ![cur] = b]
  BY Zenon DEF Restore
<1>4. /\ b \in [File -> Content] /\ b[f] = Absent
      /\ \A g \in File : g # f => b[g] = backup[cur][g]
  BY <1>1, <1>2
<1> HIDE DEF b
<1>5. /\ backup' \in [Tx -> [File -> Content]] /\ backup'[cur] = b
  BY <1>1, <1>2, <1>3, <1>4
<1> DEFINE e == IF f \notin had[cur] THEN Absent
                ELSE IF backup[cur][f] # Absent THEN backup[cur][f] ELSE files[f]
<1>6. files' = [files EXCEPT ![f] = e]
  BY Zenon DEF Restore
<1>7. e \in Content
  BY <1>1, <1>2
<1>8. ASSUME Sound PROVE e = image[last][f] /\ Withdrawable(cur)
  <2>1. Withdrawable(cur)
    BY <1>1, <1>8, InHand DEF TxContent
  <2> QED BY <2>1 DEF Withdrawable
<1> HIDE DEF e
<1>9. /\ files' \in [File -> Content] /\ files'[f] = e
      /\ \A g \in File : g # f => files'[g] = files[g]
  BY <1>2, <1>6, <1>7
<1>10. ASSUME Sound PROVE DiskContent' /\ files'[f] = image[last][f]
  <2>1. Withdrawable(c)'
    BY <1>1, <1>4, <1>5, <1>8, <1>9, <1>10 DEF Withdrawable
  <2>2. TxContent(c)'
    BY <1>1, <2>1 DEF TxContent, Unreported
  <2>3. \A t \in Tx : t # c => ~Pending(t)'
    BY <1>1, Others DEF Inv
  <2>4. Pending(c)'
    BY <1>1 DEF Pending, Open
  <2> QED BY <1>8, <1>9, <1>10, <2>2, <2>3, <2>4, ContentNext
<1> QED BY <1>1, <1>4, <1>5, <1>9, <1>10 DEF Contents

\* A rollback that is marked goes on, or gives up.
LEMMA GiveUpEffect ==
  ASSUME Inv, GiveUp, Fault, pc \in {"undo", "cleanup", "discard"},
         UNCHANGED <<caller, mode>>,
         caller = "registry" /\ mode = "commit" => Settled'
  PROVE  /\ StepInv' /\ CallerInv' /\ pc' \in {"down", "ready"}
         /\ faults' \in 0..MaxFaults[caller'] /\ crashes' \in 0..MaxCrashes
<1>1. pc' = IF mode = "start" THEN "down" ELSE "ready"
  BY DEF GiveUp
<1>2. /\ Careful' /\ faults' >= 1
      /\ caller = "registry" => faults = 0
      /\ faults' \in 0..MaxFaults[caller'] /\ crashes' \in 0..MaxCrashes
  BY FaultEffect DEF Inv, Base
<1>3. caller = "registry" => mode \in {"start", "commit"} /\ pc # "discard"
  BY <1>2 DEF Inv, Base, CallerInv, Shaken
<1>4. StepInv'
  BY <1>1 DEF StepInv
<1>5. CallerInv'
  BY <1>1, <1>2, <1>3 DEF CallerInv, Shaken
<1> QED BY <1>1, <1>2, <1>4, <1>5

LEMMA UndoStep ==
  ASSUME Inv, NEW f \in File, Undo(f), caller' = caller
  PROVE  Inv'
<1> DEFINE lost == f \in had[cur] /\ backup[cur][f] = Absent /\ files[f] = Absent
<1>1. /\ UNCHANGED <<staged, had, journal, image, mem, mode, cur, tx, last, torn>>
      /\ pc = "undo" /\ f \in todo
      /\ \/ Restore(f) /\ todo' = todo \ {f} /\ UNCHANGED <<pc, bounds>>
         \/ lost /\ GiveUp /\ UNCHANGED <<files, backup, todo, bounds>>
         \/ /\ Fault /\ (Restore(f) \/ UNCHANGED <<files, backup>>) /\ GiveUp
            /\ UNCHANGED todo
  BY DEF Undo
<1>2. /\ cur \in Tx /\ journal[cur] = "rolling_back"
      /\ image[last] \in [File -> Content] /\ (mode = "write" => tx < MaxTx)
  BY <1>1, AtHand DEF Inv, Base, StepInv
<1>3. Sound' => Sound
  <2>1. GiveUp => pc' # "discard"
    BY DEF GiveUp
  <2>2. torn' = torn /\ pc' # "discard"
    BY <1>1, <2>1
  <2> QED BY <2>2, StillSound
<1>4. lost => ~Sound
  <2>1. ASSUME Sound PROVE Withdrawable(cur)
    BY <1>1, <1>2, <2>1, InHand DEF TxContent
  <2> QED BY <2>1 DEF Withdrawable
<1> HIDE DEF lost
<1>5. CASE Restore(f) /\ todo' = todo \ {f} /\ UNCHANGED <<pc, bounds>>
  <2>1. /\ files' \in Contents /\ backup' \in [Tx -> Contents]
        /\ backup'[cur][f] = Absent
        /\ \A g \in File : g # f => files'[g] = files[g] /\ backup'[cur][g] = backup[cur][g]
        /\ Sound => DiskContent' /\ files'[f] = image[last][f]
    BY <1>1, <1>5, RestoreEffect
  <2>2. TypeOK'
    BY <1>1, <1>5, <2>1 DEF Inv, Base, TypeOK, bounds
  <2>3. OrderInv'
    BY <1>1, SameOrder DEF Inv, Base
  <2>4. StepInv'
    BY <1>1, <1>2, <1>5 DEF StepInv
  <2>5. CallerInv'
    BY <1>1, <1>5 DEF Inv, Base, CallerInv, Careful, Shaken, bounds
  <2>6. ASSUME Sound' PROVE Contentful'
    <3>1. DiskContent' /\ files'[f] = image[last][f] /\ StepContent
      BY <1>1, <1>3, <2>1, <2>6, InHand
    <3>2. \A g \in File \ todo' : files'[g] = image[last][g] /\ backup'[cur][g] = Absent
      BY <1>1, <1>5, <2>1, <3>1 DEF StepContent
    <3> QED BY <1>1, <1>5, <3>1, <3>2 DEF Contentful, StepContent
  <2> QED BY <2>2, <2>3, <2>4, <2>5, <2>6 DEF Inv, Base
<1>6. CASE /\ Fault /\ (Restore(f) \/ UNCHANGED <<files, backup>>) /\ GiveUp
           /\ UNCHANGED todo
  <2>1. files' \in Contents /\ backup' \in [Tx -> Contents] /\ (Sound => DiskContent')
    <3>1. CASE Restore(f)
      BY <1>1, <3>1, RestoreEffect
    <3>2. CASE UNCHANGED <<files, backup>>
      <4>1. Sound => DiskContent'
        BY <1>1, <3>2, SameContent, InHand DEF disk
      <4> QED BY <3>2, <4>1 DEF Inv, Base, TypeOK
    <3> QED BY <1>6, <3>1, <3>2
  <2>2. ~(caller = "registry" /\ mode = "commit")
    BY <1>1, <1>6, FaultEffect DEF Inv, Base, CallerInv, Shaken
  <2>3. /\ StepInv' /\ CallerInv' /\ pc' \in {"down", "ready"}
        /\ faults' \in 0..MaxFaults[caller'] /\ crashes' \in 0..MaxCrashes
    BY <1>1, <1>6, <2>2, GiveUpEffect
  <2>4. TypeOK'
    BY <1>1, <1>6, <2>1, <2>3 DEF Inv, Base, TypeOK, Step
  <2>5. OrderInv'
    BY <1>1, SameOrder DEF Inv, Base
  <2>6. ASSUME Sound' PROVE Contentful'
    BY <1>3, <2>1, <2>3, <2>6 DEF Contentful, StepContent
  <2> QED BY <2>3, <2>4, <2>5, <2>6 DEF Inv, Base
<1>7. CASE lost /\ GiveUp /\ UNCHANGED <<files, backup, todo, bounds>>
  <2>1. ~Sound /\ ~Sound' /\ torn # {}
    BY <1>3, <1>4, <1>7 DEF Sound
  <2>2. pc' = IF mode = "start" THEN "down" ELSE "ready"
    BY <1>7 DEF GiveUp
  <2>3. ~(caller = "registry" /\ mode = "commit")
    BY <1>1, <2>1 DEF Inv, Base, CallerInv, Shaken
  <2>4. caller = "registry" => mode = "start"
    BY <1>1, <2>3 DEF Inv, Base, CallerInv
  <2>5. TypeOK'
    BY <1>1, <1>7, <2>2 DEF Inv, Base, TypeOK, bounds, Step
  <2>6. OrderInv'
    BY <1>1, SameOrder DEF Inv, Base
  <2>7. StepInv'
    BY <1>1, <2>2 DEF StepInv
  <2>8. CallerInv'
    BY <1>1, <1>7, <2>2, <2>4 DEF Inv, Base, CallerInv, Careful, Shaken, bounds
  <2> QED BY <2>1, <2>5, <2>6, <2>7, <2>8 DEF Inv, Base
<1> QED BY <1>1, <1>5, <1>6, <1>7

LEMMA UndoneStep ==
  ASSUME Inv, Undone, caller' = caller
  PROVE  Inv'
<1>1. /\ UNCHANGED <<disk, image, mem, mode, cur, tx, last, torn, bounds>>
      /\ pc = "undo" /\ todo = {} /\ pc' = "cleanup" /\ todo' = File
  BY DEF Undone
<1>2. cur \in Tx /\ journal[cur] = "rolling_back" /\ (mode = "write" => tx < MaxTx)
  BY <1>1 DEF Inv, Base, StepInv
<1>3. TypeOK'
  BY <1>1 DEF Inv, Base, TypeOK, disk, bounds, Step
<1>4. OrderInv'
  BY <1>1, SameOrder DEF Inv, Base, disk
<1>5. StepInv'
  BY <1>1, <1>2 DEF StepInv, disk
<1>6. CallerInv'
  BY <1>1 DEF Inv, Base, CallerInv, Careful, Shaken, bounds
<1>7. ASSUME Sound' PROVE Contentful'
  <2>1. Sound
    BY <1>1, <1>7, StillSound
  <2>2. DiskContent' /\ StepContent
    BY <1>1, <2>1, SameContent, InHand
  <2> QED BY <1>1, <2>2 DEF Contentful, StepContent, disk
<1> QED BY <1>3, <1>4, <1>5, <1>6, <1>7 DEF Inv, Base

-----------------------------------------------------------------------------
(* Cleaning up, after a commit, a rollback or a write that is discarded    *)

\* A cleanup of one entry touches what is left of one transaction only.
LEMMA CleanEffect ==
  ASSUME Inv, NEW f \in File, Clean(f), caller' = caller
  PROVE  /\ cur \in Tx /\ pc \in {"cleanup", "discard"}
         /\ UNCHANGED <<files, had, journal, image, mem, mode, cur, tx, last>>
         /\ staged' \in [Tx -> SUBSET File] /\ backup' \in [Tx -> Contents]
         /\ \A t \in Tx : t # cur => staged'[t] = staged[t] /\ backup'[t] = backup[t]
         /\ \A g \in File : backup'[cur][g] \in {Absent, backup[cur][g]}
         /\ torn' \in {torn, torn \cup {cur}} /\ (pc = "cleanup" => torn' = torn)
         /\ pc = "discard" /\ cur \notin torn' => staged' = staged
         /\ todo' \subseteq File
         /\ \/ UNCHANGED <<pc, bounds>>
            \/ Fault /\ GiveUp
<1>1. /\ pc \in {"cleanup", "discard"}
      /\ UNCHANGED <<files, had, journal, image, mem, mode, cur, tx, last>>
      /\ staged' \in {staged, [staged EXCEPT ![cur] = @ \ {f}]}
      /\ backup' \in {backup, [backup EXCEPT ![cur][f] = Absent]}
      /\ torn' = IF pc = "discard" /\ staged' # staged THEN torn \cup {cur} ELSE torn
      /\ todo' \in {todo, todo \ {f}}
      /\ (UNCHANGED <<pc, bounds>> \/ (Fault /\ GiveUp))
  BY Zenon DEF Clean
<1>2. cur \in Tx
  BY <1>1 DEF Inv, Base, StepInv
<1>3. /\ staged \in [Tx -> SUBSET File] /\ backup \in [Tx -> [File -> Content]]
      /\ Absent \in Content /\ todo \subseteq File
  BY DEF Inv, Base, TypeOK, Contents, Content
<1>4. /\ staged' \in [Tx -> SUBSET File]
      /\ \A t \in Tx : t # cur => staged'[t] = staged[t]
  BY <1>1, <1>2, <1>3
<1> DEFINE b == [backup[cur] EXCEPT ![f] = Absent]
<1>5. backup' = backup \/ backup' = [backup EXCEPT ![cur] = b]
  BY <1>1, Zenon
<1>6. b \in [File -> Content] /\ \A g \in File : b[g] \in {Absent, backup[cur][g]}
  BY <1>2, <1>3
<1> HIDE DEF b
<1>7. /\ backup' \in [Tx -> [File -> Content]]
      /\ \A t \in Tx : t # cur => backup'[t] = backup[t]
      /\ \A g \in File : backup'[cur][g] \in {Absent, backup[cur][g]}
  BY <1>2, <1>3, <1>5, <1>6
<1>8. /\ torn' \in {torn, torn \cup {cur}} /\ (pc = "cleanup" => torn' = torn)
      /\ pc = "discard" /\ cur \notin torn' => staged' = staged
  BY <1>1
<1>9. todo' \subseteq File
  BY <1>1, <1>3
<1> QED BY <1>1, <1>2, <1>4, <1>7, <1>8, <1>9 DEF Contents

\* What is left of a transaction whose commit is known, or that is withdrawn,
\* is not needed.
LEMMA CleanContent ==
  ASSUME Inv, NEW f \in File, Clean(f), caller' = caller, Sound
  PROVE  DiskContent'
<1> PICK c \in Tx : c = cur
  BY CleanEffect
<1>1. /\ c = cur /\ UNCHANGED <<files, had, journal, image, tx, last>>
      /\ pc \in {"cleanup", "discard"}
      /\ \A t \in Tx : t # c => staged'[t] = staged[t] /\ backup'[t] = backup[t]
      /\ \A g \in File : backup'[c][g] \in {Absent, backup[c][g]}
      /\ torn' \in {torn, torn \cup {c}}
      /\ (pc = "cleanup" => torn' = torn)
      /\ pc = "discard" /\ c \notin torn' => staged' = staged
  BY CleanEffect
<1>2. DiskContent /\ StepContent
  BY DEF Inv, Contentful
<1>3. Settled' <=> Settled
  BY <1>1 DEF Settled, Pending, Open, Unreported
<1>4. ASSUME NEW t \in Tx, t # c PROVE TxContent(t)'
  <2>1. TxContent(t)
    BY <1>2 DEF DiskContent
  <2>2. t \in torn' <=> t \in torn
    BY <1>1, <1>4
  <2> QED BY <1>1, <1>4, <2>1, <2>2 DEF TxContent, Completable, Withdrawable, Unreported
<1>5. TxContent(c)'
  <2>1. TxContent(c)
    BY <1>2 DEF DiskContent
  <2>2. ASSUME journal'[c] = "prepared", c \notin torn' PROVE Completable(c)'
    <3>1. pc = "discard"
      BY <1>1, <2>2 DEF Inv, Base, StepInv
    <3>2. c \notin torn /\ staged' = staged
      BY <1>1, <2>2, <3>1
    <3> QED BY <1>1, <2>1, <2>2, <3>2 DEF TxContent, Completable
  <2>3. ASSUME journal'[c] = "rolling_back" PROVE Withdrawable(c)'
    <3>1. pc = "cleanup"
      BY <1>1, <2>3 DEF Inv, Base, StepInv
    <3>2. \A g \in File : files[g] = image[last][g]
      BY <1>1, <1>2, <2>3, <3>1 DEF StepContent
    <3>3. Withdrawable(c)
      BY <1>1, <2>1, <2>3 DEF TxContent
    <3>4. \A g \in File : /\ g \in had'[c] <=> image'[last'][g] # Absent
                          /\ backup'[c][g] \in {Absent, image'[last'][g]}
                          /\ files'[g] = image'[last'][g]
      BY <1>1, <3>2, <3>3 DEF Withdrawable
    <3> QED BY <3>4 DEF Withdrawable
  <2>4. Unreported(c)' => \A g \in File : files'[g] = image'[c][g]
    BY <1>1, <2>1 DEF TxContent, Unreported
  <2> QED BY <2>2, <2>3, <2>4 DEF TxContent
<1> QED BY <1>1, <1>2, <1>3, <1>4, <1>5 DEF DiskContent

LEMMA CleanStep ==
  ASSUME Inv, NEW f \in File, Clean(f), caller' = caller
  PROVE  Inv'
<1>1. /\ cur \in Tx /\ pc \in {"cleanup", "discard"}
      /\ UNCHANGED <<files, had, journal, image, mem, mode, cur, tx, last>>
      /\ staged' \in [Tx -> SUBSET File] /\ backup' \in [Tx -> Contents]
      /\ torn' \in {torn, torn \cup {cur}} /\ (pc = "cleanup" => torn' = torn)
      /\ pc = "discard" /\ cur \notin torn' => staged' = staged
      /\ todo' \subseteq File
      /\ \/ UNCHANGED <<pc, bounds>>
         \/ Fault /\ GiveUp
  BY CleanEffect
<1>2. torn' \subseteq Tx /\ \A t \in torn' : t <= tx
  <2>1. pc = "discard" => cur <= tx
    BY AtHand DEF Inv
  <2> QED BY <1>1, <2>1 DEF Inv, Base, TypeOK, OrderInv
<1>3. OrderInv' /\ (Settled' <=> Settled)
  BY <1>1, <1>2 DEF Inv, Base, OrderInv, Ordered, Settled, Pending, Open, Unreported
<1>4. ASSUME Sound' PROVE Sound
  <2>1. CASE UNCHANGED <<pc, bounds>>
    BY <1>1, <1>4, <2>1 DEF Sound
  <2>2. CASE Fault /\ GiveUp
    <3>1. pc' # "discard"
      BY <2>2 DEF GiveUp
    <3>2. torn' = {}
      BY <1>4, <3>1 DEF Sound
    <3>3. torn = {}
      BY <1>1, <3>2
    <3> QED BY <3>3 DEF Sound
  <2> QED BY <1>1, <2>1, <2>2
<1>5. CASE UNCHANGED <<pc, bounds>>
  <2>1. TypeOK'
    BY <1>1, <1>2, <1>5 DEF Inv, Base, TypeOK, bounds
  <2>2. StepInv'
    BY <1>1, <1>3, <1>5 DEF Inv, Base, StepInv
  <2>3. CallerInv'
    <3>1. Shaken' <=> Shaken
      BY <1>1, <1>5 DEF Shaken
    <3>2. pc = "discard" => Shaken
      BY DEF Shaken
    <3> QED BY <1>1, <1>5, <3>1, <3>2 DEF Inv, Base, CallerInv, Careful, bounds
  <2>4. ASSUME Sound' PROVE Contentful'
    <3>1. DiskContent' /\ StepContent
      BY <1>4, <2>4, CleanContent DEF Inv, Contentful
    <3> QED BY <1>1, <1>5, <3>1 DEF Contentful, StepContent
  <2> QED BY <1>3, <2>1, <2>2, <2>3, <2>4 DEF Inv, Base
<1>6. CASE Fault /\ GiveUp
  <2>1. caller = "registry" /\ mode = "commit" => Settled'
    BY <1>1, <1>3, <1>6, FaultEffect DEF Inv, Base, CallerInv, Shaken, StepInv
  <2>2. /\ StepInv' /\ CallerInv' /\ pc' \in {"down", "ready"}
        /\ faults' \in 0..MaxFaults[caller'] /\ crashes' \in 0..MaxCrashes
    BY <1>1, <1>6, <2>1, GiveUpEffect
  <2>3. TypeOK'
    BY <1>1, <1>2, <2>2 DEF Inv, Base, TypeOK, Step
  <2>4. ASSUME Sound' PROVE Contentful'
    BY <1>4, <2>2, <2>4, CleanContent DEF Contentful, StepContent
  <2> QED BY <1>3, <2>2, <2>3, <2>4 DEF Inv, Base
<1> QED BY <1>1, <1>5, <1>6

\* The journal of the transaction at hand is removed, or is left as it was.
LEMMA CloseEffect ==
  ASSUME Inv, Close, caller' = caller
  PROVE  /\ cur \in Tx /\ pc \in {"cleanup", "discard"}
         /\ UNCHANGED <<files, staged, backup, had, image, mem, mode, cur, todo, tx, last>>
         /\ journal' \in [Tx -> JournalState] /\ journal'[cur] \in {"none", journal[cur]}
         /\ \A t \in Tx : t # cur => journal'[t] = journal[t]
         /\ torn' \in {torn, torn \ {cur}} /\ (pc = "cleanup" => torn' = torn)
         /\ torn' # torn => journal'[cur] = "none"
         /\ pc = "discard" /\ journal'[cur] = "none" => torn' = torn \ {cur}
         /\ \/ /\ UNCHANGED bounds /\ journal'[cur] = "none"
               /\ pc' = IF mode = "commit" THEN "ready" ELSE "scan"
            \/ Fault /\ GiveUp
<1>1. /\ pc \in {"cleanup", "discard"}
      /\ UNCHANGED <<files, staged, backup, had, image, mem, mode, cur, todo, tx, last>>
      /\ journal' \in {journal, [journal EXCEPT ![cur] = "none"]}
      /\ torn' = IF pc = "discard" /\ journal'[cur] = "none" THEN torn \ {cur} ELSE torn
      /\ \/ /\ UNCHANGED bounds /\ journal' = [journal EXCEPT ![cur] = "none"]
            /\ pc' = IF mode = "commit" THEN "ready" ELSE "scan"
         \/ Fault /\ GiveUp
  BY DEF Close, WriteFails
<1>2. cur \in Tx
  BY <1>1 DEF Inv, Base, StepInv
<1>3. /\ journal \in [Tx -> JournalState] /\ "none" \in JournalState
  BY DEF Inv, Base, TypeOK, JournalState
<1>4. /\ journal' \in [Tx -> JournalState]
      /\ \A t \in Tx : t # cur => journal'[t] = journal[t]
      /\ journal'[cur] \in {"none", journal[cur]}
      /\ journal' = [journal EXCEPT ![cur] = "none"] => journal'[cur] = "none"
  BY <1>1, <1>2, <1>3
<1>5. /\ torn' \in {torn, torn \ {cur}} /\ (pc = "cleanup" => torn' = torn)
      /\ torn' # torn => journal'[cur] = "none"
      /\ pc = "discard" /\ journal'[cur] = "none" => torn' = torn \ {cur}
  BY <1>1
<1> QED BY <1>1, <1>2, <1>4, <1>5

\* The end of a discard, of a rollback, or of a cleanup that is late.
LEMMA CloseOrder ==
  ASSUME Inv, Close, caller' = caller
  PROVE  /\ OrderInv'
         /\ \A t \in Tx : t # cur => (Pending(t)' <=> Pending(t))
         /\ Pending(cur)' => Pending(cur)
         /\ journal'[cur] = "none" => ~Pending(cur)'
         /\ Settled => Settled'
<1>1. /\ cur \in Tx
      /\ UNCHANGED <<tx, last, cur>> /\ journal'[cur] \in {"none", journal[cur]}
      /\ \A t \in Tx : t # cur => journal'[t] = journal[t]
      /\ torn' \in {torn, torn \ {cur}}
  BY CloseEffect
<1>2. \A t \in Tx : t # cur => (Pending(t)' <=> Pending(t)) /\ Ordered(t)'
  BY <1>1 DEF Inv, Base, OrderInv, Ordered, Pending, Open, Unreported
<1>3. journal'[cur] = "none" => ~Pending(cur)'
  BY <1>1 DEF Pending, Open, Unreported
<1>4. (Pending(cur)' => Pending(cur))
  BY <1>1 DEF Pending, Open, Unreported
<1>5. (journal'[cur] # "none" => cur <= tx') /\ (journal'[cur] \in {"prepared", "rolling_back"} => last' < cur)
  BY <1>1 DEF Inv, Base, OrderInv, Ordered, Open
<1>6. \A t \in Tx : Ordered(t)'
  <2> SUFFICES ASSUME NEW t \in Tx PROVE Ordered(t)'
    OBVIOUS
  <2>1. CASE t = cur
    BY <1>1, <1>5, <2>1 DEF Ordered, Open
  <2> QED BY <1>2, <2>1
<1>7. Settled => Settled'
  <2> SUFFICES ASSUME Settled, NEW t \in Tx PROVE ~Pending(t)'
    BY DEF Settled
  <2>1. CASE t = cur
    <3>1. ~Pending(cur)
      BY <1>1 DEF Settled
    <3> QED BY <1>1, <1>4, <2>1, <3>1 DEF Pending, Open, Unreported
  <2> QED BY <1>2, <2>1 DEF Settled
<1>8. \A s, t \in Tx : Pending(s)' /\ Pending(t)' => s = t
  <2> SUFFICES ASSUME NEW s \in Tx, NEW t \in Tx, Pending(s)', Pending(t)' PROVE s = t
    OBVIOUS
  <2>1. ASSUME NEW u \in Tx, Pending(u)' PROVE Pending(u)
    <3>1. CASE u = cur
      BY <1>1, <2>1, <3>1 DEF Pending, Open, Unreported
    <3> QED BY <1>2, <2>1, <3>1
  <2> QED BY <2>1 DEF Inv, Base, OrderInv
<1>9. last' <= tx' /\ \A t \in torn' : t <= tx'
  BY <1>1 DEF Inv, Base, OrderInv
<1> QED BY <1>2, <1>3, <1>4, <1>6, <1>7, <1>8, <1>9 DEF OrderInv

LEMMA CloseContent ==
  ASSUME Inv, Close, caller' = caller, Sound
  PROVE  DiskContent'
<1> PICK c \in Tx : c = cur
  BY CloseEffect
<1>1. /\ c = cur /\ UNCHANGED <<files, staged, backup, had, image, tx, last, cur>>
      /\ pc \in {"cleanup", "discard"} /\ journal'[c] \in {"none", journal[c]}
      /\ \A t \in Tx : t # c => journal'[t] = journal[t]
      /\ torn' \in {torn, torn \ {c}}
      /\ torn' # torn => journal'[c] = "none"
  BY CloseEffect
<1>2. DiskContent /\ StepContent
  BY DEF Inv, Contentful
<1>3. /\ \A t \in Tx : t # c => (Pending(t)' <=> Pending(t))
      /\ Pending(c)' => Pending(c)
  BY <1>1, CloseOrder
<1>4. ASSUME NEW t \in Tx PROVE TxContent(t)'
  <2>1. TxContent(t)
    BY <1>2 DEF DiskContent
  <2>2. CASE journal'[t] = "none"
    BY <2>2 DEF TxContent, Unreported
  <2>3. CASE journal'[t] # "none"
    <3>1. journal'[t] = journal[t] /\ (t \in torn' <=> t \in torn)
      BY <1>1, <2>3
    <3> QED BY <1>1, <2>1, <3>1 DEF TxContent, Completable, Withdrawable, Unreported
  <2> QED BY <2>2, <2>3
<1>5. ASSUME Settled' PROVE \A f \in File : files'[f] = image'[last'][f]
  <2>1. CASE Pending(c)
    <3>1. pc = "discard" \/ (pc = "cleanup" /\ journal[cur] = "rolling_back")
      <4>1. pc = "cleanup" => journal[c] \in {"committed", "rolling_back"}
                              /\ (journal[c] = "committed" => c <= last)
        BY <1>1 DEF Inv, Base, StepInv
      <4>2. c \in Nat /\ last \in Nat
        BY Numbers DEF Inv, Base
      <4>3. journal[c] = "committed" /\ c <= last => ~Pending(c)
        BY <4>2 DEF Pending, Open, Unreported
      <4> QED BY <1>1, <2>1, <4>1, <4>3
    <3> QED BY <1>1, <1>2, <3>1 DEF StepContent
  <2>2. CASE ~Pending(c)
    <3>1. Settled
      BY <1>3, <1>5, <2>2 DEF Settled
    <3> QED BY <1>1, <1>2, <3>1 DEF DiskContent
  <2> QED BY <2>1, <2>2
<1> QED BY <1>4, <1>5 DEF DiskContent

LEMMA CloseStep ==
  ASSUME Inv, Close, caller' = caller
  PROVE  Inv'
<1>1. /\ cur \in Tx /\ pc \in {"cleanup", "discard"}
      /\ UNCHANGED <<files, staged, backup, had, image, mem, mode, cur, todo, tx, last>>
      /\ journal' \in [Tx -> JournalState] /\ journal'[cur] \in {"none", journal[cur]}
      /\ torn' \in {torn, torn \ {cur}} /\ (pc = "cleanup" => torn' = torn)
      /\ \/ /\ UNCHANGED bounds /\ journal'[cur] = "none"
            /\ pc' = IF mode = "commit" THEN "ready" ELSE "scan"
         \/ Fault /\ GiveUp
  BY CloseEffect
<1>2. /\ OrderInv' /\ (Settled => Settled')
      /\ \A t \in Tx : t # cur => (Pending(t)' <=> Pending(t))
      /\ journal'[cur] = "none" => ~Pending(cur)'
  BY CloseOrder
<1>3. pc' # "discard"
  BY <1>1 DEF GiveUp
<1>4. ASSUME Sound' PROVE Sound
  <2>1. torn' = {}
    BY <1>3, <1>4 DEF Sound
  <2> QED BY <1>1, <2>1 DEF Sound
<1>5. caller = "registry" /\ mode = "commit" => Settled'
  <2> SUFFICES ASSUME caller = "registry", mode = "commit" PROVE Settled'
    OBVIOUS
  <2>1. CASE pc = "cleanup" /\ journal[cur] = "committed"
    BY <1>2, <2>1 DEF Inv, Base, StepInv
  <2>2. CASE pc = "discard" \/ journal[cur] = "rolling_back"
    <3>1. Shaken /\ (journal[cur] = "prepared" \/ journal[cur] = "rolling_back")
      BY <1>1, <2>2 DEF Shaken, Inv, Base, StepInv
    <3>2. faults >= 1 /\ Pending(cur)
      BY <3>1 DEF Inv, Base, CallerInv, Pending, Open
    <3>3. ~Fault
      BY <3>2, FaultEffect DEF Inv, Base
    <3>4. journal'[cur] = "none"
      BY <1>1, <3>3
    <3>5. \A t \in Tx : t # cur => ~Pending(t)
      BY <1>1, <3>2 DEF Inv, Base, OrderInv
    <3>6. ASSUME NEW t \in Tx, t = cur PROVE ~Pending(t)'
      BY <1>1, <1>2, <3>4, <3>6 DEF Pending, Open, Unreported
    <3> QED BY <1>2, <3>5, <3>6 DEF Settled
  <2> QED BY <1>1, <2>1, <2>2 DEF Inv, Base, StepInv
<1>6. ASSUME Sound' PROVE DiskContent'
  BY <1>4, <1>6, CloseContent
<1>7. CASE Fault /\ GiveUp
  <2>1. /\ StepInv' /\ CallerInv' /\ pc' \in {"down", "ready"}
        /\ faults' \in 0..MaxFaults[caller'] /\ crashes' \in 0..MaxCrashes
    BY <1>1, <1>5, <1>7, GiveUpEffect
  <2>2. TypeOK'
    BY <1>1, <2>1 DEF Inv, Base, TypeOK, Step
  <2>3. ASSUME Sound' PROVE Contentful'
    BY <1>6, <2>1, <2>3 DEF Contentful, StepContent
  <2> QED BY <1>2, <2>1, <2>2, <2>3 DEF Inv, Base
<1>8. CASE /\ UNCHANGED bounds /\ journal'[cur] = "none"
           /\ pc' = IF mode = "commit" THEN "ready" ELSE "scan"
  <2>1. TypeOK'
    BY <1>1, <1>8 DEF Inv, Base, TypeOK, bounds, Step
  <2>2. mode = "write" => tx < MaxTx
    BY <1>1 DEF Inv, Base, StepInv
  <2>3. StepInv'
    BY <1>1, <1>8, <2>2 DEF StepInv
  <2>4. CallerInv'
    <3>1. caller = "registry" => mode \in {"start", "commit"} /\ (torn' # {} => faults' >= 1)
      <4>1. caller = "registry" /\ pc = "cleanup" => mode \in {"start", "commit"}
        BY DEF Inv, Base, CallerInv
      <4>2. pc = "discard" => mode = "commit"
        BY DEF Inv, Base, StepInv
      <4>3. caller = "registry" /\ torn # {} => faults >= 1
        BY DEF Inv, Base, CallerInv
      <4> QED BY <1>1, <1>8, <4>1, <4>2, <4>3 DEF bounds
    <3>2. ~Shaken'
      BY <1>1, <1>8 DEF Shaken
    <3>3. Careful'
      BY DEF Inv, Base, CallerInv, Careful
    <3> QED BY <1>1, <1>5, <1>8, <3>1, <3>2, <3>3 DEF CallerInv
  <2>5. ASSUME Sound' PROVE Contentful'
    BY <1>6, <1>8, <2>5 DEF Contentful, StepContent
  <2> QED BY <1>2, <2>1, <2>3, <2>4, <2>5 DEF Inv, Base
<1> QED BY <1>1, <1>7, <1>8

-----------------------------------------------------------------------------
(* The invariant                                                           *)

LEMMA InvInit == Init /\ Careful => Inv
<1> SUFFICES ASSUME Init, Careful PROVE Inv
  OBVIOUS
<1>1. /\ files \in [File -> {Absent, 0}] /\ caller \in Caller
      /\ staged = [t \in Tx |-> {}] /\ backup = [t \in Tx |-> NoBackup]
      /\ had = [t \in Tx |-> {}] /\ journal = [t \in Tx |-> "none"]
      /\ image = [t \in 0..MaxTx |-> files] /\ mem = files
      /\ pc = "down" /\ mode = "start" /\ cur = 0 /\ todo = {}
      /\ tx = 0 /\ last = 0 /\ torn = {} /\ faults = 0 /\ crashes = 0
  BY DEF Init
<1>2. /\ 0 \in 0..MaxTx /\ 0 \in 0..MaxFaults[caller] /\ 0 \in 0..MaxCrashes
  BY <1>1, TransactionAssumption DEF Caller
<1>3. files \in Contents /\ NoBackup \in Contents
  BY <1>1, <1>2 DEF Contents, Content, NoBackup
<1>4. TypeOK
  BY <1>1, <1>2, <1>3 DEF TypeOK, JournalState, Step, Mode
<1>5. OrderInv
  BY <1>1, <1>2 DEF OrderInv, Ordered, Pending, Open, Unreported
<1>6. StepInv /\ CallerInv
  BY <1>1 DEF StepInv, CallerInv, Shaken
<1>7. Contentful
  BY <1>1, <1>2 DEF Contentful, DiskContent, StepContent, TxContent, Unreported
<1> QED BY <1>4, <1>5, <1>6, <1>7 DEF Inv, Base

LEMMA InvNext == Inv /\ [Next]_vars => Inv'
<1> SUFFICES ASSUME Inv, [Next]_vars PROVE Inv'
  OBVIOUS
<1>1. CASE UNCHANGED vars
  <2>1. UNCHANGED <<disk, image, last, tx, torn>>
    BY <1>1 DEF vars, disk
  <2>2. TypeOK'
    BY <1>1 DEF Inv, Base, TypeOK, vars
  <2>3. OrderInv' /\ (Settled' <=> Settled)
    BY <2>1, SameOrder DEF Inv, Base, disk
  <2>4. StepInv'
    BY <1>1, <2>3 DEF Inv, Base, StepInv, Unreported, vars
  <2>5. CallerInv'
    BY <1>1, <2>3 DEF Inv, Base, CallerInv, Careful, Shaken, vars
  <2>6. ASSUME Sound' PROVE Contentful'
    <3>1. Sound
      BY <1>1, <2>6 DEF Sound, vars
    <3>2. DiskContent' /\ StepContent
      BY <2>1, <3>1, SameContent DEF Inv, Contentful
    <3> QED BY <1>1, <3>2 DEF Contentful, StepContent, Saved, vars
  <2> QED BY <2>2, <2>3, <2>4, <2>5, <2>6 DEF Inv, Base
<1>2. ASSUME Next PROVE caller' = caller
  BY <1>2 DEF Next, Proceed
<1>3. CASE Start \/ Refresh
  BY <1>1, <1>2, <1>3, StartStep
<1>4. ASSUME NEW t \in Tx, Recover(t) PROVE Inv'
  BY <1>1, <1>2, <1>4, RecoverStep
<1>5. CASE Recovered
  BY <1>1, <1>2, <1>5, RecoveredStep
<1>6. CASE Begin
  BY <1>1, <1>2, <1>6, BeginStep
<1>7. CASE PrepareFails
  BY <1>1, <1>2, <1>7, PrepareFailsStep
<1>8. CASE Crash
  BY <1>1, <1>2, <1>8, CrashStep
<1>9. ASSUME NEW dels \in SUBSET File, Prepare(dels) PROVE Inv'
  BY <1>1, <1>2, <1>9, PrepareStep
<1>10. ASSUME NEW f \in File, Publish(f) PROVE Inv'
  BY <1>1, <1>2, <1>10, PublishStep
<1>11. CASE Commit
  BY <1>1, <1>2, <1>11, CommitStep
<1>12. CASE Rollback
  BY <1>1, <1>2, <1>12, RollbackStep
<1>13. ASSUME NEW f \in File, Undo(f) PROVE Inv'
  BY <1>1, <1>2, <1>13, UndoStep
<1>14. CASE Undone
  BY <1>1, <1>2, <1>14, UndoneStep
<1>15. ASSUME NEW f \in File, Clean(f) PROVE Inv'
  BY <1>1, <1>2, <1>15, CleanStep
<1>16. CASE Close
  BY <1>1, <1>2, <1>16, CloseStep
<1> QED
  BY <1>1, <1>3, <1>4, <1>5, <1>6, <1>7, <1>8, <1>9, <1>10, <1>11, <1>12, <1>13, <1>14,
     <1>15, <1>16
  DEF Next, Proceed

-----------------------------------------------------------------------------
(* What the recovery of the next start would make of the files             *)

\* The files of the pending transaction when it will be completed, else the
\* ones of the last that was committed.
LEMMA Found ==
  Inv /\ torn = {} =>
    /\ \A t \in Tx : journal[t] = "prepared" \/ Unreported(t) => AfterRecovery = image[t]
    /\ \A t \in Tx : journal[t] = "rolling_back" => AfterRecovery = image[last]
    /\ Settled => AfterRecovery = image[last]
<1> SUFFICES ASSUME Inv, torn = {}
             PROVE  /\ \A t \in Tx : journal[t] = "prepared" \/ Unreported(t) =>
                                       AfterRecovery = image[t]
                    /\ \A t \in Tx : journal[t] = "rolling_back" =>
                                       AfterRecovery = image[last]
                    /\ Settled => AfterRecovery = image[last]
  OBVIOUS
<1> DEFINE open == {t \in Tx : journal[t] \in {"prepared", "rolling_back"}}
           u == CHOOSE t \in open : TRUE
<1>1. /\ files \in [File -> Content] /\ image[last] \in [File -> Content]
      /\ \A t \in Tx : image[t] \in [File -> Content]
  BY DEF Inv, Base, TypeOK, Contents, Tx
<1>2. open = {} => AfterRecovery = files
  BY DEF AfterRecovery
<1>3. open # {} => u \in open
  BY Zenon
<1>4. open # {} /\ journal[u] = "prepared" =>
        AfterRecovery = [f \in File |-> IF f \in staged[u] \/ image[u][f] = Absent
                                        THEN image[u][f] ELSE files[f]]
  BY DEF AfterRecovery
<1>5. open # {} /\ journal[u] = "rolling_back" =>
        AfterRecovery = [f \in File |-> IF f \notin had[u] THEN Absent
                                        ELSE IF backup[u][f] # Absent THEN backup[u][f]
                                        ELSE files[f]]
  BY DEF AfterRecovery
<1>6. \A t \in open : Pending(t)
  BY DEF Pending, Open
<1>7. \A t \in Tx : t \notin open <=> ~Open(t)
  BY DEF Open
<1>8. DiskContent /\ \A s, t \in Tx : Pending(s) /\ Pending(t) => s = t
  BY DEF Inv, Base, OrderInv, Sound, Contentful
<1>9. \A t \in open : open # {} /\ u = t /\ t \in Tx /\ TxContent(t)
  BY <1>3, <1>6, <1>8 DEF DiskContent
<1> HIDE DEF u
<1>10. ASSUME NEW t \in Tx, journal[t] = "prepared" PROVE AfterRecovery = image[t]
  <2>1. u = t /\ TxContent(t) /\ open # {}
    BY <1>9, <1>10
  <2>2. \A f \in File : \/ f \in staged[t] \/ image[t][f] = Absent
                        \/ files[f] = image[t][f]
    BY <1>10, <2>1 DEF TxContent, Completable
  <2> QED BY <1>1, <1>4, <1>10, <2>1, <2>2
<1>11. ASSUME NEW t \in Tx, Unreported(t) PROVE AfterRecovery = image[t]
  <2>1. Pending(t) /\ ~Open(t) /\ TxContent(t)
    BY <1>8, <1>11 DEF Pending, Open, Unreported, DiskContent
  <2>2. open = {}
    BY <1>6, <1>7, <1>8, <2>1
  <2>3. \A f \in File : files[f] = image[t][f]
    BY <1>11, <2>1 DEF TxContent
  <2> QED BY <1>1, <1>2, <2>2, <2>3
<1>12. ASSUME NEW t \in Tx, journal[t] = "rolling_back" PROVE AfterRecovery = image[last]
  <2>1. u = t /\ TxContent(t) /\ open # {}
    BY <1>9, <1>12
  <2>2. \A f \in File :
          /\ f \in had[t] <=> image[last][f] # Absent
          /\ backup[t][f] \in {Absent, image[last][f]}
          /\ f \in had[t] /\ backup[t][f] = Absent => files[f] = image[last][f]
    BY <1>12, <2>1 DEF TxContent, Withdrawable
  <2> QED BY <1>1, <1>5, <1>12, <2>1, <2>2
<1>13. ASSUME Settled PROVE AfterRecovery = image[last]
  <2>1. open = {} /\ \A f \in File : files[f] = image[last][f]
    BY <1>6, <1>8, <1>13 DEF DiskContent, Settled
  <2> QED BY <1>1, <1>2, <2>1
<1> QED BY <1>10, <1>11, <1>12, <1>13

\* The same of the state after a step.
LEMMA FoundNext ==
  Inv' /\ torn' = {} =>
    /\ \A t \in Tx : journal'[t] = "prepared" \/ (journal'[t] = "committed" /\ last' < t)
                       => AfterRecovery' = image'[t]
    /\ \A t \in Tx : journal'[t] = "rolling_back" => AfterRecovery' = image'[last']
    /\ Settled' => AfterRecovery' = image'[last']
<1>1. (Inv /\ torn = {} =>
         /\ \A t \in Tx : journal[t] = "prepared" \/ Unreported(t) =>
                            AfterRecovery = image[t]
         /\ \A t \in Tx : journal[t] = "rolling_back" => AfterRecovery = image[last]
         /\ Settled => AfterRecovery = image[last])'
  BY Found, PTL
<1> QED BY <1>1 DEF Unreported

-----------------------------------------------------------------------------
(* Every step proposes, commits or withdraws a whole group, or does not    *)
(* change what a start would find, unless a write is being discarded       *)

Stutters == AfterRecovery' = AfterRecovery /\ image'[last'] = image[last]
Commits == image'[last'] = AfterRecovery /\ AfterRecovery' = AfterRecovery
Withdraws == AfterRecovery' = image[last] /\ image'[last'] = image[last]
Proposes ==
  /\ AfterRecovery = image[last] /\ image'[last'] = image[last]
  /\ \E dels \in SUBSET File, t \in Tx :
       AfterRecovery' = [f \in File |-> IF f \in dels THEN Absent ELSE t]
Refines == Stutters \/ Commits \/ Withdraws \/ Proposes

\* No transaction is torn, before the step and after it.
Untorn == torn = {} /\ torn' = {}

\* While the disk, the images and the last commit stay, so does what is found.
LEMMA QuietRefines ==
  ASSUME Inv, Inv', Untorn, UNCHANGED <<journal, image, last>>,
         files' = files \/ \E t \in Tx : Pending(t)
  PROVE  Refines
<1>1. \A t \in Tx : Pending(t)' <=> Pending(t)
  BY DEF Pending, Open, Unreported
<1>2. AfterRecovery' = AfterRecovery
  <2>1. CASE Settled
    BY <1>1, <2>1, Found, FoundNext DEF Untorn, Settled
  <2>2. ASSUME NEW t \in Tx, Pending(t) PROVE AfterRecovery' = AfterRecovery
    BY <2>2, Found, FoundNext DEF Untorn, Pending, Open, Unreported
  <2> QED BY <2>1, <2>2 DEF Settled
<1> QED BY <1>2 DEF Refines, Stutters

\* A committed transaction that nobody knew of is found by a recovery.
LEMMA RecoverRefines ==
  ASSUME Inv, Inv', Untorn, NEW t \in Tx, Recover(t), caller' = caller
  PROVE  Refines
<1>1. /\ UNCHANGED <<files, journal, image>> /\ pc = "scan"
      /\ last' = IF journal[t] = "committed" /\ last < t THEN t ELSE last
  BY DEF Recover, disk
<1>2. CASE last' = last
  BY <1>1, <1>2, QuietRefines
<1>3. CASE last' # last
  <2>1. Unreported(t) /\ last' = t /\ Pending(t)
    BY <1>1, <1>3 DEF Pending, Unreported
  <2>2. AfterRecovery = image[t]
    BY <2>1, Found DEF Untorn
  <2>3. \A s \in Tx : s # t => ~Pending(s)'
    BY <1>1, <2>1, Others DEF Inv, Recover
  <2>4. ~Pending(t)'
    BY <1>1, <2>1 DEF Pending, Open, Unreported, Tx
  <2>5. AfterRecovery' = image'[last']
    BY <2>3, <2>4, FoundNext DEF Untorn, Settled
  <2> QED BY <1>1, <2>1, <2>2, <2>5 DEF Refines, Commits
<1> QED BY <1>2, <1>3

LEMMA PrepareRefines ==
  ASSUME Inv, Inv', Untorn, NEW dels \in SUBSET File, Prepare(dels), caller' = caller
  PROVE  Refines
<1>1. PICK t \in Tx : /\ journal'[t] = "prepared"
                      /\ image'[t] = [f \in File |-> IF f \in dels THEN Absent ELSE t]
  BY PrepareStep
<1>2. image'[last] = image[last] /\ last' = last /\ pc = "prepare"
  BY PrepareStep DEF Prepare
<1>3. AfterRecovery = image[last]
  BY <1>2, Found DEF Inv, Base, StepInv, Untorn
<1>4. AfterRecovery' = [f \in File |-> IF f \in dels THEN Absent ELSE t]
  BY <1>1, FoundNext DEF Untorn
<1>5. Proposes
  BY <1>2, <1>3, <1>4, Zenon DEF Proposes
<1> QED BY <1>5 DEF Refines

LEMMA CommitRefines ==
  ASSUME Inv, Inv', Untorn, Commit, caller' = caller
  PROVE  Refines
<1> PICK c \in Tx : c = cur
  BY AtHand DEF Commit, Inv
<1>1. /\ c = cur /\ pc = "publish" /\ last < c /\ journal[c] = "prepared" /\ image' = image
  BY AtHand DEF Commit, Inv, Base, StepInv
<1>2. AfterRecovery = image[c]
  BY <1>1, Found DEF Untorn
<1>3. \/ journal' = [journal EXCEPT ![c] = "committed"] /\ last' = c /\ pc' = "cleanup"
      \/ WriteFails("committed") /\ last' = last
  BY <1>1 DEF Commit
<1>4. last \in Int /\ c \in Int
  BY Numbers DEF Inv, Base
<1>5. CASE journal' = [journal EXCEPT ![c] = "committed"] /\ last' = c /\ pc' = "cleanup"
  <2>1. Settled'
    <3>1. \A t \in Tx : t # cur => ~Pending(t)'
      BY <1>1, <1>5, Marked DEF Commit
    <3>2. journal'[c] = "committed"
      BY <1>5 DEF Inv, Base, TypeOK
    <3>3. ~Pending(c)'
      BY <1>4, <1>5, <3>2 DEF Pending, Open, Unreported
    <3> QED BY <1>1, <3>1, <3>3 DEF Settled
  <2>2. AfterRecovery' = image'[last']
    BY <2>1, FoundNext DEF Untorn
  <2> QED BY <1>1, <1>2, <1>5, <2>2 DEF Refines, Commits
<1>6. CASE WriteFails("committed") /\ last' = last
  <2>1. journal'[c] \in {"prepared", "committed"}
    BY <1>1, <1>6 DEF WriteFails, Inv, Base, TypeOK
  <2>2. AfterRecovery' = image'[c]
    BY <1>1, <1>6, <2>1, FoundNext DEF Untorn
  <2> QED BY <1>1, <1>2, <1>6, <2>2 DEF Refines, Stutters
<1> QED BY <1>3, <1>5, <1>6

LEMMA RollbackRefines ==
  ASSUME Inv, Inv', Untorn, Rollback, caller' = caller
  PROVE  Refines
<1> PICK c \in Tx : c = cur
  BY AtHand DEF Rollback, Inv
<1>1. /\ c = cur /\ pc = "rollback" /\ image' = image /\ last' = last /\ files' = files
      /\ journal' \in {journal, [journal EXCEPT ![c] = "rolling_back"]}
  BY DEF Rollback, WriteFails
<1>2. CASE journal' = journal
  BY <1>1, <1>2, QuietRefines
<1>3. CASE journal' = [journal EXCEPT ![c] = "rolling_back"]
  <2>1. journal'[c] = "rolling_back"
    BY <1>3 DEF Inv, Base, TypeOK
  <2>2. AfterRecovery' = image'[last']
    BY <2>1, FoundNext DEF Untorn
  <2> QED BY <1>1, <2>2 DEF Refines, Withdraws
<1> QED BY <1>1, <1>2, <1>3

\* Without a journal, the transaction at hand is withdrawn or known.
LEMMA Closed ==
  ASSUME Inv, Inv', Close, caller' = caller, torn' = {}, journal'[cur] = "none", Pending(cur)
  PROVE  AfterRecovery' = image[last] /\ image'[last'] = image[last]
<1>1. /\ UNCHANGED <<image, last, cur>> /\ cur \in Tx
      /\ \A t \in Tx : t # cur => (Pending(t)' <=> Pending(t))
      /\ ~Pending(cur)'
  BY CloseEffect, CloseOrder
<1>2. \A t \in Tx : t # cur => ~Pending(t)
  BY <1>1 DEF Inv, Base, OrderInv
<1>3. ASSUME NEW t \in Tx, t = cur PROVE ~Pending(t)'
  BY <1>1, <1>3 DEF Pending, Open, Unreported
<1>4. Settled'
  BY <1>1, <1>2, <1>3 DEF Settled
<1> QED BY <1>1, <1>4, FoundNext

LEMMA CloseRefines ==
  ASSUME Inv, Inv', Untorn, Close, caller' = caller
  PROVE  Refines
<1> PICK c \in Tx : c = cur
  BY CloseEffect
<1>1. /\ c = cur /\ UNCHANGED <<files, image, last, cur>>
      /\ journal'[c] \in {"none", journal[c]}
      /\ \A t \in Tx : t # c => journal'[t] = journal[t]
  BY CloseEffect
<1>2. CASE journal'[c] = "none" /\ Pending(c)
  BY <1>1, <1>2, Closed DEF Untorn, Refines, Withdraws
<1>3. CASE ~(journal'[c] = "none" /\ Pending(c))
  <2>1. \A t \in Tx : (Pending(t)' <=> Pending(t)) /\ (Pending(t) => journal'[t] = journal[t])
    BY <1>1, <1>3 DEF Pending, Open, Unreported
  <2>2. AfterRecovery' = AfterRecovery
    <3>1. CASE Settled
      BY <1>1, <2>1, <3>1, Found, FoundNext DEF Untorn, Settled
    <3>2. ASSUME NEW t \in Tx, Pending(t) PROVE AfterRecovery' = AfterRecovery
      BY <1>1, <2>1, <3>2, Found, FoundNext DEF Untorn, Pending, Open, Unreported
    <3> QED BY <3>1, <3>2 DEF Settled
  <2> QED BY <1>1, <2>2 DEF Refines, Stutters
<1> QED BY <1>2, <1>3

LEMMA StepRefines == Inv /\ Inv' /\ Untorn /\ [Next]_vars => Refines
<1> SUFFICES ASSUME Inv, Inv', Untorn, [Next]_vars PROVE Refines
  OBVIOUS
<1>1. CASE UNCHANGED vars
  BY <1>1, QuietRefines DEF vars
<1>2. ASSUME Next PROVE caller' = caller
  BY <1>2 DEF Next, Proceed
<1>3. CASE Start \/ Refresh \/ Recovered \/ Begin \/ PrepareFails \/ Crash \/ Undone
  BY <1>3, QuietRefines
  DEF Start, Refresh, Recovered, Begin, PrepareFails, Crash, Undone, disk
<1>4. ASSUME NEW t \in Tx, Recover(t) PROVE Refines
  BY <1>1, <1>2, <1>4, RecoverRefines
<1>5. ASSUME NEW dels \in SUBSET File, Prepare(dels) PROVE Refines
  BY <1>1, <1>2, <1>5, PrepareRefines
<1>6. ASSUME NEW f \in File, Publish(f) PROVE Refines
  <2>1. UNCHANGED <<journal, image, last>> /\ pc = "publish"
    BY <1>6 DEF Publish, Replace, disk
  <2> QED BY <2>1, QuietRefines, AtHand DEF Inv
<1>7. CASE Commit
  BY <1>1, <1>2, <1>7, CommitRefines
<1>8. CASE Rollback
  BY <1>1, <1>2, <1>8, RollbackRefines
<1>9. ASSUME NEW f \in File, Undo(f) PROVE Refines
  <2>1. UNCHANGED <<journal, image, last>> /\ pc = "undo"
    BY <1>9 DEF Undo
  <2> QED BY <2>1, QuietRefines, AtHand DEF Inv
<1>10. ASSUME NEW f \in File, Clean(f) PROVE Refines
  <2>1. UNCHANGED <<journal, image, last, files>>
    BY <1>10 DEF Clean
  <2> QED BY <2>1, QuietRefines
<1>11. CASE Close
  BY <1>1, <1>2, <1>11, CloseRefines
<1> QED
  BY <1>1, <1>3, <1>4, <1>5, <1>6, <1>7, <1>8, <1>9, <1>10, <1>11 DEF Next, Proceed

\* Only a discard makes a transaction torn, or mends it.
LEMMA TornChanges ==
  ASSUME Inv, Inv', [Next]_vars
  PROVE  /\ torn = {} /\ torn' # {} => image'[last'] = image[last]
         /\ torn # {} /\ torn' = {} =>
              AfterRecovery' = image[last] /\ image'[last'] = image[last]
<1>1. ASSUME Next PROVE caller' = caller
  BY <1>1 DEF Next, Proceed
<1>2. CASE torn' = torn
  BY <1>2
<1>3. ASSUME NEW f \in File, Clean(f), torn' # torn
      PROVE  image'[last'] = image[last] /\ torn' # {}
  BY <1>3 DEF Clean
<1>4. ASSUME Close, torn' # torn, caller' = caller
      PROVE  /\ torn # {}
             /\ torn' = {} => AfterRecovery' = image[last] /\ image'[last'] = image[last]
  <2>1. /\ torn' \in {torn, torn \ {cur}} /\ (pc = "cleanup" => torn' = torn)
        /\ pc \in {"cleanup", "discard"} /\ journal'[cur] = "none"
    BY <1>4, CloseEffect
  <2>2. pc = "discard" /\ torn # {}
    BY <1>4, <2>1
  <2>3. Pending(cur)
    BY <2>2, AtHand DEF Inv
  <2> QED BY <1>4, <2>1, <2>2, <2>3, Closed
<1>5. ASSUME torn' # torn PROVE Next
  BY <1>5 DEF vars
<1>6. ASSUME Next, torn' # torn PROVE Close \/ \E f \in File : Clean(f)
  <2>1. ASSUME NEW t \in Tx, Recover(t) PROVE FALSE
    BY <1>6, <2>1 DEF Recover
  <2>2. ASSUME NEW f \in File, Publish(f) PROVE FALSE
    BY <1>6, <2>2 DEF Publish
  <2>3. ASSUME NEW f \in File, Undo(f) PROVE FALSE
    BY <1>6, <2>3 DEF Undo
  <2>4. ASSUME NEW dels \in SUBSET File, Prepare(dels) PROVE FALSE
    BY <1>6, <2>4 DEF Prepare
  <2>5. ~(Start \/ Refresh \/ Recovered \/ Begin \/ PrepareFails \/ Crash \/ Undone)
    BY <1>6 DEF Start, Refresh, Recovered, Begin, PrepareFails, Crash, Undone
  <2>6. ~(Commit \/ Rollback)
    BY <1>6 DEF Commit, Rollback
  <2> QED BY <1>6, <2>1, <2>2, <2>3, <2>4, <2>5, <2>6 DEF Next, Proceed
<1> QED BY <1>1, <1>2, <1>3, <1>4, <1>5, <1>6

\* A commit is of a newer transaction than the one before.
LEMMA LastGrows == Inv /\ [Next]_vars => last' >= last
<1> SUFFICES ASSUME Inv, [Next]_vars PROVE last' >= last
  OBVIOUS
<1>1. last \in Nat
  BY Numbers DEF Inv, Base
<1>2. CASE UNCHANGED last
  BY <1>1, <1>2
<1>3. CASE Commit
  BY <1>1, <1>3, AtHand DEF Commit, Inv
<1>4. ASSUME NEW t \in Tx, Recover(t) PROVE last' >= last
  BY <1>1, <1>4, Numbers DEF Recover, Inv, Base
<1>5. ASSUME NEW f \in File, Publish(f) \/ Undo(f) \/ Clean(f) PROVE UNCHANGED last
  BY <1>5 DEF Publish, Undo, Clean
<1>6. ASSUME NEW dels \in SUBSET File, Prepare(dels) PROVE UNCHANGED last
  BY <1>6 DEF Prepare
<1>7. ASSUME Start \/ Refresh \/ Recovered \/ Begin \/ PrepareFails \/ Crash \/ Undone
      PROVE  UNCHANGED last
  BY <1>7 DEF Start, Refresh, Recovered, Begin, PrepareFails, Crash, Undone
<1>8. ASSUME Rollback \/ Close PROVE UNCHANGED last
  BY <1>8 DEF Rollback, Close
<1>9. ASSUME UNCHANGED vars PROVE UNCHANGED last
  BY <1>9 DEF vars
<1> QED BY <1>2, <1>3, <1>4, <1>5, <1>6, <1>7, <1>8, <1>9 DEF Next, Proceed

-----------------------------------------------------------------------------
(* The theorems                                                            *)

\* In every reachable state of a careful caller one transaction at most is
\* pending, and the files, staged files and backups on disk suffice to
\* complete it or to withdraw it, until a write that is discarded is
\* interrupted (commit, recover_directory).
THEOREM Invariant == Spec /\ Careful => []Inv
<1>1. Init /\ Careful => Inv
  BY InvInit
<1>2. Inv /\ [Next]_vars => Inv'
  BY InvNext
<1> QED BY <1>1, <1>2, PTL DEF Spec

\* Whatever crashes and errors of file operations happen, a start would find
\* all files of one transaction: the group changes as a whole, and a commit
\* or a withdrawal that is on disk is not undone.  The one exception is a
\* write whose first journal was in its place when its writing raised, from
\* the loss of its first staged file to the loss of its journal.
THEOREM GroupsAreAtomic == Spec /\ Careful => AllOrNothing
<1>1. Init /\ Inv => Atomic!Init
  <2> SUFFICES ASSUME Init, Inv PROVE Atomic!Init
    OBVIOUS
  <2>1. /\ files \in [File -> {Absent, 0}] /\ image[last] = files
        /\ Settled /\ torn = {}
    BY TransactionAssumption DEF Init, Settled, Pending, Open, Unreported
  <2>2. AfterRecovery = image[last]
    BY <2>1, Found
  <2> QED BY <2>1, <2>2 DEF Atomic!Init
<1> DEFINE Abstract == \/ Atomic!Whole \/ Atomic!Break \/ Atomic!Mend \/ Atomic!Broken
                       \/ UNCHANGED Atomic!vars
<1>2. Refines /\ Untorn => Abstract
  <2> SUFFICES ASSUME Refines, Untorn PROVE Abstract
    OBVIOUS
  <2>1. (torn # {}) = FALSE /\ (torn' # {}) = FALSE
    BY DEF Untorn
  <2>2. CASE Stutters
    BY <2>1, <2>2 DEF Stutters, Atomic!vars
  <2>3. CASE Commits \/ Withdraws \/ Proposes
    BY <2>1, <2>3 DEF Commits, Withdraws, Proposes, Atomic!Whole, Atomic!Propose,
       Atomic!Commit, Atomic!Withdraw
  <2> QED BY <2>2, <2>3 DEF Refines
<1>3. Inv /\ Inv' /\ [Next]_vars => Abstract
  <2> SUFFICES ASSUME Inv, Inv', [Next]_vars PROVE Abstract
    OBVIOUS
  <2>1. CASE Untorn
    BY <1>2, <2>1, StepRefines
  <2>2. CASE torn = {} /\ torn' # {}
    BY <2>2, TornChanges DEF Atomic!Break
  <2>3. CASE torn # {} /\ torn' = {}
    BY <2>3, TornChanges DEF Atomic!Mend, Atomic!Withdraw
  <2>4. CASE torn # {} /\ torn' # {}
    BY <2>4 DEF Atomic!Broken
  <2> QED BY <2>1, <2>2, <2>3, <2>4 DEF Untorn
<1>4. Inv /\ Inv' /\ [Next]_vars =>
        [Atomic!Whole \/ Atomic!Break \/ Atomic!Mend \/ Atomic!Broken]_(Atomic!vars)
  BY <1>3 DEF Abstract
<1> QED BY <1>1, <1>4, Invariant, PTL DEF Spec, AllOrNothing, Atomic!Spec

\* The transaction whose files a start would load is never an earlier one
\* than before, also after a discarded write was interrupted.
THEOREM CommitsAreOrdered == Spec /\ Careful => NothingResurrected
<1>1. Inv /\ [Next]_vars => [last' >= last]_last
  BY LastGrows
<1> QED BY <1>1, Invariant, PTL DEF Spec, NothingResurrected

=============================================================================
