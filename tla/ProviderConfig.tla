--------------------------- MODULE ProviderConfig ---------------------------
(***************************************************************************)
(* The list of model providers: config.llms.api_backends in memory, the    *)
(* file config.yaml with its copy .bak, and the adapters LLMManager has    *)
(* loaded.  Web requests (web/api/llm/routes.py) edit the list; the        *)
(* scheduler (scheduler/scheduler.py) and a web request ask a provider for *)
(* its models and store the answer.                                        *)
(*                                                                         *)
(* Between two awaits the event loop runs nothing else.  Loading and       *)
(* unloading do not wait, and web requests write the file without waiting, *)
(* so an edit is one step, taken when CONFIG_UPDATE_LOCK is free; import   *)
(* and restore do not ask for the lock.  A detection waits for the         *)
(* provider's answer, the scheduler's also for the lock and for the thread *)
(* that writes the file.                                                   *)
(***************************************************************************)
EXTENDS Naturals, Sequences, FiniteSets, SequencesExt

CONSTANTS
  Name,         \* names of providers
  Conf,         \* adapter type, address and key: what determines the models
  Nil,          \* Python's None
  Manual,       \* a catalogue typed in by the operator
  Broken,       \* a file that was cut off while being written
  Scheduler,    \* concurrent calls of run_once(): the loop, "run now"
  Applier,      \* requests that detect and store
  FirstLists,   \* lists of providers the file may hold at first
  MaxEdits,     \* bound: edits, imports, restores, restarts
  MaxRuns,      \* bound: detections
  MaxBadLoads,  \* bound: loads that fail
  MaxBadWrites  \* bound: writes of the file that fail

Task == Scheduler \cup Applier
Catalogue == Conf \cup {Manual}
\* tune: priority, interval and the other settings an adapter is not made of.
Entry == [name : Name, enable : BOOLEAN, conf : Conf, tune : 0..1,
          models : Catalogue]
Adapter == [id : Nat, name : Name, conf : Conf]

ASSUME ProviderAssumption ==
  /\ {MaxEdits, MaxRuns, MaxBadLoads, MaxBadWrites} \subseteq Nat
  /\ Scheduler \cap Applier = {}
  /\ \A list \in FirstLists : \A i, j \in DOMAIN list :
       list[i].name = list[j].name => i = j
  /\ FirstLists \subseteq Seq(Entry)
  /\ Manual \notin Conf /\ Nil \notin Task /\ Nil \notin Adapter

VARIABLES
  config,    \* config.llms.api_backends
  file, bak, \* what config.yaml and config.yaml.bak hold of it
  manager,   \* LLMManager: backends, the adapters in active_backends
  lock,      \* holder of CONFIG_UPDATE_LOCK
  pc, job,   \* detections: where each waits, and its locals
  edits, runs, badLoads, badWrites,
  dirty,     \* history: the list was changed and not saved
  doubled    \* history: names that stand for two configurations

fileVars == <<file, bak>>
bounds == <<edits, runs, badLoads, badWrites>>
configVars ==
  <<config, fileVars, manager, lock, pc, job, bounds, dirty, doubled>>

-----------------------------------------------------------------------------
(* LLMManager and ConfigLoader                                             *)

Index(list, n) == SelectInSeq(list, LAMBDA e : e.name = n)
Has(list, n) == Index(list, n) # 0
At(list, n) == list[Index(list, n)]
Loaded(m, n) == m.backends[n] # Nil

\* The list with e in place of the entry of that name.
Put(list, n, e) == [list EXCEPT ![Index(list, n)] = e]

\* load_backend once its checks are passed.  The check for a name that is
\* loaded already compares the name with adapters and never objects.
LoadBackend(list, m, n) ==
  LET a == [id |-> m.made + 1, name |-> n, conf |-> At(list, n).conf]
  IN [backends |-> [m.backends EXCEPT ![n] = a],
      active |-> m.active \cup {a},
      made |-> a.id]

UnloadBackend(m, n) ==
  [backends |-> [m.backends EXCEPT ![n] = Nil],
   active |-> m.active \ {m.backends[n]},
   made |-> m.made]

Outcome(m, ok, bad) == [m |-> m, ok |-> ok, bad |-> bad]

\* load_backend: unknown and disabled names are refused, a constructor may raise.
Loads(list, m, n) ==
  IF Has(list, n) /\ At(list, n).enable
  THEN {Outcome(LoadBackend(list, m, n), TRUE, 0), Outcome(m, FALSE, 1)}
  ELSE {Outcome(m, FALSE, 0)}

\* reload_backend
Reloads(list, m, n) ==
  IF Has(list, n) /\ Loaded(m, n)
  THEN Loads(list, UnloadBackend(m, n), n)
  ELSE {Outcome(m, FALSE, 0)}

\* Every enabled entry is loaded, in order; the ones at the positions bad fail.
\* load_backend takes the first entry of the name, and the last load of a name
\* is the one that is registered.
LoadAll(list, m, bad) ==
  LET good == {i \in DOMAIN list : /\ list[i].enable
                                  /\ At(list, list[i].name).enable
                                  /\ i \notin bad}
      Of(n) == {i \in good : list[i].name = n}
      Loading(i) == [id |-> m.made + Cardinality({j \in good : j <= i}),
                     name |-> list[i].name, conf |-> At(list, list[i].name).conf]
  IN [backends |-> [n \in Name |-> IF Of(n) = {} THEN m.backends[n]
                                  ELSE Loading(Max(Of(n)))],
      active |-> m.active \cup {Loading(i) : i \in good},
      made |-> m.made + Cardinality(good)]

FailsLoads(k) ==
  /\ badLoads + k <= MaxBadLoads
  /\ badLoads' = badLoads + k

FailsWrite(done) ==
  /\ done \/ badWrites < MaxBadWrites
  /\ badWrites' = IF done THEN badWrites ELSE badWrites + 1

\* save_config: the file is opened, which empties it, and written.
SaveConfig(list, done) ==
  /\ FailsWrite(done)
  /\ IF done THEN file' = list ELSE file' \in {file, Broken}

\* save_config_with_backup: the copy first, which may fail as well.
SaveWithBackup(list, done) ==
  /\ SaveConfig(list, done)
  /\ \/ bak' = file
     \/ ~done /\ file' = file /\ bak' \in {bak, Broken}

-----------------------------------------------------------------------------
ConfigTypeOK ==
  /\ config \in Seq(Entry)
  /\ file \in Seq(Entry) \cup {Broken}
  /\ bak \in Seq(Entry) \cup {Broken, Nil}
  /\ manager \in [backends : [Name -> Adapter \cup {Nil}],
                  active : SUBSET Adapter, made : Nat]
  /\ lock \in Task \cup {Nil}
  /\ pc \in [Task -> {"idle", "detect", "lock", "save"}]
  /\ edits \in 0..MaxEdits /\ runs \in 0..MaxRuns
  /\ badLoads \in 0..MaxBadLoads /\ badWrites \in 0..MaxBadWrites
  /\ dirty \in BOOLEAN /\ doubled \subseteq Name

Empty == [backends |-> [n \in Name |-> Nil], active |-> {}, made |-> 0]

\* The first start-up: load_config.
ConfigInit ==
  /\ file \in FirstLists
  /\ config = file
  /\ bak = Nil
  /\ manager = LoadAll(config, Empty, {})
  /\ lock = Nil
  /\ pc = [t \in Task |-> "idle"]
  /\ job = [t \in Task |-> Nil]
  /\ edits = 0 /\ runs = 0 /\ badLoads = 0 /\ badWrites = 0
  /\ dirty = FALSE
  /\ doubled = {}

-----------------------------------------------------------------------------
(* Edits by web requests                                                   *)

Edit ==
  /\ edits < MaxEdits
  /\ edits' = edits + 1
  /\ UNCHANGED runs

\* serialize_config_update
Serialized == Edit /\ lock = Nil /\ UNCHANGED <<lock, pc, job>>

\* What a request without a roll-back leaves behind when its write fails.
Unsaved(done) == dirty' = ~done

CreateBackend(e) ==
  /\ Serialized
  /\ ~Has(config, e.name)
  /\ config' = Append(config, e)
  /\ \E r \in IF e.enable THEN Loads(config', manager, e.name)
              ELSE {Outcome(manager, TRUE, 0)} :
       /\ manager' = r.m
       /\ FailsLoads(r.bad)
       /\ \/ /\ r.ok
             /\ \E done \in BOOLEAN : SaveWithBackup(config', done) /\ Unsaved(done)
          \/ /\ ~r.ok
             /\ dirty' = TRUE
             /\ UNCHANGED <<fileVars, badWrites>>
  /\ UNCHANGED doubled

\* Mutant: the old configuration is put back and not loaded.
RolledBack_NotLoaded(n, e, x) ==
  {Outcome(IF Loaded(x, e.name) THEN UnloadBackend(x, e.name) ELSE x, TRUE, 0)}

\* The except block of update_backend: x is the manager when loading e or
\* writing the file has failed.
RolledBack(n, e, x) ==
  LET y == IF Loaded(x, e.name) THEN UnloadBackend(x, e.name) ELSE x
  IN IF At(config, n).enable /\ Loaded(manager, n) /\ ~Loaded(y, n)
     THEN Loads(config, y, n)
     ELSE {Outcome(y, TRUE, 0)}

\* A request that does not send models keeps the ones there are.
UpdateBackend(n, sent, kept) ==
  /\ Serialized
  /\ Has(config, n)
  /\ LET old == At(config, n)
         e == IF kept THEN [sent EXCEPT !.models = old.models] ELSE sent
         new == Put(config, n, e)
         x == IF old.enable /\ Loaded(manager, n) THEN UnloadBackend(manager, n) ELSE manager
     IN /\ \E r \in IF e.enable THEN Loads(new, x, e.name) ELSE {Outcome(x, TRUE, 0)} :
             \/ /\ r.ok
                /\ config' = new
                /\ manager' = r.m
                /\ SaveWithBackup(new, TRUE)
                /\ dirty' = FALSE
                /\ FailsLoads(r.bad)
             \/ /\ config' = config
                /\ IF r.ok THEN SaveWithBackup(new, FALSE)
                   ELSE UNCHANGED <<fileVars, badWrites>>
                /\ \E b \in RolledBack(n, e, r.m) : manager' = b.m /\ FailsLoads(r.bad + b.bad)
                /\ UNCHANGED dirty
        /\ doubled' = IF e.name # n /\ Has(config, e.name) THEN doubled \cup {e.name} ELSE doubled

\* A provider that is enabled and not loaded cannot be deleted: unloading
\* it raises.
DeleteBackend(n) ==
  /\ Serialized
  /\ Has(config, n)
  /\ At(config, n).enable => Loaded(manager, n)
  /\ manager' = IF At(config, n).enable THEN UnloadBackend(manager, n) ELSE manager
  /\ config' = RemoveAt(config, Index(config, n))
  /\ \E done \in BOOLEAN : SaveWithBackup(config', done) /\ Unsaved(done)
  /\ UNCHANGED <<badLoads, doubled>>

Tuned(i) ==
  [config EXCEPT ![i] = [@ EXCEPT !.tune = 1 - config[i].tune]]

\* update_auto_detect_schedule
UpdateSchedule(n) ==
  /\ Serialized
  /\ Has(config, n)
  /\ config' = Tuned(Index(config, n))
  /\ \E done \in BOOLEAN : SaveWithBackup(config', done) /\ Unsaved(done)
  /\ UNCHANGED <<manager, badLoads, doubled>>

\* reorder_failover_queue: only what is in a queue has a place in it, and the
\* entries are looked up in a dictionary, where the last one of a name stands.
LastIndex(list, n) == SelectLastInSeq(list, LAMBDA e : e.name = n)

ReorderQueue(n) ==
  LET new == Tuned(LastIndex(config, n))
  IN /\ Serialized
     /\ Has(config, n)
     /\ \E a \in manager.active : a.name = n
     /\ \/ SaveWithBackup(new, TRUE) /\ config' = new /\ dirty' = FALSE
        \/ SaveWithBackup(new, FALSE) /\ UNCHANGED <<config, dirty>>
     /\ UNCHANGED <<manager, badLoads, doubled>>

-----------------------------------------------------------------------------
(* Requests that do not ask for the lock                                   *)

\* What an unlocked request does to the detections that are saving: their
\* entries are replaced, or at least written by somebody else.
Meanwhile(replaced, done) ==
  job' = [t \in Task |->
    IF pc[t] # "save" THEN job[t]
    ELSE IF job[t].name \in replaced THEN [job[t] EXCEPT !.meanwhile = "replaced"]
    ELSE IF done /\ job[t].meanwhile = "nothing"
         THEN [job[t] EXCEPT !.meanwhile = "written"]
    ELSE job[t]]

\* import_backends with a document of one provider.  One that exists is
\* replaced in the list, not unloaded.
ImportBackend(e) ==
  /\ Edit
  /\ config' = IF Has(config, e.name) THEN Put(config, e.name, e)
               ELSE Append(config, e)
  /\ \E done \in BOOLEAN :
       /\ SaveWithBackup(config', done)
       /\ Unsaved(done)
       /\ Meanwhile({e.name}, done)
       /\ \E r \in IF done /\ e.enable THEN Loads(config', manager, e.name)
                   ELSE {Outcome(manager, TRUE, 0)} :
            manager' = r.m /\ FailsLoads(r.bad)
  /\ doubled' = IF Loaded(manager, e.name) THEN doubled \cup {e.name} ELSE doubled
  /\ UNCHANGED <<lock, pc>>

Twice(list) ==
  {n \in Name : \E i, j \in DOMAIN list :
     i # j /\ list[i].name = n /\ list[j].name = n}

\* Mutant: the list is exchanged before what it held is unloaded.
UnloadAll_NewList ==
  LET gone == {n \in Name : Has(bak, n)}
  IN [backends |-> [n \in Name |-> IF n \in gone THEN Nil ELSE manager.backends[n]],
      active |-> manager.active \ {manager.backends[n] : n \in gone},
      made |-> manager.made]

UnloadAll ==
  LET gone == {n \in Name : Has(config, n)}
  IN [backends |-> [n \in Name |-> IF n \in gone THEN Nil ELSE manager.backends[n]],
      active |-> manager.active \ {manager.backends[n] : n \in gone},
      made |-> manager.made]

RestoreBackends ==
  /\ Edit
  /\ bak \notin {Nil, Broken}
  /\ config' = bak
  /\ \E done \in BOOLEAN :
       /\ SaveConfig(bak, done)
       /\ Unsaved(done)
       /\ Meanwhile(Name, done)
       /\ IF done
          THEN \E bad \in SUBSET {i \in DOMAIN bak : bak[i].enable} :
                 manager' = LoadAll(bak, UnloadAll, bad) /\ FailsLoads(Cardinality(bad))
          ELSE manager' = UnloadAll /\ UNCHANGED badLoads
  /\ doubled' = doubled \cup Twice(bak)
  /\ UNCHANGED <<bak, lock, pc>>

\* Requests about other settings write the same file.
OtherSave ==
  /\ Edit
  /\ \E done \in BOOLEAN :
       /\ SaveWithBackup(config, done)
       /\ dirty' = (dirty /\ ~done)
       /\ Meanwhile({}, done)
  /\ UNCHANGED <<config, manager, lock, pc, badLoads, doubled>>

\* The process ends and starts again; with a broken file it does not start.
RestartProcess ==
  /\ Edit
  /\ file # Broken
  /\ config' = file
  /\ \E bad \in SUBSET {i \in DOMAIN file : file[i].enable} :
       manager' = LoadAll(file, Empty, bad) /\ FailsLoads(Cardinality(bad))
  /\ lock' = Nil
  /\ pc' = [t \in Task |-> "idle"]
  /\ job' = [t \in Task |-> Nil]
  /\ dirty' = FALSE
  /\ doubled' = Twice(file)
  /\ UNCHANGED <<fileVars, badWrites>>

-----------------------------------------------------------------------------
(* Detection of models: _detect_backend and apply_auto_detect_models       *)

\* backend_config_fingerprint leaves the catalogue out.
Fingerprint(e) == [e EXCEPT !.models = Nil]

With(list, n, models) == Put(list, n, [At(list, n) EXCEPT !.models = models])

Ask(t, n) ==
  /\ runs < MaxRuns
  /\ pc[t] = "idle"
  /\ Has(config, n) /\ Loaded(manager, n)
  /\ \/ t \in Scheduler /\ At(config, n).enable /\ UNCHANGED lock
     \/ t \in Applier /\ lock = Nil /\ lock' = t
  /\ runs' = runs + 1
  /\ pc' = [pc EXCEPT ![t] = "detect"]
  /\ job' = [job EXCEPT ![t] =
       [name |-> n, adapter |-> manager.backends[n],
        print |-> Fingerprint(At(config, n)), old |-> Nil, meanwhile |-> "nothing"]]
  /\ UNCHANGED <<config, fileVars, manager, edits, badLoads, badWrites, dirty, doubled>>

\* Mutant: a request returns without giving the lock back.
Ends_KeepsLock(t) ==
  /\ pc' = [pc EXCEPT ![t] = "idle"]
  /\ job' = [job EXCEPT ![t] = Nil]
  /\ UNCHANGED lock

Ends(t) ==
  /\ pc' = [pc EXCEPT ![t] = "idle"]
  /\ job' = [job EXCEPT ![t] = Nil]
  /\ lock' = IF lock = t THEN Nil ELSE lock

\* The provider fails, or answers with an empty list.
NoAnswer(t) ==
  /\ pc[t] = "detect"
  /\ Ends(t)
  /\ UNCHANGED <<config, fileVars, manager, bounds, dirty, doubled>>

\* The scheduler has the answer and waits for the lock.
Answered(t) ==
  /\ t \in Scheduler
  /\ pc[t] = "detect"
  /\ pc' = [pc EXCEPT ![t] = "lock"]
  /\ UNCHANGED <<config, fileVars, manager, lock, job, bounds, dirty, doubled>>

\* Mutant: any provider of that name will do.
Current_ByName(t) == Has(config, job[t].name)

\* The answer of t still belongs to the provider of that name.
Current(t) ==
  LET n == job[t].name
  IN /\ Has(config, n)
     /\ t \in Scheduler => manager.backends[n] = job[t].adapter
     /\ Fingerprint(At(config, n)) = job[t].print

\* What t found and has to store.
News(t) == Current(t) /\ At(config, job[t].name).models # job[t].adapter.conf
Found(t) == With(config, job[t].name, job[t].adapter.conf)

\* The answer is of no use, or the list is the same.
Discards(t) ==
  /\ \/ pc[t] = "lock" /\ lock = Nil
     \/ pc[t] = "detect" /\ t \in Applier
  /\ ~News(t)
  /\ Ends(t)
  /\ UNCHANGED <<config, fileVars, manager, bounds, dirty, doubled>>

\* After a failed reload: unloaded if need be, and loaded once more.
Recovers(list, m, n) ==
  Loads(list, IF Has(list, n) /\ Loaded(m, n) THEN UnloadBackend(m, n) ELSE m, n)

\* The scheduler has the lock: the new list, a reload, the write in a thread.
Enter(t) ==
  LET n == job[t].name
  IN /\ pc[t] = "lock" /\ lock = Nil
     /\ News(t)
     /\ \E r \in Reloads(Found(t), manager, n) :
          \/ /\ r.ok
             /\ config' = Found(t)
             /\ manager' = r.m
             /\ lock' = t
             /\ pc' = [pc EXCEPT ![t] = "save"]
             /\ job' = [job EXCEPT ![t] = [@ EXCEPT !.old = At(config, n).models]]
             /\ FailsLoads(r.bad)
          \/ /\ ~r.ok
             /\ \E b \in Recovers(config, r.m, n) :
                  manager' = b.m /\ FailsLoads(r.bad + b.bad)
             /\ Ends(t)
             /\ UNCHANGED config
     /\ UNCHANGED <<fileVars, edits, runs, badWrites, dirty, doubled>>

\* Mutant: the new list stays in memory.
Undone_Kept(t) == config

\* The models from before are put back, in the entry t changed.
Undone(t) ==
  IF job[t].meanwhile = "replaced" THEN config
  ELSE With(config, job[t].name, job[t].old)

\* The thread has written the file, or failed to.
Saved(t) ==
  LET n == job[t].name
      restored == Undone(t)
  IN /\ pc[t] = "save"
     /\ \/ /\ SaveWithBackup(config, TRUE)
           /\ dirty' = FALSE
           /\ UNCHANGED <<config, manager, badLoads>>
        \/ /\ SaveWithBackup(config, FALSE)
           /\ config' = restored
           /\ \E r \in Reloads(restored, manager, n) :
                \/ r.ok /\ manager' = r.m /\ FailsLoads(r.bad)
                \/ /\ ~r.ok
                   /\ \E b \in Recovers(restored, r.m, n) :
                        manager' = b.m /\ FailsLoads(r.bad + b.bad)
           /\ dirty' = (dirty \/ job[t].meanwhile = "written")
     /\ Ends(t)
     /\ UNCHANGED <<edits, runs, doubled>>

\* apply_auto_detect_models has the answer and has held the lock all along.
Apply(t) ==
  LET n == job[t].name
  IN /\ pc[t] = "detect" /\ t \in Applier
     /\ News(t)
     /\ \E r \in Reloads(Found(t), manager, n) :
          \/ /\ ~r.ok
             /\ manager' = r.m
             /\ FailsLoads(r.bad)
             /\ UNCHANGED <<config, fileVars, badWrites, dirty>>
          \/ /\ r.ok
             /\ SaveWithBackup(Found(t), TRUE)
             /\ config' = Found(t)
             /\ manager' = r.m
             /\ dirty' = FALSE
             /\ FailsLoads(r.bad)
          \/ /\ r.ok
             /\ SaveWithBackup(Found(t), FALSE)
             /\ \E b \in Reloads(config, r.m, n) :
                  manager' = b.m /\ FailsLoads(r.bad + b.bad)
             /\ UNCHANGED <<config, dirty>>
     /\ Ends(t)
     /\ UNCHANGED <<edits, runs, doubled>>

-----------------------------------------------------------------------------
\* What requests send: new catalogues are typed in.
Sent == {e \in Entry : e.tune = 0 /\ e.models = Manual}

ConfigNext ==
  \/ \E e \in Sent : CreateBackend(e) \/ ImportBackend(e)
  \/ \E n \in Name :
       \/ \E e \in Sent, kept \in BOOLEAN : UpdateBackend(n, e, kept)
       \/ DeleteBackend(n) \/ UpdateSchedule(n) \/ ReorderQueue(n)
  \/ RestoreBackends \/ OtherSave \/ RestartProcess
  \/ \E t \in Task, n \in Name : Ask(t, n)
  \/ \E t \in Task : \/ NoAnswer(t) \/ Answered(t) \/ Discards(t)
                    \/ Enter(t) \/ Saved(t) \/ Apply(t)

ConfigSpec == ConfigInit /\ [][ConfigNext]_configVars

\* Provider calls have a time limit, a lock that stays free is given to a
\* waiter, and the thread that writes the file ends.
Proceeds(t) ==
  NoAnswer(t) \/ Answered(t) \/ Discards(t) \/ Enter(t) \/ Saved(t) \/ Apply(t)

ConfigFairness == \A t \in Task : WF_configVars(Proceeds(t))

ConfigFairSpec == ConfigSpec /\ ConfigFairness

-----------------------------------------------------------------------------
(* Properties                                                              *)

\* The adapters that serve requests are the ones registered under their
\* names, each made of an enabled configuration that is in the list: no
\* sequence of edits, failures and detections leaves a provider serving that
\* is deleted, disabled or configured differently.  Excepted are names that
\* stand for two configurations (doubled).
Registered ==
  /\ \A a \in manager.active : a.name \in doubled \/ manager.backends[a.name] = a
  /\ \A n \in Name \ doubled :
       Loaded(manager, n) =>
         /\ Has(config, n)
         /\ At(config, n).enable
         /\ At(config, n).conf = manager.backends[n].conf

\* When nobody is saving, the file holds the list in memory or is broken: a
\* failed update, reordering or detection is undone in memory.  dirty names
\* the requests that leave the difference.
MemoryIsFile ==
  (\A t \in Task : pc[t] # "save") /\ ~dirty => file \in {config, Broken}

\* A detection stores the list of the provider the entry describes: an
\* answer that took so long that the provider was edited, replaced or made
\* anew is discarded.
FreshStep ==
  \A i \in DOMAIN config \cap DOMAIN config' :
    /\ config'[i].models # config[i].models
    /\ config'[i].models \in Conf
    /\ config'[i].name \notin doubled
    /\ edits' = edits
    => \/ config'[i].models = config'[i].conf
       \/ \E t \in Task : pc[t] = "save" /\ config'[i].models = job[t].old

FreshCatalogue == [][FreshStep]_configVars

\* A provider whose entry stays, enabled and with the same settings, goes on
\* serving: no failed write takes it out of service, only a load of it that
\* fails, or a restore that could not be saved.
StaysStep ==
  \A n \in Name \ (doubled \cup doubled') :
    /\ Loaded(manager, n) /\ ~Loaded(manager', n)
    /\ Has(config, n) /\ Has(config', n)
    /\ Fingerprint(At(config', n)) = Fingerprint(At(config, n))
    => badLoads' > badLoads \/ dirty'

StaysLoaded == [][StaysStep]_configVars

\* Every detection ends and gives the lock back.
DetectionsEnd ==
  \A t \in Task : pc[t] # "idle" ~> pc[t] = "idle" /\ lock # t
=============================================================================
