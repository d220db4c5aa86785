---------------------------- MODULE LifecycleProofs ----------------------------
(***************************************************************************)
(* Proofs about ModelCatalog and the Lifecycle that extends it, for every  *)
(* set of models, every configured list and any number of requests.        *)
(*                                                                         *)
(* The catalog first: its types, that an acknowledged model is kept and    *)
(* allowed, that the disk copy of the inventory never goes back and is the *)
(* cache when all is quiet, and that the gateway implements AllowList.     *)
(*                                                                         *)
(* Then the process: whatever it does around its inventory, the inventory  *)
(* behaves as ModelCatalog says, and the router is closed last.            *)
(***************************************************************************)
EXTENDS Lifecycle, TLAPS

TaskType == [at : Points, kind : {"none", "pass", "list", "allow"},
             model : Models \cup {NoModel}, snap : SUBSET Models,
             got : SUBSET Models, old : SUBSET Models, ver : Nat]

\* From its gate on, and from its lock on, a request is about a model.
Asking == \A t \in Tasks :
    task[t].at \in {"gate", "lock", "read", "write", "load", "swap", "answer"}
       => task[t].model \in Models

\* Nobody works, and nobody holds a lock, while no process runs.
Dormant == ~alive => /\ locked = NoTask /\ writer = NoTask
                     /\ \A t \in Tasks : task[t].at = "idle"

TInv == TypeOK /\ Asking /\ Dormant

-----------------------------------------------------------------------------
(* What the steps do to a task.                                            *)

LEMMA IdleType == Idle \in TaskType
  BY DEF Idle, TaskType, Points

\* A task that is set leaves the others alone.
LEMMA SetTask ==
  ASSUME TypeOK, NEW t \in Tasks, NEW r \in TaskType,
         task' = [task EXCEPT ![t] = r]
  PROVE  /\ task' \in [Tasks -> TaskType]
         /\ task'[t] = r
         /\ \A u \in Tasks : u # t => task'[u] = task[u]
  BY DEF TypeOK, TaskType

LEMMA GoesTask ==
  ASSUME TypeOK, NEW t \in Tasks, NEW p \in Points, Goes(t, p)
  PROVE  /\ task' \in [Tasks -> TaskType]
         /\ \A u \in Tasks : u # t => task'[u] = task[u]
         /\ task'[t].at = p
         /\ task'[t].kind = task[t].kind /\ task'[t].model = task[t].model
         /\ task'[t].snap = task[t].snap /\ task'[t].got = task[t].got
         /\ task'[t].old = task[t].old /\ task'[t].ver = task[t].ver
  <1>1. task[t] \in TaskType /\ task \in [Tasks -> TaskType]
    BY DEF TypeOK, TaskType
  <1>2. task'[t] = [task[t] EXCEPT !.at = p] /\ \A u \in Tasks : u # t => task'[u] = task[u]
    BY <1>1 DEF Goes
  <1>3. [task[t] EXCEPT !.at = p] \in TaskType
    BY <1>1 DEF TaskType
  <1>4. task' \in [Tasks -> TaskType]
    BY <1>1, <1>3 DEF Goes
  <1> QED BY <1>1, <1>2, <1>4 DEF TaskType

LEMMA EndsTask ==
  ASSUME TypeOK, NEW t \in Tasks, Ends(t)
  PROVE  /\ task' \in [Tasks -> TaskType]
         /\ \A u \in Tasks : u # t => task'[u] = task[u]
         /\ task'[t] = Idle /\ task'[t].at = "idle" /\ task'[t].snap = {}
         /\ task'[t].model = NoModel
  BY IdleType, SetTask DEF Ends, Idle

LEMMA GotTask ==
  ASSUME TypeOK, NEW t \in Tasks, NEW p \in Points, NEW S \in SUBSET Models, Got(t, S, p)
  PROVE  /\ task' \in [Tasks -> TaskType]
         /\ \A u \in Tasks : u # t => task'[u] = task[u]
         /\ task'[t].at = p /\ task'[t].got = S
         /\ task'[t].kind = task[t].kind /\ task'[t].model = task[t].model
         /\ task'[t].snap = task[t].snap
  <1>1. task[t] \in TaskType /\ task \in [Tasks -> TaskType]
    BY DEF TypeOK, TaskType
  <1> DEFINE r == [[task[t] EXCEPT !.at = p] EXCEPT !.got = S]
  <1>2. r \in TaskType /\ r.at = p /\ r.got = S
        /\ r.kind = task[t].kind /\ r.model = task[t].model /\ r.snap = task[t].snap
    BY <1>1 DEF TaskType
  <1>3. task' = [task EXCEPT ![t] = r]
    BY <1>1 DEF Got, TaskType
  <1> HIDE DEF r
  <1> QED BY <1>2, <1>3, SetTask

LEMMA SnapshotTask ==
  ASSUME TypeOK, NEW t \in Tasks, Snapshot(t)
  PROVE  /\ task' \in [Tasks -> TaskType]
         /\ \A u \in Tasks : u # t => task'[u] = task[u]
         /\ task'[t].at = "save" /\ task'[t].old = entry.models /\ task'[t].ver = entry.ver
         /\ task'[t].snap = task[t].snap /\ task'[t].model = task[t].model
  <1>1. task[t] \in TaskType /\ task \in [Tasks -> TaskType]
        /\ entry.models \in SUBSET Models /\ entry.ver \in Nat
    BY DEF TypeOK, TaskType
  <1> DEFINE r == [[[task[t] EXCEPT !.at = "save"] EXCEPT !.old = entry.models]
                     EXCEPT !.ver = entry.ver]
  <1>2. r \in TaskType /\ r.at = "save" /\ r.old = entry.models /\ r.ver = entry.ver
        /\ r.snap = task[t].snap /\ r.model = task[t].model
    BY <1>1 DEF TaskType, Points
  <1>3. task' = [task EXCEPT ![t] = r]
    BY <1>1 DEF Snapshot, TaskType
  <1> HIDE DEF r
  <1> QED BY <1>2, <1>3, SetTask

\* ReadOverlay and LoadSnapshot take a copy and go on.
LEMMA ReadTask ==
  ASSUME TypeOK, NEW t \in Tasks, ReadOverlay(t)
  PROVE  /\ task' \in [Tasks -> TaskType]
         /\ \A u \in Tasks : u # t => task'[u] = task[u]
         /\ task'[t].at = "write" /\ task'[t].old = overlay
         /\ task'[t].model = task[t].model /\ task'[t].snap = task[t].snap
  <1>1. task[t] \in TaskType /\ task \in [Tasks -> TaskType] /\ overlay \in SUBSET Models
    BY DEF TypeOK, TaskType
  <1> DEFINE r == [[task[t] EXCEPT !.at = "write"] EXCEPT !.old = overlay]
  <1>2. r \in TaskType /\ r.at = "write" /\ r.old = overlay
        /\ r.model = task[t].model /\ r.snap = task[t].snap
    BY <1>1 DEF TaskType, Points
  <1>3. task' = [task EXCEPT ![t] = r]
    BY <1>1 DEF ReadOverlay, TaskType
  <1> HIDE DEF r
  <1> QED BY <1>2, <1>3, SetTask

LEMMA LoadTask ==
  ASSUME TypeOK, NEW t \in Tasks, LoadSnapshot(t)
  PROVE  /\ task' \in [Tasks -> TaskType]
         /\ \A u \in Tasks : u # t => task'[u] = task[u]
         /\ task'[t].at = "swap" /\ task'[t].old = reg
         /\ task'[t].model = task[t].model /\ task'[t].snap = task[t].snap
  <1>1. task[t] \in TaskType /\ task \in [Tasks -> TaskType] /\ reg \in SUBSET Models
    BY DEF TypeOK, TaskType
  <1> DEFINE r == [[task[t] EXCEPT !.at = "swap"] EXCEPT !.old = reg]
  <1>2. r \in TaskType /\ r.at = "swap" /\ r.old = reg
        /\ r.model = task[t].model /\ r.snap = task[t].snap
    BY <1>1 DEF TaskType, Points
  <1>3. task' = [task EXCEPT ![t] = r]
    BY <1>1 DEF LoadSnapshot, TaskType
  <1> HIDE DEF r
  <1> QED BY <1>2, <1>3, SetTask

\* A task that begins has the registry's snapshot.
LEMMA BeginsTask ==
  ASSUME TypeOK, NEW t \in Tasks, NEW k \in {"pass", "list", "allow"},
         NEW p \in Points, NEW m \in Models \cup {NoModel}, Begins(t, k, p, m)
  PROVE  /\ task' \in [Tasks -> TaskType]
         /\ \A u \in Tasks : u # t => task'[u] = task[u]
         /\ task'[t].at = p /\ task'[t].kind = k /\ task'[t].model = m /\ task'[t].snap = reg
         /\ alive /\ UNCHANGED <<upstream, held, alive, store, cache, acked>>
  <1> DEFINE r == [[[[Idle EXCEPT !.at = p] EXCEPT !.kind = k] EXCEPT !.model = m]
                     EXCEPT !.snap = reg]
  <1>1. r \in TaskType /\ r.at = p /\ r.kind = k /\ r.model = m /\ r.snap = reg
    BY DEF TypeOK, Idle, TaskType
  <1>2. task' = [task EXCEPT ![t] = r]
    BY DEF Begins, Idle
  <1> HIDE DEF r
  <1> QED BY <1>1, <1>2, SetTask DEF Begins

-----------------------------------------------------------------------------
(* Types.                                                                  *)

\* A disjunct of Step is a step of a task that is not idle, so of a process
\* that runs, which it leaves running.
LEMMA StepsAwake ==
  ASSUME TInv, NEW t \in Tasks, Step(t)
  PROVE  alive /\ alive'
  BY DEF TInv, Dormant, Step, AlreadyAllowed, Get, Dial, Keep, Put, FlushTake, Save, Lock,
     ReadOverlay, WriteOverlay, LoadSnapshot, Swap, Answer

\* What a new state owes TInv when only the task t moved.
LEMMA TaskMoved ==
  ASSUME TInv, NEW t \in Tasks, alive',
         task' \in [Tasks -> TaskType],
         \A u \in Tasks : u # t => task'[u] = task[u],
         task'[t].at \in {"gate", "lock", "read", "write", "load", "swap", "answer"}
            => task'[t].model \in Models
  PROVE  Asking' /\ Dormant' /\ task' \in [Tasks -> TaskType]
  BY DEF TInv, Asking, Dormant

LEMMA FlushedTask ==
  ASSUME TypeOK, NEW t \in Tasks, Flushed(t)
  PROVE  /\ task' \in [Tasks -> TaskType]
         /\ \A u \in Tasks : u # t => task'[u] = task[u]
         /\ task'[t].snap = {}
         /\ task'[t].model \in {task[t].model, NoModel}
         /\ \/ task'[t].at = "lock" /\ task'[t].model \in Models
            \/ task'[t].at = "idle"
  <1>1. CASE Carries(t, "lock") /\ task[t].model \in task[t].got
    <2> DEFINE r == [[[Idle EXCEPT !.at = "lock"] EXCEPT !.kind = task[t].kind]
                       EXCEPT !.model = task[t].model]
    <2>1. task[t] \in TaskType /\ task[t].got \subseteq Models
      BY DEF TypeOK, TaskType
    <2>2. r \in TaskType /\ r.at = "lock" /\ r.model = task[t].model /\ r.snap = {}
      BY <2>1 DEF Idle, TaskType, Points
    <2>3. task' = [task EXCEPT ![t] = r]
      BY <1>1 DEF Carries, Idle
    <2> HIDE DEF r
    <2> QED BY <1>1, <2>1, <2>2, <2>3, SetTask
  <1>2. CASE Ends(t)
    BY <1>2, EndsTask
  <1> QED BY <1>1, <1>2 DEF Flushed

LEMMA TypeOfStep ==
  ASSUME CatalogAssumption, TInv, NEW t \in Tasks, Step(t)
  PROVE  TInv'
  <1>0. TypeOK /\ alive /\ alive' /\ task[t] \in TaskType
    BY StepsAwake DEF TInv, TypeOK, TaskType
  <1>p. {"dial", "flush", "keep", "put", "read", "load", "answer", "write", "swap"} \subseteq Points
    BY DEF Points
  <1> USE DEF store, cache
  <1>1. CASE AlreadyAllowed(t)
    <2>1. task[t].model \in Models
      BY <1>1 DEF AlreadyAllowed, TInv, Asking
    <2>2. CASE task[t].model \in task[t].snap
      BY <1>0, <1>1, <2>1, <2>2, EndsTask, TaskMoved DEF AlreadyAllowed, TInv, TypeOK, TaskType
    <2>3. CASE task[t].model \notin task[t].snap
      BY <1>0, <1>p, <1>1, <2>3, GoesTask, TaskMoved DEF AlreadyAllowed, TInv, TypeOK, TaskType
    <2> QED BY <2>2, <2>3
  <1>2. CASE Get(t)
    <2>1. PICK p \in {"flush", "dial"} : Goes(t, p)
      BY <1>2 DEF Get
    <2> QED BY <1>0, <1>p, <1>2, <2>1, GoesTask, TaskMoved DEF Get, TInv, TypeOK, TaskType
  <1>3. CASE Dial(t)
    <2>1. PICK S \in SUBSET Models, p \in {"keep", "put"} : Got(t, S, p)
      BY <1>0, <1>3 DEF Dial, ListStrict, TypeOK
    <2> QED BY <1>0, <1>p, <1>3, <2>1, GotTask, TaskMoved DEF Dial, TInv, TypeOK, TaskType
  <1>4. CASE Keep(t)
    BY <1>0, <1>p, <1>4, GoesTask, TaskMoved DEF Keep, TInv, TypeOK, TaskType
  <1>5. CASE Put(t)
    <2>1. task[t].got \cup task[t].snap \in SUBSET Models /\ task[t].snap \in SUBSET Models
      BY <1>0 DEF TaskType
    <2>2. PICK S \in SUBSET Models : Got(t, S, "flush")
      BY <1>0, <1>5, <2>1 DEF Put, TypeOK
    <2> DEFINE new == [models |-> task[t].got \cup task[t].snap, ver |-> entry.ver + 1]
    <2>a. entry \in [models : SUBSET Models, ver : Nat] /\ dirty \in BOOLEAN
      BY <1>0 DEF TypeOK
    <2>b. new \in [models : SUBSET Models, ver : Nat]
      BY <2>1, <2>a
    <2>c. entry' \in {entry, new} /\ dirty' \in {TRUE, dirty}
      BY <1>5 DEF Put
    <2>3. entry' \in [models : SUBSET Models, ver : Nat] /\ dirty' \in BOOLEAN
      BY <2>a, <2>b, <2>c
    <2> HIDE DEF new
    <2> QED BY <1>0, <1>p, <1>5, <2>2, <2>3, GotTask, TaskMoved DEF Put, TInv, TypeOK, TaskType
  <1>6. CASE FlushTake(t)
    <2>1. CASE dirty
      BY <1>0, <1>6, <2>1, SnapshotTask, TaskMoved, ZenonT(60) DEF FlushTake, TInv, TypeOK, TaskType
    <2>2. CASE ~dirty
      BY <1>0, <1>6, <2>2, FlushedTask, TaskMoved DEF FlushTake, TInv, TypeOK, TaskType
    <2> QED BY <2>1, <2>2
  <1>7. CASE Save(t)
    <2> DEFINE new == [models |-> task[t].old, ver |-> task[t].ver]
    <2>a. new \in [models : SUBSET Models, ver : Nat]
      BY <1>0 DEF TaskType
    <2>b. file' \in {file, new} /\ lost' \in BOOLEAN
      BY <1>7 DEF Save, Written
    <2>1. file' \in [models : SUBSET Models, ver : Nat] /\ lost' \in BOOLEAN
      BY <1>0, <2>a, <2>b DEF TypeOK
    <2> HIDE DEF new
    <2> QED BY <1>0, <1>7, <2>1, FlushedTask, TaskMoved DEF Save, TInv, TypeOK, TaskType
  <1>8. CASE Lock(t)
    <2>1. CASE locked' = t /\ Goes(t, "read")
      BY <1>0, <1>p, <1>8, <2>1, GoesTask, TaskMoved DEF Lock, TInv, Asking, TypeOK, TaskType
    <2>2. CASE UNCHANGED locked /\ Ends(t)
      BY <1>0, <1>8, <2>2, EndsTask, TaskMoved DEF Lock, TInv, TypeOK, TaskType
    <2> QED BY <1>8, <2>1, <2>2 DEF Lock
  <1>9. CASE ReadOverlay(t)
    <2>1. task[t].model \in Models
      BY <1>9 DEF ReadOverlay, TInv, Asking
    <2>2. Asking' /\ Dormant' /\ task' \in [Tasks -> TaskType]
      BY <1>0, <1>9, <2>1, ReadTask, TaskMoved
    <2> QED BY <1>0, <1>9, <2>2 DEF ReadOverlay, TInv, TypeOK, TaskType
  <1>10. CASE WriteOverlay(t)
    <2>1. task[t].model \in Models
      BY <1>10 DEF WriteOverlay, TInv, Asking
    <2>2. CASE overlay' = task[t].old \cup {task[t].model} /\ Goes(t, "load")
      <3>1. overlay' \in SUBSET Models
        BY <1>0, <2>1, <2>2 DEF TaskType
      <3> QED BY <1>0, <1>p, <1>10, <2>1, <2>2, <3>1, GoesTask, TaskMoved DEF WriteOverlay, TInv, TypeOK, TaskType
    <2>3. CASE UNCHANGED overlay /\ Ends(t)
      BY <1>0, <1>10, <2>3, EndsTask, TaskMoved DEF WriteOverlay, TInv, TypeOK, TaskType
    <2> QED BY <1>10, <2>2, <2>3 DEF WriteOverlay
  <1>11. CASE LoadSnapshot(t)
    <2>1. task[t].model \in Models
      BY <1>11 DEF LoadSnapshot, TInv, Asking
    <2>2. Asking' /\ Dormant' /\ task' \in [Tasks -> TaskType]
      BY <1>0, <1>11, <2>1, LoadTask, TaskMoved
    <2> QED BY <1>0, <1>11, <2>2 DEF LoadSnapshot, TInv, TypeOK, TaskType
  <1>12. CASE Swap(t)
    <2>1. task[t].model \in Models
      BY <1>12 DEF Swap, TInv, Asking
    <2>2. PICK p \in {"answer", "load"} : Goes(t, p)
      BY <1>12 DEF Swap
    <2>3. reg' \in SUBSET Models
      BY <1>0, <1>12, <2>1 DEF Swap, TypeOK
    <2> QED BY <1>0, <1>p, <1>12, <2>1, <2>2, <2>3, GoesTask, TaskMoved DEF Swap, TInv, TypeOK, TaskType
  <1>13. CASE Answer(t)
    <2>1. task[t].model \in Models
      BY <1>13 DEF Answer, TInv, Asking
    <2> QED BY <1>0, <1>13, <2>1, EndsTask, TaskMoved DEF Answer, TInv, TypeOK, TaskType
  <1> QED BY <1>1, <1>2, <1>3, <1>4, <1>5, <1>6, <1>7, <1>8, <1>9, <1>10, <1>11, <1>12, <1>13 DEF Step

LEMMA TypeOfStart ==
  ASSUME CatalogAssumption, TInv, Starts
  PROVE  /\ alive /\ UNCHANGED <<upstream, held, alive, store, cache, acked>>
         /\ TInv'
         /\ \E t \in Tasks : /\ \A u \in Tasks : u # t => task'[u] = task[u]
                            /\ task'[t].snap = reg
                            /\ task'[t].at \in {"dial", "get", "gate"}
  <1>0. TypeOK /\ {"dial", "get", "gate"} \subseteq Points
    BY DEF TInv, Points
  <1>1. PICK t \in Tasks, k \in {"pass", "list", "allow"}, p \in {"dial", "get", "gate"},
             m \in Models \cup {NoModel} :
          Begins(t, k, p, m) /\ (p = "gate" => m \in Models)
    <2>1. CASE StartPass
      BY <2>1, Zenon DEF StartPass, CatalogAssumption
    <2>2. CASE \E t \in Tasks : StartList(t)
      BY <2>2, Zenon DEF StartList
    <2>3. CASE \E t \in Tasks, m \in Models : StartAllow(t, m)
      BY <2>3, Zenon DEF StartAllow
    <2> QED BY <2>1, <2>2, <2>3 DEF Starts
  <1>2. /\ task' \in [Tasks -> TaskType]
        /\ \A u \in Tasks : u # t => task'[u] = task[u]
        /\ task'[t].at = p /\ task'[t].model = m /\ task'[t].snap = reg
        /\ alive /\ UNCHANGED <<upstream, held, alive, store, cache, acked>>
    BY <1>0, <1>1, BeginsTask
  <1>3. Asking' /\ Dormant'
    BY <1>1, <1>2 DEF TInv, Asking, Dormant
  <1>4. TypeOK'
    BY <1>0, <1>2 DEF TypeOK, TaskType, store, cache
  <1> QED BY <1>1, <1>2, <1>3, <1>4 DEF TInv

LEMMA TypeOfBoot ==
  ASSUME CatalogAssumption, TInv, Boot
  PROVE  TInv' /\ UNCHANGED <<overlay, task, acked>>
  <1>1. UNCHANGED <<upstream, held, overlay, locked, dirty, writer, file, task, acked>> /\ alive'
    BY DEF Boot
  <1> DEFINE loaded(models) == [models |-> models, ver |-> file.ver]
  <1>2. PICK models \in {file.models, {}} : entry' = loaded(models)
    BY DEF Boot
  <1>3. file.models \in SUBSET Models /\ file.ver \in Nat
    BY DEF TInv, TypeOK
  <1>4. loaded(models) \in [models : SUBSET Models, ver : Nat]
    BY <1>2, <1>3
  <1> HIDE DEF loaded
  <1>5. TypeOK'
    BY <1>1, <1>2, <1>4 DEF Boot, TInv, TypeOK, CatalogAssumption
  <1>6. Asking' /\ Dormant'
    BY <1>1 DEF TInv, Asking, Dormant
  <1> QED BY <1>1, <1>5, <1>6 DEF TInv

LEMMA TypeOfDie ==
  ASSUME TInv, Die
  PROVE  TInv' /\ \A t \in Tasks : task'[t] = Idle
  <1>1. task' \in [Tasks -> TaskType] /\ \A t \in Tasks : task'[t] = Idle
    BY IdleType DEF Die
  <1>2. Asking' /\ Dormant'
    BY <1>1 DEF Die, Asking, Dormant, Idle
  <1>3. TypeOK'
    BY <1>1 DEF Die, TInv, TypeOK, TaskType
  <1> QED BY <1>1, <1>2, <1>3 DEF TInv

LEMMA TypeOfNext ==
  ASSUME CatalogAssumption, TInv, [Next]_vars
  PROVE  TInv'
  <1>1. CASE UpstreamChanges
    BY <1>1 DEF UpstreamChanges, TInv, TypeOK, Asking, Dormant, store, cache
  <1>2. CASE UNCHANGED vars
    BY <1>2 DEF vars, TInv, TypeOK, Asking, Dormant, store, cache
  <1> QED BY <1>1, <1>2, TypeOfBoot, TypeOfDie, TypeOfStart, TypeOfStep DEF Next

LEMMA TypeOfInit == CatalogAssumption /\ Init => TInv
  <1> SUFFICES ASSUME CatalogAssumption, Init PROVE TInv
    OBVIOUS
  <1>1. task \in [Tasks -> TaskType]
    BY IdleType DEF Init
  <1>2. TypeOK
    BY <1>1 DEF Init, TypeOK, TaskType
  <1> QED BY <1>2 DEF Init, TInv, Asking, Dormant, Idle

LEMMA TypeInvariant == Spec => []TInv
  <1> USE CatalogAssumption
  <1>1. Init => TInv
    BY TypeOfInit
  <1>2. TInv /\ [Next]_vars => TInv'
    BY TypeOfNext
  <1> QED BY <1>1, <1>2, PTL DEF Spec

\* Every variable keeps its type, whatever passes, requests, restarts and
\* failing writes do to it.
THEOREM TypeCorrect == Spec => []TypeOK
  BY TypeInvariant, PTL DEF TInv

-----------------------------------------------------------------------------
(* What was acknowledged.                                                  *)

\* Only the holder of the file lock is between its read and its write, and
\* what it read is still in the file.
HolderReads == \A t \in Tasks :
    /\ task[t].at \in {"read", "write"} => locked = t
    /\ task[t].at = "write" => task[t].old = overlay

\* A request goes to the registry with its model in the file, and answers with
\* it in the registry.
KeptBeforeAllowed == \A t \in Tasks :
    /\ task[t].at \in {"load", "swap"} => task[t].model \in overlay
    /\ task[t].at = "answer" => task[t].model \in reg

\* The registry only grows while the process runs, within what is kept.
RegistryGrows ==
    /\ reg \subseteq overlay \cup Configured
    /\ \A t \in Tasks : task[t].snap \subseteq reg

KInv == HolderReads /\ KeptBeforeAllowed /\ RegistryGrows /\ AckedIsKept /\ AckedIsAllowed

\* What a new state owes KInv when the overlay, the registry and its lock
\* stayed and only the task t moved.
LEMMA KeptMoved ==
  ASSUME KInv, NEW t \in Tasks, UNCHANGED <<alive, reg, overlay, locked, acked>>,
         \A u \in Tasks : u # t => task'[u] = task[u],
         task'[t].snap \subseteq reg,
         task'[t].at \notin {"read", "write", "load", "swap", "answer"}
  PROVE  KInv'
  BY DEF KInv, HolderReads, KeptBeforeAllowed, RegistryGrows, AckedIsKept, AckedIsAllowed

LEMMA KeptOfStep ==
  ASSUME CatalogAssumption, TInv, KInv, NEW t \in Tasks, Step(t)
  PROVE  KInv'
  <1>0. TypeOK /\ alive /\ alive' /\ task[t] \in TaskType /\ task[t].snap \subseteq reg
    BY StepsAwake DEF TInv, TypeOK, TaskType, KInv, RegistryGrows
  <1>p. {"dial", "flush", "keep", "put", "read", "load", "answer", "write", "swap"} \subseteq Points
    BY DEF Points
  <1> USE DEF store, cache
  <1>1. CASE AlreadyAllowed(t)
    <2>1. CASE task[t].model \in task[t].snap
      <3>1. /\ \A u \in Tasks : u # t => task'[u] = task[u]
            /\ task'[t].at = "idle" /\ task'[t].snap = {}
        BY <1>0, <1>1, <2>1, EndsTask DEF AlreadyAllowed
      <3>2. acked' = acked \cup {task[t].model} /\ task[t].model \in reg
        BY <1>0, <1>1, <2>1 DEF AlreadyAllowed
      <3> QED BY <1>1, <3>1, <3>2 DEF AlreadyAllowed, KInv, HolderReads, KeptBeforeAllowed,
                 RegistryGrows, AckedIsKept, AckedIsAllowed
    <2>2. CASE task[t].model \notin task[t].snap
      BY <1>0, <1>p, <1>1, <2>2, GoesTask, KeptMoved DEF AlreadyAllowed
    <2> QED BY <2>1, <2>2
  <1>2. CASE Get(t)
    <2>1. PICK p \in {"flush", "dial"} : Goes(t, p)
      BY <1>2 DEF Get
    <2> QED BY <1>0, <1>p, <1>2, <2>1, GoesTask, KeptMoved DEF Get
  <1>3. CASE Dial(t)
    <2>1. PICK S \in SUBSET Models, p \in {"keep", "put"} : Got(t, S, p)
      BY <1>0, <1>3 DEF Dial, ListStrict, TypeOK
    <2> QED BY <1>0, <1>p, <1>3, <2>1, GotTask, KeptMoved DEF Dial
  <1>4. CASE Keep(t)
    BY <1>0, <1>p, <1>4, GoesTask, KeptMoved DEF Keep
  <1>5. CASE Put(t)
    <2>1. task[t].got \cup task[t].snap \in SUBSET Models /\ task[t].snap \in SUBSET Models
      BY <1>0 DEF TaskType
    <2>2. PICK S \in SUBSET Models : Got(t, S, "flush")
      BY <1>0, <1>5, <2>1 DEF Put, TypeOK
    <2> QED BY <1>0, <1>p, <1>5, <2>2, GotTask, KeptMoved DEF Put
  <1>6. CASE FlushTake(t)
    <2>1. CASE dirty
      BY <1>0, <1>6, <2>1, SnapshotTask, KeptMoved DEF FlushTake
    <2>2. CASE ~dirty
      BY <1>0, <1>6, <2>2, FlushedTask, KeptMoved DEF FlushTake
    <2> QED BY <2>1, <2>2
  <1>7. CASE Save(t)
    BY <1>0, <1>7, FlushedTask, KeptMoved DEF Save
  <1>8. CASE Lock(t)
    <2>1. CASE locked = NoTask /\ locked' = t /\ Goes(t, "read")
      <3>1. /\ \A u \in Tasks : u # t => task'[u] = task[u]
            /\ task'[t].at = "read" /\ task'[t].snap = task[t].snap
        BY <1>0, <1>p, <2>1, GoesTask
      <3>2. \A u \in Tasks : task[u].at \notin {"read", "write"}
        BY <2>1 DEF KInv, HolderReads, CatalogAssumption
      <3> QED BY <1>0, <1>8, <2>1, <3>1, <3>2 DEF Lock, KInv, HolderReads, KeptBeforeAllowed,
                 RegistryGrows, AckedIsKept, AckedIsAllowed
    <2>2. CASE UNCHANGED locked /\ Ends(t)
      BY <1>0, <1>8, <2>2, EndsTask, KeptMoved DEF Lock
    <2> QED BY <1>8, <2>1, <2>2 DEF Lock
  <1>9. CASE ReadOverlay(t)
    <2>2. /\ \A u \in Tasks : u # t => task'[u] = task[u]
          /\ task'[t].at = "write" /\ task'[t].old = overlay /\ task'[t].snap = task[t].snap
      BY <1>0, <1>9, ReadTask
    <2>3. locked = t
      BY <1>9 DEF ReadOverlay, KInv, HolderReads
    <2>4. UNCHANGED <<alive, reg, overlay, locked, acked>>
      BY <1>9 DEF ReadOverlay
    <2> QED BY <1>0, <2>2, <2>3, <2>4 DEF KInv, HolderReads, KeptBeforeAllowed,
               RegistryGrows, AckedIsKept, AckedIsAllowed
  <1>10. CASE WriteOverlay(t)
    <2>1. /\ locked = t /\ task[t].old = overlay
          /\ \A u \in Tasks : u # t => task[u].at \notin {"read", "write"}
      BY <1>10 DEF WriteOverlay, KInv, HolderReads
    <2>2. CASE overlay' = task[t].old \cup {task[t].model} /\ Goes(t, "load")
      <3>1. /\ \A u \in Tasks : u # t => task'[u] = task[u]
            /\ task'[t].at = "load" /\ task'[t].snap = task[t].snap
            /\ task'[t].model = task[t].model
        BY <1>0, <1>p, <2>2, GoesTask
      <3> QED BY <1>0, <1>10, <2>1, <2>2, <3>1 DEF WriteOverlay, KInv, HolderReads,
                 KeptBeforeAllowed, RegistryGrows, AckedIsKept, AckedIsAllowed
    <2>3. CASE UNCHANGED overlay /\ Ends(t)
      <3>1. /\ \A u \in Tasks : u # t => task'[u] = task[u]
            /\ task'[t].at = "idle" /\ task'[t].snap = {}
        BY <1>0, <2>3, EndsTask
      <3> QED BY <1>0, <1>10, <2>1, <2>3, <3>1 DEF WriteOverlay, KInv, HolderReads,
                 KeptBeforeAllowed, RegistryGrows, AckedIsKept, AckedIsAllowed
    <2> QED BY <1>10, <2>2, <2>3 DEF WriteOverlay
  <1>11. CASE LoadSnapshot(t)
    <2>2. /\ \A u \in Tasks : u # t => task'[u] = task[u]
          /\ task'[t].at = "swap" /\ task'[t].snap = task[t].snap
          /\ task'[t].model = task[t].model
      BY <1>0, <1>11, LoadTask
    <2>3. UNCHANGED <<alive, reg, overlay, locked, acked>> /\ task[t].model \in overlay
      BY <1>11 DEF LoadSnapshot, KInv, KeptBeforeAllowed
    <2> QED BY <1>0, <2>2, <2>3 DEF KInv, HolderReads, KeptBeforeAllowed,
               RegistryGrows, AckedIsKept, AckedIsAllowed
  <1>12. CASE Swap(t)
    <2>1. task[t].model \in overlay
      BY <1>12 DEF Swap, KInv, KeptBeforeAllowed
    <2>2. CASE reg' = reg \cup {task[t].model} /\ Goes(t, "answer")
      <3>1. /\ \A u \in Tasks : u # t => task'[u] = task[u]
            /\ task'[t].at = "answer" /\ task'[t].snap = task[t].snap
            /\ task'[t].model = task[t].model
        BY <1>0, <1>p, <2>2, GoesTask
      <3> QED BY <1>0, <1>12, <2>1, <2>2, <3>1 DEF Swap, KInv, HolderReads, KeptBeforeAllowed,
                 RegistryGrows, AckedIsKept, AckedIsAllowed
    <2>3. CASE UNCHANGED reg /\ Goes(t, "load")
      <3>1. /\ \A u \in Tasks : u # t => task'[u] = task[u]
            /\ task'[t].at = "load" /\ task'[t].snap = task[t].snap
            /\ task'[t].model = task[t].model
        BY <1>0, <1>p, <2>3, GoesTask
      <3> QED BY <1>0, <1>12, <2>1, <2>3, <3>1 DEF Swap, KInv, HolderReads, KeptBeforeAllowed,
                 RegistryGrows, AckedIsKept, AckedIsAllowed
    <2> QED BY <1>12, <2>2, <2>3 DEF Swap
  <1>13. CASE Answer(t)
    <2>1. /\ \A u \in Tasks : u # t => task'[u] = task[u]
          /\ task'[t].at = "idle" /\ task'[t].snap = {}
      BY <1>0, <1>13, EndsTask DEF Answer
    <2>2. acked' = acked \cup {task[t].model} /\ task[t].model \in reg
      BY <1>13 DEF Answer, KInv, KeptBeforeAllowed
    <2> QED BY <1>0, <1>13, <2>1, <2>2 DEF Answer, KInv, HolderReads, KeptBeforeAllowed,
               RegistryGrows, AckedIsKept, AckedIsAllowed
  <1> QED BY <1>1, <1>2, <1>3, <1>4, <1>5, <1>6, <1>7, <1>8, <1>9, <1>10, <1>11, <1>12, <1>13 DEF Step

LEMMA KeptOfNext ==
  ASSUME CatalogAssumption, TInv, KInv, [Next]_vars
  PROVE  KInv'
  <1>1. CASE Boot
    <2>1. \A t \in Tasks : task[t].at = "idle" /\ task[t].snap \subseteq reg
      BY <1>1 DEF Boot, TInv, Dormant, KInv, RegistryGrows
    <2>2. reg = {} \/ reg \subseteq Configured \cup overlay
      BY DEF KInv, RegistryGrows
    <2> QED BY <1>1, <2>1, <2>2 DEF Boot, KInv, HolderReads, KeptBeforeAllowed, RegistryGrows,
               AckedIsKept, AckedIsAllowed
  <1>2. CASE Die
    <2>1. \A t \in Tasks : task'[t].at = "idle" /\ task'[t].snap = {}
      BY <1>2, TypeOfDie DEF Idle
    <2> QED BY <1>2, <2>1 DEF Die, KInv, HolderReads, KeptBeforeAllowed, RegistryGrows,
               AckedIsKept, AckedIsAllowed
  <1>3. CASE Starts
    BY <1>3, TypeOfStart DEF KInv, HolderReads, KeptBeforeAllowed, RegistryGrows, AckedIsKept,
       AckedIsAllowed, store, cache
  <1>4. CASE UpstreamChanges \/ UNCHANGED vars
    BY <1>4 DEF UpstreamChanges, vars, store, cache, KInv, HolderReads, KeptBeforeAllowed,
       RegistryGrows, AckedIsKept, AckedIsAllowed
  <1> QED BY <1>1, <1>2, <1>3, <1>4, KeptOfStep DEF Next

LEMMA KeptOfInit == Init => KInv
  BY DEF Init, KInv, HolderReads, KeptBeforeAllowed, RegistryGrows, AckedIsKept, AckedIsAllowed,
     Idle

LEMMA KeptInvariant == Spec => [](TInv /\ KInv)
  <1> USE CatalogAssumption
  <1>1. Init => TInv /\ KInv
    BY TypeOfInit, KeptOfInit
  <1>2. TInv /\ KInv /\ [Next]_vars => (TInv /\ KInv)'
    BY TypeOfNext, KeptOfNext
  <1> QED BY <1>1, <1>2, PTL DEF Spec

\* A model whose operator was told it is allowed stays in the overlay file or
\* the config, however many requests write the file and wherever the process
\* dies: the file lock is held from the read to the write.
THEOREM AcknowledgedIsKept == Spec => []AckedIsKept
  BY KeptInvariant, PTL DEF KInv

\* While a gateway runs its gate lets through every model it acknowledged, and
\* those of the gateways before it.
THEOREM AcknowledgedIsAllowed == Spec => []AckedIsAllowed
  BY KeptInvariant, PTL DEF KInv

-----------------------------------------------------------------------------
(* The disk copy.                                                          *)

\* Only the holder of writeMu writes; its copy is no older than the file, and
\* it is the cache unless something was put since.
Writing == \A t \in Tasks : task[t].at = "save" =>
    /\ writer = t
    /\ file.ver <= task[t].ver
    /\ task[t].ver <= entry.ver
    /\ ~dirty => task[t].ver = entry.ver

DiskBehind == file.ver <= entry.ver

SInv == Writing /\ DiskBehind /\ SavedWhenQuiet

\* What a new state owes SInv when the cache stayed and the task t neither
\* comes to the write nor leaves it.
LEMMA CacheStays ==
  ASSUME TypeOK, SInv, NEW t \in Tasks, UNCHANGED <<alive, cache>>,
         \A u \in Tasks : u # t => task'[u] = task[u],
         task'[t].at # "save"
  PROVE  SInv' /\ file'.ver >= file.ver
  <1>1. UNCHANGED <<entry, dirty, writer, file, lost>>
    BY DEF cache
  <1>2. Writing'
    BY <1>1 DEF SInv, Writing
  <1>3. DiskBehind' /\ SavedWhenQuiet'
    BY <1>1 DEF SInv, DiskBehind, SavedWhenQuiet
  <1>4. file'.ver >= file.ver
    BY <1>1 DEF TypeOK
  <1> QED BY <1>2, <1>3, <1>4 DEF SInv

LEMMA SavedOfStep ==
  ASSUME CatalogAssumption, TInv, SInv, NEW t \in Tasks, Step(t)
  PROVE  SInv' /\ file'.ver >= file.ver
  <1>0. TypeOK /\ alive /\ alive' /\ task[t] \in TaskType
        /\ file.ver \in Nat /\ entry.ver \in Nat
    BY StepsAwake DEF TInv, TypeOK, TaskType
  <1>p. {"dial", "flush", "keep", "put", "read", "load", "answer", "write", "swap"} \subseteq Points
    BY DEF Points
  <1>1. CASE AlreadyAllowed(t) \/ Get(t) \/ Keep(t) \/ Lock(t) \/ WriteOverlay(t) \/ Swap(t) \/ Answer(t)
    <2>1. PICK p \in {"idle", "dial", "flush", "put", "read", "load", "answer"} :
            \/ Ends(t)
            \/ p # "idle" /\ Goes(t, p)
      BY <1>1 DEF AlreadyAllowed, Get, Keep, Lock, WriteOverlay, Swap, Answer
    <2>2. UNCHANGED <<alive, cache>>
      BY <1>1 DEF AlreadyAllowed, Get, Keep, Lock, WriteOverlay, Swap, Answer, store, cache
    <2>3. (\A u \in Tasks : u # t => task'[u] = task[u]) /\ task'[t].at # "save"
      BY <1>0, <1>p, <2>1, EndsTask, GoesTask
    <2> QED BY <1>0, <2>2, <2>3, CacheStays
  <1>2. CASE Dial(t)
    <2>1. PICK S \in SUBSET Models, p \in {"keep", "put"} : Got(t, S, p)
      BY <1>0, <1>2 DEF Dial, ListStrict, TypeOK
    <2> QED BY <1>0, <1>p, <1>2, <2>1, GotTask, CacheStays DEF Dial
  <1>3. CASE ReadOverlay(t)
    BY <1>0, <1>3, ReadTask, CacheStays DEF ReadOverlay
  <1>4. CASE LoadSnapshot(t)
    BY <1>0, <1>4, LoadTask, CacheStays DEF LoadSnapshot
  <1>5. CASE Put(t)
    <2>1. task[t].got \cup task[t].snap \in SUBSET Models /\ task[t].snap \in SUBSET Models
      BY <1>0 DEF TaskType
    <2>2. PICK S \in SUBSET Models : Got(t, S, "flush")
      BY <1>0, <1>5, <2>1 DEF Put, TypeOK
    <2>3. (\A u \in Tasks : u # t => task'[u] = task[u]) /\ task'[t].at = "flush"
      BY <1>0, <1>p, <2>2, GotTask
    <2>4. UNCHANGED <<writer, file, lost>>
      BY <1>5 DEF Put
    <2>5. CASE UNCHANGED <<entry, dirty>>
      BY <1>0, <2>3, <2>4, <2>5, CacheStays DEF cache
    <2>6. CASE entry'.ver = entry.ver + 1 /\ dirty' = TRUE
      <3>1. \A u \in Tasks : task[u].ver \in Nat
        BY <1>0 DEF TypeOK
      <3>2. Writing'
        BY <1>0, <2>3, <2>4, <2>6, <3>1 DEF SInv, Writing
      <3>3. DiskBehind' /\ SavedWhenQuiet' /\ file'.ver >= file.ver
        BY <1>0, <2>4, <2>6 DEF SInv, DiskBehind, SavedWhenQuiet
      <3> QED BY <3>2, <3>3 DEF SInv
    <2>7. UNCHANGED <<entry, dirty>> \/ (entry'.ver = entry.ver + 1 /\ dirty' = TRUE)
      BY <1>5 DEF Put
    <2> QED BY <2>5, <2>6, <2>7
  <1>6. CASE FlushTake(t)
    <2>1. writer = NoTask /\ UNCHANGED <<entry, file, lost>>
      BY <1>6 DEF FlushTake
    <2>2. \A u \in Tasks : task[u].at # "save"
      BY <2>1 DEF SInv, Writing, CatalogAssumption
    <2>3. CASE dirty
      <3>1. /\ \A u \in Tasks : u # t => task'[u] = task[u]
            /\ task'[t].at = "save" /\ task'[t].ver = entry.ver
            /\ writer' = t /\ dirty' = FALSE
        BY <1>0, <1>6, <2>3, SnapshotTask DEF FlushTake
      <3>2. writer' # NoTask
        BY <3>1 DEF CatalogAssumption
      <3> QED BY <1>0, <2>1, <2>2, <3>1, <3>2 DEF SInv, Writing, DiskBehind, SavedWhenQuiet
    <2>4. CASE ~dirty
      <3>1. (\A u \in Tasks : u # t => task'[u] = task[u]) /\ task'[t].at # "save"
        BY <1>0, <1>6, <2>4, FlushedTask DEF FlushTake
      <3>2. UNCHANGED <<alive, cache>>
        BY <1>6, <2>4 DEF FlushTake, cache
      <3> QED BY <1>0, <3>1, <3>2, CacheStays
    <2> QED BY <2>3, <2>4
  <1>7. CASE Save(t)
    <2>1. /\ writer = t /\ file.ver <= task[t].ver /\ task[t].ver <= entry.ver
          /\ ~dirty => task[t].ver = entry.ver
      BY <1>7 DEF Save, SInv, Writing
    <2>2. \A u \in Tasks : u # t => task[u].at # "save"
      BY <2>1 DEF SInv, Writing
    <2>3. (\A u \in Tasks : u # t => task'[u] = task[u]) /\ task'[t].at # "save"
      BY <1>0, <1>7, FlushedTask DEF Save
    <2>4. UNCHANGED <<alive, entry, dirty>> /\ writer' = NoTask
      BY <1>7 DEF Save
    <2>5. \/ file'.ver = task[t].ver
          \/ lost' /\ UNCHANGED file
      BY <1>7 DEF Save, Written
    <2>6. Writing'
      BY <2>2, <2>3 DEF Writing
    <2>7. task[t].ver \in Nat
      BY <1>0 DEF TaskType
    <2>8. DiskBehind' /\ SavedWhenQuiet' /\ file'.ver >= file.ver
      BY <1>0, <2>1, <2>4, <2>5, <2>7 DEF SInv, DiskBehind, SavedWhenQuiet
    <2> QED BY <2>6, <2>8 DEF SInv
  <1> QED BY <1>1, <1>2, <1>3, <1>4, <1>5, <1>6, <1>7 DEF Step

LEMMA SavedOfNext ==
  ASSUME CatalogAssumption, TInv, SInv, [Next]_vars
  PROVE  SInv' /\ file'.ver >= file.ver
  <1>0. file.ver \in Nat /\ entry.ver \in Nat
    BY DEF TInv, TypeOK
  <1>1. CASE Boot
    <2>1. \A t \in Tasks : task[t].at = "idle"
      BY <1>1 DEF Boot, TInv, Dormant
    <2>2. entry'.ver = file.ver /\ UNCHANGED <<file, task>>
      BY <1>1 DEF Boot
    <2> QED BY <1>0, <2>1, <2>2 DEF SInv, Writing, DiskBehind, SavedWhenQuiet
  <1>2. CASE Die
    <2>1. \A t \in Tasks : task'[t].at = "idle"
      BY <1>2, TypeOfDie DEF Idle
    <2> QED BY <1>0, <1>2, <2>1 DEF Die, SInv, Writing, DiskBehind, SavedWhenQuiet
  <1>3. CASE Starts
    <2>1. PICK t \in Tasks : /\ \A u \in Tasks : u # t => task'[u] = task[u]
                             /\ task'[t].at \in {"dial", "get", "gate"}
      BY <1>3, TypeOfStart
    <2>2. UNCHANGED <<alive, cache>>
      BY <1>3, TypeOfStart
    <2> QED BY <2>1, <2>2, CacheStays DEF TInv
  <1>4. CASE UpstreamChanges \/ UNCHANGED vars
    BY <1>0, <1>4 DEF UpstreamChanges, vars, store, cache, SInv, Writing, DiskBehind, SavedWhenQuiet
  <1> QED BY <1>1, <1>2, <1>3, <1>4, SavedOfStep DEF Next

LEMMA SavedInvariant == Spec => [](TInv /\ SInv)
  <1> USE CatalogAssumption
  <1>1. Init => TInv /\ SInv
    <2>1. Init => SInv
      BY DEF Init, SInv, Writing, DiskBehind, SavedWhenQuiet, Idle
    <2> QED BY <2>1, TypeOfInit
  <1>2. TInv /\ SInv /\ [Next]_vars => (TInv /\ SInv)'
    BY TypeOfNext, SavedOfNext
  <1> QED BY <1>1, <1>2, PTL DEF Spec

\* No put is forgotten between the copy a flush takes and the write: the cache
\* is dirty from the put until a later copy.
THEOREM QuietIsSaved == Spec => []SavedWhenQuiet
  BY SavedInvariant, PTL DEF SInv

\* An older copy of the inventory never lands after a newer one, in one process
\* or across a restart: writeMu is held from the copy to the write.
THEOREM DiskMovesForward == Spec => DiskNeverOlder
  <1> USE CatalogAssumption
  <1>1. TInv /\ SInv /\ [Next]_vars => [file'.ver >= file.ver]_vars
    BY SavedOfNext
  <1> QED BY <1>1, SavedInvariant, PTL DEF Spec, DiskNeverOlder

-----------------------------------------------------------------------------
(* AllowList is implemented.                                               *)

promiseVars == <<alive, Wanted, overlay, reg, acked>>

LEMMA WantedAreModels == TInv => Wanted \subseteq Models
  BY DEF TInv, TypeOK, Wanted

\* A step of one task brings no model that nobody wants.
LEMMA WantedShrinks ==
  ASSUME NEW t \in Tasks, \A u \in Tasks : u # t => task'[u] = task[u],
         task'[t].model \in {task[t].model, NoModel}
  PROVE  /\ Wanted' \subseteq Wanted
         /\ task'[t].model = task[t].model => Wanted' = Wanted
  BY DEF Wanted

\* Requests that end, or nothing at all.
LEMMA Leaving ==
  ASSUME TInv, alive, Wanted' \subseteq Wanted, UNCHANGED <<alive, overlay, reg, acked>>
  PROVE  Promised!Next \/ UNCHANGED promiseVars
  <1>1. CASE Wanted = {}
    BY <1>1 DEF promiseVars
  <1>2. CASE Wanted # {}
    <2>1. PICK m \in Wanted : TRUE
      BY <1>2
    <2>2. m \in Models /\ Wanted' \in SUBSET (Wanted \cup {m})
      BY <2>1, WantedAreModels
    <2> QED BY <2>2 DEF Promised!Next, Promised!Ask
  <1> QED BY <1>1, <1>2

\* What each step does to the models that are wanted.
LEMMA WantedOfStep ==
  ASSUME CatalogAssumption, TInv, KInv, NEW t \in Tasks, Step(t)
  PROVE  /\ Wanted' \subseteq Wanted
         /\ overlay' # overlay \/ reg' # reg => Wanted' = Wanted
  <1>0. TypeOK /\ task[t] \in TaskType
    BY DEF TInv, TypeOK, TaskType
  <1>p. {"dial", "flush", "keep", "put", "read", "load", "answer", "write", "swap"} \subseteq Points
    BY DEF Points
  <1> SUFFICES /\ \A u \in Tasks : u # t => task'[u] = task[u]
               /\ task'[t].model \in {task[t].model, NoModel}
               /\ overlay' # overlay \/ reg' # reg => task'[t].model = task[t].model
    BY WantedShrinks
  <1> USE DEF store
  <1>1. CASE AlreadyAllowed(t)
    <2>1. Ends(t) \/ Goes(t, "dial")
      BY <1>1 DEF AlreadyAllowed
    <2> QED BY <1>0, <1>p, <1>1, <2>1, EndsTask, GoesTask DEF AlreadyAllowed
  <1>2. CASE Get(t) \/ Keep(t)
    <2>1. PICK p \in {"flush", "dial", "put"} : Goes(t, p)
      BY <1>2 DEF Get, Keep
    <2> QED BY <1>0, <1>p, <1>2, <2>1, GoesTask DEF Get, Keep
  <1>3. CASE Dial(t) \/ Put(t)
    <2>1. task[t].got \cup task[t].snap \in SUBSET Models /\ task[t].snap \in SUBSET Models
      BY <1>0 DEF TaskType
    <2>2. PICK S \in SUBSET Models, p \in {"keep", "put", "flush"} : Got(t, S, p)
      BY <1>0, <1>3, <2>1 DEF Dial, ListStrict, Put, TypeOK
    <2> QED BY <1>0, <1>p, <1>3, <2>2, GotTask DEF Dial, Put
  <1>4. CASE FlushTake(t)
    <2>1. Snapshot(t) \/ Flushed(t)
      BY <1>4 DEF FlushTake
    <2> QED BY <1>0, <1>4, <2>1, SnapshotTask, FlushedTask DEF FlushTake
  <1>5. CASE Save(t)
    BY <1>0, <1>5, FlushedTask DEF Save
  <1>6. CASE Lock(t)
    <2>1. Goes(t, "read") \/ Ends(t)
      BY <1>6 DEF Lock
    <2> QED BY <1>0, <1>p, <1>6, <2>1, GoesTask, EndsTask DEF Lock
  <1>7. CASE ReadOverlay(t)
    BY <1>0, <1>7, ReadTask DEF ReadOverlay
  <1>8. CASE WriteOverlay(t)
    <2>1. Goes(t, "load") \/ (UNCHANGED overlay /\ Ends(t))
      BY <1>8 DEF WriteOverlay
    <2> QED BY <1>0, <1>p, <1>8, <2>1, GoesTask, EndsTask DEF WriteOverlay
  <1>9. CASE LoadSnapshot(t)
    BY <1>0, <1>9, LoadTask DEF LoadSnapshot
  <1>10. CASE Swap(t)
    <2>1. Goes(t, "answer") \/ Goes(t, "load")
      BY <1>10 DEF Swap
    <2> QED BY <1>0, <1>p, <2>1, GoesTask
  <1>11. CASE Answer(t)
    BY <1>0, <1>11, EndsTask DEF Answer
  <1> QED BY <1>1, <1>2, <1>3, <1>4, <1>5, <1>6, <1>7, <1>8, <1>9, <1>10, <1>11 DEF Step

LEMMA PromiseOfStep ==
  ASSUME CatalogAssumption, TInv, KInv, NEW t \in Tasks, Step(t)
  PROVE  Promised!Next \/ UNCHANGED promiseVars
  <1>0. alive /\ alive' = alive /\ task[t].snap \subseteq reg
    <2>1. alive /\ alive'
      BY StepsAwake
    <2>2. alive \in BOOLEAN /\ alive' \in BOOLEAN
      BY TypeOfStep DEF TInv, TypeOK
    <2> QED BY <2>1, <2>2 DEF KInv, RegistryGrows
  <1>w. /\ Wanted' \subseteq Wanted
        /\ overlay' # overlay \/ reg' # reg => Wanted' = Wanted
    BY WantedOfStep
  <1>m. task[t].model \in Models => task[t].model \in Wanted
    BY DEF Wanted, CatalogAssumption
  <1>1. CASE AlreadyAllowed(t)
    <2>1. /\ task[t].model \in Models /\ task[t].model \in Wanted
          /\ UNCHANGED <<alive, overlay, reg>>
      BY <1>1, <1>m DEF AlreadyAllowed, TInv, Asking, store
    <2>2. CASE UNCHANGED acked
      BY <1>0, <1>w, <2>1, <2>2, Leaving
    <2>3. CASE task[t].model \in task[t].snap /\ acked' = acked \cup {task[t].model}
      BY <1>0, <1>w, <2>1, <2>3 DEF Promised!Next, Promised!Promise
    <2> QED BY <1>1, <2>2, <2>3 DEF AlreadyAllowed
  <1>2. CASE WriteOverlay(t)
    <2>1. /\ task[t].model \in Models /\ task[t].model \in Wanted
          /\ UNCHANGED <<alive, reg, acked>> /\ task[t].old = overlay
      BY <1>2, <1>m DEF WriteOverlay, TInv, Asking, KInv, HolderReads
    <2>2. CASE UNCHANGED overlay
      BY <1>0, <1>w, <2>1, <2>2, Leaving
    <2>3. CASE overlay' # overlay
      <3>1. Wanted' = Wanted /\ overlay' = overlay \cup {task[t].model}
        BY <1>2, <1>w, <2>1, <2>3 DEF WriteOverlay
      <3> QED BY <1>0, <2>1, <3>1 DEF Promised!Next, Promised!Grant
    <2> QED BY <2>2, <2>3
  <1>3. CASE Swap(t)
    <2>1. /\ task[t].model \in Models /\ task[t].model \in overlay
          /\ UNCHANGED <<alive, overlay, acked>>
      BY <1>3 DEF Swap, TInv, Asking, KInv, KeptBeforeAllowed
    <2>2. CASE UNCHANGED reg
      BY <1>0, <1>w, <2>1, <2>2, Leaving
    <2>3. CASE reg' # reg
      <3>1. Wanted' = Wanted /\ reg' = reg \cup {task[t].model}
        BY <1>3, <1>w, <2>3 DEF Swap
      <3> QED BY <1>0, <2>1, <3>1 DEF Promised!Next, Promised!Allow
    <2> QED BY <2>2, <2>3
  <1>4. CASE Answer(t)
    <2>1. /\ task[t].model \in Models /\ task[t].model \in Wanted /\ task[t].model \in reg
          /\ UNCHANGED <<alive, overlay, reg>> /\ acked' = acked \cup {task[t].model}
      BY <1>4, <1>m DEF Answer, TInv, Asking, KInv, KeptBeforeAllowed, store
    <2> QED BY <1>0, <1>w, <2>1 DEF Promised!Next, Promised!Promise
  <1>5. CASE ~(AlreadyAllowed(t) \/ WriteOverlay(t) \/ Swap(t) \/ Answer(t))
    <2>1. UNCHANGED <<overlay, reg, acked>>
      BY <1>5 DEF Step, Get, Dial, Keep, Put, FlushTake, Save, Lock, ReadOverlay, LoadSnapshot, store
    <2> QED BY <1>0, <1>w, <2>1, Leaving
  <1> QED BY <1>1, <1>2, <1>3, <1>4, <1>5

LEMMA PromiseOfNext ==
  ASSUME CatalogAssumption, TInv, KInv, [Next]_vars
  PROVE  [Promised!Next]_promiseVars
  <1>1. CASE Boot
    <2>1. /\ ~alive /\ alive' = TRUE /\ reg' = Configured \cup overlay
          /\ UNCHANGED <<overlay, acked, task>>
      BY <1>1 DEF Boot
    <2>2. /\ reg' \in SUBSET (Configured \cup overlay)
          /\ Configured \cup acked \subseteq reg'
      BY <2>1 DEF KInv, AckedIsKept
    <2>3. UNCHANGED Wanted
      BY <2>1 DEF Wanted
    <2> QED BY <2>1, <2>2, <2>3 DEF Promised!Next, Promised!Start
  <1>2. CASE Die
    <2>1. Wanted' = {}
      BY <1>2, TypeOfDie DEF Wanted, Idle
    <2> QED BY <1>2, <2>1 DEF Die, Promised!Next, Promised!Stop
  <1>3. CASE Starts
    <2>1. alive /\ UNCHANGED <<alive, overlay, reg, acked>>
      BY <1>3, TypeOfStart DEF store
    <2>2. PICK t \in Tasks : \A u \in Tasks : u # t => task'[u] = task[u]
      BY <1>3, TypeOfStart
    <2>3. task'[t].model \in Models \cup {NoModel}
      BY <1>3, TypeOfStart DEF TInv, TypeOK
    <2>4. CASE task'[t].model \in Models
      <3>1. Wanted' \in SUBSET (Wanted \cup {task'[t].model})
        BY <2>2 DEF Wanted
      <3> QED BY <2>1, <2>4, <3>1 DEF Promised!Next, Promised!Ask
    <2>5. CASE task'[t].model = NoModel
      <3>1. Wanted' \subseteq Wanted
        BY <2>2, <2>5 DEF Wanted
      <3> QED BY <2>1, <3>1, Leaving
    <2> QED BY <2>3, <2>4, <2>5
  <1>4. CASE UpstreamChanges \/ UNCHANGED vars
    BY <1>4 DEF UpstreamChanges, vars, store, promiseVars, Wanted
  <1>5. CASE \E t \in Tasks : Step(t)
    BY <1>5, PromiseOfStep
  <1> QED BY <1>1, <1>2, <1>3, <1>4, <1>5 DEF Next

\* The file, its lock, the swapped snapshots and the crashes between them keep
\* the promise of AllowList: a boot is its start, a write of the overlay its
\* grant, a swap lets the model through, an answer is its promise, and every
\* other step is none of the operator's business.
THEOREM AllowListIsImplemented == Spec => KeepsPromise
  <1> USE CatalogAssumption
  <1>1. Init => Promised!Init
    BY DEF Init, Promised!Init, Wanted, Idle
  <1>2. TInv /\ KInv /\ [Next]_vars => [Promised!Next]_promiseVars
    BY PromiseOfNext
  <1> QED BY <1>1, <1>2, KeptInvariant, PTL DEF Spec, KeepsPromise, Promised!Spec, promiseVars

-----------------------------------------------------------------------------
(***************************************************************************)
(* The process around the catalog.                                         *)
(***************************************************************************)
\* Where the router is open; it is closed on the way down only.
RouterFollows ==
    /\ phase \in Phases
    /\ router \in {"none", "open", "closed"}
    /\ loop \in {"off", "on", "over"}
    /\ told \in BOOLEAN
    /\ drained \in {"no", "yes", "late"}
    /\ phase = "down" => router # "open"
    /\ phase \notin {"down", "closing"} => router = "open"
    /\ alive <=> phase \notin {"down", "opened"}

\* The loop runs from the start of the port's business to its wait.
LoopFollows ==
    /\ phase \notin {"listening", "serving", "draining", "stopping"} => loop # "on"
    /\ phase = "closing" => task[Loop].at = "idle"

NoRequests == \A t \in Tasks : t # Loop => task[t].at = "idle"

\* Requests come with the port and go with the drain.
RequestsFollow ==
    /\ phase \in {"preparing", "warming", "listening"} => NoRequests
    /\ phase \in {"stopping", "closing"} => drained = "late" \/ NoRequests

LInv == RouterFollows /\ LoopFollows /\ RequestsFollow

-----------------------------------------------------------------------------
(* The catalog inside the process.                                         *)

LEMMA PassStarts == CatalogAssumption /\ StartPass => Starts
  BY DEF Starts

\* Each step of the process is one of the catalog, or leaves it alone.
LEMMA LifeIsCatalog ==
  ASSUME CatalogAssumption, [LifeNext]_lifeVars
  PROVE  [Next]_vars
  <1>1. CASE NewHandler
    BY <1>1 DEF NewHandler, createShared, Next
  <1>2. CASE Prepare \/ Tick \/ Accept
    BY <1>2 DEF Prepare, Tick, Accept, Starts, Next
  <1>3. CASE Close \/ Crash
    BY <1>3 DEF Close, Crash, Next
  <1>4. CASE \/ OpenRouter \/ Warmed \/ LoopEnds \/ Listen \/ Signal \/ StopServing
             \/ Drain \/ WaitRefresh \/ UNCHANGED lifeVars
    BY <1>4 DEF OpenRouter, Warmed, LoopEnds, Listen, Signal, StopServing, Drain, WaitRefresh, lifeVars
  <1>5. CASE UpstreamChanges \/ \E t \in Tasks : Runs(t)
    BY <1>5 DEF Runs, Next
  <1> QED BY <1>1, <1>2, <1>3, <1>4, <1>5 DEF LifeNext

\* Whatever the process does around it, the inventory and the allow list behave
\* as ModelCatalog says.
THEOREM LifecycleImplementsCatalog == LifeSpec => Spec
  <1> USE CatalogAssumption
  <1>1. LifeInit => Init
    BY DEF LifeInit
  <1>2. [LifeNext]_lifeVars => [Next]_vars
    BY LifeIsCatalog
  <1> QED BY <1>1, <1>2, PTL DEF LifeSpec, Spec

\* So the promise to the operator holds over starts, drains and crashes.
THEOREM LifecycleKeepsPromise == LifeSpec => KeepsPromise /\ DiskNeverOlder
  BY LifecycleImplementsCatalog, AllowListIsImplemented, DiskMovesForward

-----------------------------------------------------------------------------
(* The router closes last.                                                 *)

\* A step is one of a task at work, and moves no other.
LEMMA StepMoves ==
  ASSUME TInv, NEW t \in Tasks, Step(t)
  PROVE  /\ task[t].at # "idle" /\ alive' = alive
         /\ \A u \in Tasks : u # t => task'[u] = task[u]
  <1>0. task \in [Tasks -> TaskType]
    BY DEF TInv, TypeOK, TaskType
  <1>1. CASE AlreadyAllowed(t) \/ Get(t) \/ Dial(t) \/ Keep(t) \/ Put(t)
    BY <1>0, <1>1 DEF AlreadyAllowed, Get, Dial, ListStrict, Keep, Put, Goes, Ends, Got
  <1>2. CASE FlushTake(t) \/ Save(t)
    BY <1>0, <1>2 DEF FlushTake, Save, Snapshot, Flushed, Carries, Ends
  <1>3. CASE Lock(t) \/ ReadOverlay(t) \/ WriteOverlay(t)
    BY <1>0, <1>3 DEF Lock, ReadOverlay, WriteOverlay, Goes, Ends
  <1>4. CASE LoadSnapshot(t) \/ Swap(t) \/ Answer(t)
    BY <1>0, <1>4 DEF LoadSnapshot, Swap, Answer, Goes, Ends
  <1> QED BY <1>1, <1>2, <1>3, <1>4 DEF Step

\* Starting a task wakes nobody else, and a pass wakes the loop's only.
LEMMA PassMoves ==
  ASSUME CatalogAssumption, TInv, StartPass
  PROVE  /\ alive' = alive /\ \A u \in Tasks : u # Loop => task'[u] = task[u]
  BY DEF StartPass, Begins, CatalogAssumption, TInv, TypeOK

LEMMA RequestMoves ==
  ASSUME CatalogAssumption, TInv, NEW t \in Tasks,
         StartList(t) \/ \E m \in Models : StartAllow(t, m)
  PROVE  alive' = alive /\ t # Loop /\ task'[Loop] = task[Loop]
  BY DEF StartList, StartAllow, Begins, CatalogAssumption, TInv, TypeOK

LEMMA LifeOfNext ==
  ASSUME CatalogAssumption, TInv, LInv, [LifeNext]_lifeVars
  PROVE  LInv'
  <1> USE DEF LInv, RouterFollows, Phases
  <1>d. ~alive => NoRequests /\ task[Loop].at = "idle"
    BY DEF TInv, Dormant, NoRequests, CatalogAssumption
  <1>1. CASE OpenRouter
    BY <1>1 DEF OpenRouter, vars, LoopFollows, RequestsFollow
  <1>2. CASE NewHandler
    <2>1. CASE Boot /\ phase' = "preparing" /\ UNCHANGED router
      <3>1. NoRequests'
        BY <1>d, <2>1 DEF Boot, NoRequests
      <3> QED BY <1>2, <2>1, <3>1 DEF NewHandler, Boot, LoopFollows, RequestsFollow
    <2>2. CASE UNCHANGED vars /\ phase' = "down" /\ router' = "closed"
      BY <1>2, <2>2 DEF NewHandler, vars, LoopFollows, RequestsFollow
    <2> QED BY <1>2, <2>1, <2>2 DEF NewHandler, createShared
  <1>3. CASE Prepare
    <2>1. CASE StartPass /\ phase' = "warming"
      <3>1. NoRequests' /\ alive' = alive
        BY <1>3, <2>1, PassMoves DEF Prepare, NoRequests, RequestsFollow
      <3> QED BY <1>3, <2>1, <3>1 DEF Prepare, LoopFollows, RequestsFollow
    <2>2. CASE UNCHANGED vars /\ phase' \in {"listening", "stopping"}
      BY <1>3, <2>2 DEF Prepare, vars, LoopFollows, RequestsFollow, NoRequests
    <2> QED BY <1>3, <2>1, <2>2 DEF Prepare
  <1>4. CASE Tick
    <2>1. NoRequests => NoRequests'
      BY <1>4, PassMoves DEF Tick, NoRequests
    <2> QED BY <1>4, <2>1, PassMoves DEF Tick, life, LoopFollows, RequestsFollow
  <1>5. CASE Accept
    <2>1. alive' = alive /\ phase = "serving" /\ UNCHANGED life
      BY <1>5, RequestMoves DEF Accept
    <2> QED BY <2>1 DEF life, LoopFollows, RequestsFollow
  <1>6. CASE \/ Warmed \/ LoopEnds \/ Listen \/ Signal \/ StopServing \/ WaitRefresh
             \/ UNCHANGED lifeVars
    <2>1. UNCHANGED <<task, alive>> /\ (NoRequests' <=> NoRequests)
      BY <1>6 DEF Warmed, LoopEnds, Listen, Signal, StopServing, WaitRefresh, lifeVars, vars,
         NoRequests
    <2>2. CASE Warmed \/ LoopEnds \/ Listen
      BY <2>1, <2>2 DEF Warmed, LoopEnds, Listen, LoopFollows, RequestsFollow
    <2>3. CASE Signal
      BY <2>1, <2>3 DEF Signal, LoopFollows, RequestsFollow
    <2>4. CASE StopServing \/ WaitRefresh
      BY <2>1, <2>4 DEF StopServing, WaitRefresh, LoopFollows, RequestsFollow
    <2>5. CASE UNCHANGED lifeVars
      BY <2>1, <2>5 DEF lifeVars, life, LoopFollows, RequestsFollow
    <2> QED BY <1>6, <2>2, <2>3, <2>4, <2>5
  <1>7. CASE Drain
    <2>1. Requests = {} => NoRequests
      BY DEF Requests, Busy, NoRequests
    <2> QED BY <1>7, <2>1 DEF Drain, vars, LoopFollows, RequestsFollow, NoRequests
  <1>8. CASE Close
    <2>1. CASE router' = "closed" /\ UNCHANGED <<vars, phase>>
      BY <1>8, <2>1 DEF Close, vars, LoopFollows, RequestsFollow, NoRequests
    <2>2. CASE router # "open" /\ Die /\ phase' = "down" /\ UNCHANGED router
      BY <1>8, <2>2 DEF Close, Die, LoopFollows, RequestsFollow
    <2> QED BY <1>8, <2>1, <2>2 DEF Close
  <1>9. CASE Crash
    BY <1>9 DEF Crash, Die, vars, LoopFollows, RequestsFollow
  <1>10. CASE UpstreamChanges /\ UNCHANGED life
    BY <1>10 DEF UpstreamChanges, life, LoopFollows, RequestsFollow, NoRequests
  <1>11. ASSUME NEW t \in Tasks, Runs(t) PROVE LInv'
    <2>1. /\ task[t].at # "idle" /\ alive' = alive /\ UNCHANGED life
          /\ \A u \in Tasks : u # t => task'[u] = task[u]
      BY <1>11, StepMoves DEF Runs
    <2>2. NoRequests => NoRequests'
      BY <2>1 DEF NoRequests
    <2>3. task[Loop].at = "idle" => task'[Loop].at = "idle"
      BY <2>1 DEF CatalogAssumption
    <2> QED BY <2>1, <2>2, <2>3 DEF life, LoopFollows, RequestsFollow
  <1> QED BY <1>1, <1>2, <1>3, <1>4, <1>5, <1>6, <1>7, <1>8, <1>9, <1>10, <1>11 DEF LifeNext

LEMMA LifeInvariant == LifeSpec => [](TInv /\ LInv)
  <1> USE CatalogAssumption
  <1>1. LifeInit => TInv /\ LInv
    <2>1. LifeInit => LInv
      BY DEF LifeInit, Init, LInv, RouterFollows, LoopFollows, RequestsFollow, Phases
    <2> QED BY <2>1, TypeOfInit DEF LifeInit
  <1>2. TInv /\ LInv /\ [LifeNext]_lifeVars => (TInv /\ LInv)'
    BY LifeIsCatalog, TypeOfNext, LifeOfNext
  <1> QED BY <1>1, <1>2, PTL DEF LifeSpec

\* The router is released with its process from whichever step gave up, and
\* before it closes the loop and its pass have stopped and, unless their time
\* ran out, the requests are answered.
THEOREM RouterAlwaysClosesLast == LifeSpec => []RouterClosesLast
  <1> USE CatalogAssumption
  <1>1. TInv /\ LInv => RouterClosesLast
    <2> SUFFICES ASSUME TInv, LInv PROVE RouterClosesLast
      OBVIOUS
    <2>d. ~alive => NoRequests /\ task[Loop].at = "idle"
      BY DEF TInv, Dormant, NoRequests, CatalogAssumption
    <2>r. NoRequests => Requests = {}
      BY DEF NoRequests, Requests, Busy
    <2>0. LifeTypeOK
      BY DEF TInv, LInv, RouterFollows, LifeTypeOK
    <2>1. RouterIsReleased
      BY DEF LInv, RouterFollows, RouterIsReleased
    <2>2. router = "closed" => phase \in {"down", "closing"}
      BY DEF LInv, RouterFollows
    <2>3. LoopStopsFirst
      BY <2>2, <2>d DEF LInv, RouterFollows, LoopFollows, LoopStopsFirst
    <2>4. RequestsAreDrained
      BY <2>2, <2>d, <2>r DEF LInv, RouterFollows, RequestsFollow, RequestsAreDrained
    <2> QED BY <2>0, <2>1, <2>3, <2>4 DEF RouterClosesLast
  <1> QED BY <1>1, LifeInvariant, PTL
=============================================================================
