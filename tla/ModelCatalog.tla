----------------------------- MODULE ModelCatalog -----------------------------
(***************************************************************************)
(* The model inventory of one gateway and one of its backends, and the     *)
(* operators' requests to allow further models: what passes, list requests *)
(* and allow requests do to the inventory cache, its disk copy, the        *)
(* overlay file and the registry's snapshot when they overlap and when the *)
(* process dies between two of their steps.                                *)
(*                                                                         *)
(* The backend has a gate (models.allow) and syncs its list.  A model      *)
(* stands for its public and its downstream id; what ids have to do with   *)
(* each other is module ModelNames.  Each step below is one critical       *)
(* section, one file operation or one call to the provider.  Time is left  *)
(* out: whether a cached list is still fresh is open whenever it is read.  *)
(***************************************************************************)
EXTENDS Naturals, FiniteSets

CONSTANTS Models,       \* the models there may be
          Configured,   \* models.allow of the config file
          Tasks,        \* goroutines: the refresh loop and the requests
          Loop,         \* the one that runs the passes
          MaxPuts,      \* bound on the changes of the inventory
          NoTask, NoModel

ASSUME CatalogAssumption ==
    /\ Configured \subseteq Models
    /\ Loop \in Tasks
    /\ MaxPuts \in Nat
    /\ NoTask \notin Tasks
    /\ NoModel \notin Models

VARIABLES
    upstream,   \* the models the provider lists
    held,       \* the provider client's own cache
    alive,      \* the process runs and its handlers are built
    reg,        \* the allow list in the registry's snapshot
    overlay,    \* the overlay file
    locked,     \* who holds the overlay's file lock
    entry,      \* the inventory cache: [models, ver]
    dirty,      \* put since the last flush
    writer,     \* who holds writeMu
    file,       \* the cache's disk copy: [models, ver]
    lost,       \* ghost: the last save of this process failed
    task,       \* what each goroutine is at
    acked       \* the models whose allow request was answered with success

store == <<reg, overlay, locked>>
cache == <<entry, dirty, writer, file, lost>>
vars  == <<upstream, held, alive, store, cache, task, acked>>

Idle == [at |-> "idle", kind |-> "none", model |-> NoModel, snap |-> {}, got |-> {}, old |-> {}, ver |-> 0]

Busy == { t \in Tasks : task[t].at # "idle" }

Room == entry.ver + Cardinality(Busy) < MaxPuts

Begins(t, kind, at, m) ==
    /\ alive
    /\ task[t].at = "idle"
    /\ Room
    /\ task' = [task EXCEPT ![t] = [Idle EXCEPT !.at = at, !.kind = kind, !.model = m, !.snap = reg]]
    /\ UNCHANGED <<upstream, held, alive, store, cache, acked>>

\* The task goes on to its next step.
Goes(t, at) == task' = [task EXCEPT ![t].at = at]

\* It goes on with its model and nothing of what it has read.
Carries(t, at) ==
    task' = [task EXCEPT ![t] = [Idle EXCEPT !.at = at, !.kind = task[t].kind, !.model = task[t].model]]

Ends(t) == task' = [task EXCEPT ![t] = Idle]

-----------------------------------------------------------------------------
(* Starting.                                                               *)

\* warmInventory: every backend is dialled.
StartPass == Begins(Loop, "pass", "dial", NoModel)

\* GET /v1/models.
StartList(t) == t # Loop /\ Begins(t, "list", "get", NoModel)

\* POST /v1/admin/models/allow.
StartAllow(t, m) == t # Loop /\ Begins(t, "allow", "gate", m)

\* The gate lets the model through already: nothing is written.
AlreadyAllowed(t) ==
    /\ task[t].at = "gate"
    /\ IF task[t].model \in task[t].snap
       THEN acked' = acked \cup {task[t].model} /\ Ends(t)
       ELSE UNCHANGED acked /\ Goes(t, "dial")
    /\ UNCHANGED <<upstream, held, alive, store, cache>>

-----------------------------------------------------------------------------
(* The inventory.                                                          *)

\* A list request serves the cache and dials when it has nothing, or nothing
\* fresh.
Get(t) ==
    /\ task[t].at = "get"
    /\ \/ entry.models # {} /\ Goes(t, "flush")
       \/ Goes(t, "dial")
    /\ UNCHANGED <<upstream, held, alive, store, cache, acked>>

Got(t, models, at) == task' = [task EXCEPT ![t].at = at, ![t].got = models]

\* ListStrict: the provider's answer, the client's copy while it is fresh or,
\* when the call fails or the breaker refuses it, the stale copy or nothing.
ListStrict(t) == \/ Got(t, upstream, "keep")
                 \/ \E models \in {held, {}} : Got(t, models, "put")

Dial(t) ==
    /\ task[t].at = "dial"
    /\ ListStrict(t)
    /\ UNCHANGED <<upstream, held, alive, store, cache, acked>>

\* The client caches the answer.
Keep(t) ==
    /\ task[t].at = "keep"
    /\ held' = task[t].got
    /\ Goes(t, "put")
    /\ UNCHANGED <<upstream, alive, store, cache, acked>>

\* liveOrCached: a live list gains the allowed models it lacks and is put into
\* the cache; without one the cached list is used, or the allowed models.
Put(t) ==
    /\ task[t].at = "put"
    /\ LET got == task[t].got \cup task[t].snap
       IN  IF task[t].got # {}
           THEN /\ entry' = [models |-> got, ver |-> entry.ver + 1]
                /\ dirty' = TRUE
                /\ Got(t, got, "flush")
           ELSE /\ \E list \in ({entry.models} \ {{}}) \cup {task[t].snap} : Got(t, list, "flush")
                /\ UNCHANGED <<entry, dirty>>
    /\ UNCHANGED <<upstream, held, alive, store, writer, file, lost, acked>>

\* After the flush a pass or a list request has its list; an allow request
\* looks for its model in it.
Flushed(t) ==
    IF task[t].kind = "allow" /\ task[t].model \in task[t].got
    THEN Carries(t, "lock") ELSE Ends(t)

Snapshot(t) == task' = [task EXCEPT ![t].at = "save", ![t].old = entry.models, ![t].ver = entry.ver]

\* The copy replaces the file, or the write fails and is logged.
Written(t) ==
    \/ file' = [models |-> task[t].old, ver |-> task[t].ver] /\ lost' = FALSE
    \/ lost' = TRUE /\ UNCHANGED file

\* Mutant: two flushes may write at once.
FlushTakeAny(t) ==
    /\ task[t].at = "flush"
    /\ IF dirty
       THEN /\ writer' = t /\ dirty' = FALSE
            /\ Snapshot(t)
       ELSE UNCHANGED <<writer, dirty>> /\ Flushed(t)
    /\ UNCHANGED <<upstream, held, alive, store, entry, file, lost, acked>>

\* Mutant: the early return keeps writeMu.
FlushTakeKeeps(t) ==
    /\ task[t].at = "flush"
    /\ writer = NoTask
    /\ writer' = t
    /\ IF dirty
       THEN dirty' = FALSE /\ Snapshot(t)
       ELSE UNCHANGED dirty /\ Flushed(t)
    /\ UNCHANGED <<upstream, held, alive, store, entry, file, lost, acked>>

\* flush: writeMu is taken, and the cache copied when it is dirty.
FlushTake(t) ==
    /\ task[t].at = "flush"
    /\ writer = NoTask
    /\ IF dirty
       THEN /\ writer' = t /\ dirty' = FALSE
            /\ Snapshot(t)
       ELSE UNCHANGED <<writer, dirty>> /\ Flushed(t)
    /\ UNCHANGED <<upstream, held, alive, store, entry, file, lost, acked>>

\* Mutant: the file is written and only then found clean.
SaveCleans(t) ==
    /\ task[t].at = "save"
    /\ writer' = NoTask /\ dirty' = FALSE
    /\ Written(t)
    /\ Flushed(t)
    /\ UNCHANGED <<upstream, held, alive, store, entry, acked>>

\* The copy is written and writeMu released.
Save(t) ==
    /\ task[t].at = "save"
    /\ writer' = NoTask
    /\ Written(t)
    /\ Flushed(t)
    /\ UNCHANGED <<upstream, held, alive, store, entry, dirty, acked>>

-----------------------------------------------------------------------------
(* Allowing.                                                               *)

\* overlayAdd: the overlay's file lock, unless the wait ends first.
Lock(t) ==
    /\ task[t].at = "lock"
    /\ \/ locked = NoTask /\ locked' = t /\ Goes(t, "read")
       \/ UNCHANGED locked /\ Ends(t)
    /\ UNCHANGED <<upstream, held, alive, reg, overlay, cache, acked>>

ReadOverlay(t) ==
    /\ task[t].at = "read"
    /\ task' = [task EXCEPT ![t].at = "write", ![t].old = overlay]
    /\ UNCHANGED <<upstream, held, alive, store, cache, acked>>

\* The file with the model in it replaces the old one, or the write fails and
\* so does the request.
WriteOverlay(t) ==
    /\ task[t].at = "write"
    /\ locked' = NoTask
    /\ \/ overlay' = task[t].old \cup {task[t].model} /\ Goes(t, "load")
       \/ UNCHANGED overlay /\ Ends(t)
    /\ UNCHANGED <<upstream, held, alive, reg, cache, acked>>

\* Registry.AllowModel: a copy of the snapshot is changed ...
LoadSnapshot(t) ==
    /\ task[t].at = "load"
    /\ task' = [task EXCEPT ![t].at = "swap", ![t].old = reg]
    /\ UNCHANGED <<upstream, held, alive, store, cache, acked>>

\* ... and takes its place if nobody else changed it; else once more.
Swap(t) ==
    /\ task[t].at = "swap"
    /\ IF reg = task[t].old
       THEN reg' = reg \cup {task[t].model} /\ Goes(t, "answer")
       ELSE UNCHANGED reg /\ Goes(t, "load")
    /\ UNCHANGED <<upstream, held, alive, overlay, locked, cache, acked>>

Answer(t) ==
    /\ task[t].at = "answer"
    /\ acked' = acked \cup {task[t].model}
    /\ Ends(t)
    /\ UNCHANGED <<upstream, held, alive, store, cache>>

Step(t) == \/ AlreadyAllowed(t) \/ Get(t) \/ Dial(t) \/ Keep(t) \/ Put(t)
           \/ FlushTake(t) \/ Save(t)
           \/ Lock(t) \/ ReadOverlay(t) \/ WriteOverlay(t)
           \/ LoadSnapshot(t) \/ Swap(t) \/ Answer(t)

-----------------------------------------------------------------------------
(* Around the gateway.                                                     *)

\* Mutant: the overlay is not applied at the start.
BootPlain ==
    /\ ~alive
    /\ alive' = TRUE
    /\ reg' = Configured
    /\ \E models \in {file.models, {}} : entry' = [models |-> models, ver |-> file.ver]
    /\ lost' = FALSE
    /\ UNCHANGED <<upstream, held, overlay, locked, dirty, writer, file, task, acked>>

\* A process builds its handlers: the overlay joins the config, and the disk
\* copy, whatever its age, is loaded if it can be read.
Boot ==
    /\ ~alive
    /\ alive' = TRUE
    /\ reg' = Configured \cup overlay
    /\ \E models \in {file.models, {}} : entry' = [models |-> models, ver |-> file.ver]
    /\ lost' = FALSE
    /\ UNCHANGED <<upstream, held, overlay, locked, dirty, writer, file, task, acked>>

\* The process is gone, and with it memory and locks.
Die ==
    /\ alive
    /\ alive' = FALSE
    /\ reg' = {}
    /\ locked' = NoTask /\ writer' = NoTask
    /\ dirty' = FALSE
    /\ held' = {}
    /\ task' = [t \in Tasks |-> Idle]
    /\ UNCHANGED <<upstream, overlay, entry, file, lost, acked>>

\* The provider lists other models.
UpstreamChanges ==
    /\ \E models \in SUBSET Models : upstream' = models
    /\ UNCHANGED <<held, alive, store, cache, task, acked>>

Init ==
    /\ upstream \in SUBSET Models
    /\ held = {}
    /\ alive = FALSE
    /\ reg = {} /\ overlay = {} /\ locked = NoTask
    /\ entry = [models |-> {}, ver |-> 0]
    /\ dirty = FALSE /\ writer = NoTask
    /\ file = [models |-> {}, ver |-> 0]
    /\ lost = FALSE
    /\ task = [t \in Tasks |-> Idle]
    /\ acked = {}

Starts == \/ StartPass
          \/ \E t \in Tasks : StartList(t) \/ \E m \in Models : StartAllow(t, m)

Next == Boot \/ Die \/ UpstreamChanges \/ Starts \/ \E t \in Tasks : Step(t)

Spec == Init /\ [][Next]_vars

-----------------------------------------------------------------------------
(* Properties.                                                             *)

Points == {"idle", "gate", "get", "dial", "keep", "put", "flush", "save",
           "lock", "read", "write", "load", "swap", "answer"}

TypeOK ==
    /\ upstream \in SUBSET Models
    /\ held \in SUBSET Models
    /\ alive \in BOOLEAN
    /\ reg \in SUBSET Models /\ overlay \in SUBSET Models
    /\ locked \in Tasks \cup {NoTask} /\ writer \in Tasks \cup {NoTask}
    /\ entry \in [models : SUBSET Models, ver : Nat]
    /\ dirty \in BOOLEAN /\ lost \in BOOLEAN
    /\ file \in [models : SUBSET Models, ver : Nat]
    /\ task \in [Tasks -> [at : Points, kind : {"none", "pass", "list", "allow"},
                           model : Models \cup {NoModel}, snap : SUBSET Models,
                           got : SUBSET Models, old : SUBSET Models, ver : Nat]]
    /\ acked \in SUBSET Models

\* A model whose operator was told it is allowed is in the overlay, whatever
\* other requests wrote there and wherever the process died (overlayAdd).
AckedIsKept == acked \subseteq overlay \cup Configured

\* While the gateway runs the gate lets it through, whatever snapshots were
\* swapped in between (AllowModel's compare-and-swap).
AckedIsAllowed == alive => acked \subseteq reg

\* models.go:51: "writeMu orders disk writes, so an older snapshot never lands
\* after a newer one".
DiskNeverOlder == [][file'.ver >= file.ver]_vars

\* Once nobody flushes and nothing was put since, the disk copy is the cache,
\* unless its last write failed: no put is forgotten between the snapshot and
\* the write.
SavedWhenQuiet ==
    alive /\ ~dirty /\ writer = NoTask /\ ~lost => file.ver = entry.ver

\* The models the allow requests under way are about.
Wanted == { task[t].model : t \in Tasks } \ {NoModel}

\* The gateway keeps the promise of module AllowList: the models whose
\* operators were told so stay allowed, and no model ever is that no operator
\* asked for.  A request is granted by its write to the overlay.
Promised == INSTANCE AllowList WITH
               running <- alive, asked <- Wanted, granted <- overlay,
               allowed <- reg, promised <- acked

KeepsPromise == Promised!Spec
===============================================================================
