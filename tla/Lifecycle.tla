------------------------------ MODULE Lifecycle ------------------------------
(***************************************************************************)
(* A gateway process from start to end around its model inventory (module  *)
(* ModelCatalog): ListenAndServe builds the handlers, prepares, serves     *)
(* until it is told to stop, drains the requests, stops the refresh loop   *)
(* and closes the router, in this order, from wherever it has to give up.  *)
(*                                                                         *)
(* phase is where ListenAndServe is:                                       *)
(*   down        no process                                                *)
(*   opened      openRouter returned: the router (Bifrost workers) is open *)
(*   preparing   writing Switchyard's config and probing credentials       *)
(*   warming     the warm pass runs                                        *)
(*   listening   the refresh loop was started; the port is not open yet    *)
(*   serving     requests are accepted                                     *)
(*   draining    Server.Shutdown waits for the requests                    *)
(*   stopping    the refresh was cancelled and is waited for               *)
(*   closing     the refresh has stopped: the router is closed             *)
(***************************************************************************)
EXTENDS ModelCatalog

VARIABLES
    phase,
    router,     \* "none", "open" or "closed"
    loop,       \* the refresh loop: "off", "on" or "over"
    told,       \* the serving context is done (a signal came)
    drained     \* the drain: "no", "yes" or "late"

life == <<phase, router, loop, told, drained>>
lifeVars == <<vars, life>>

Requests == Busy \ {Loop}

LifeInit == /\ Init
            /\ phase = "down" /\ router = "none" /\ loop = "off"
            /\ told = FALSE /\ drained = "no"

\* openRouter: the client starts Bifrost's workers.
OpenRouter ==
    /\ phase = "down"
    /\ phase' = "opened" /\ router' = "open"
    /\ loop' = "off" /\ told' = FALSE /\ drained' = "no"
    /\ UNCHANGED vars

\* createShared builds what the handlers share, with the batch store and the
\* models cache of the disk; a directory, a setting or a URL may be refused, and
\* then there are no handlers.
createShared(built) == IF built THEN Boot ELSE UNCHANGED vars

\* newHandler closes the router it opened when there are no handlers.
NewHandler ==
    /\ phase = "opened"
    /\ \E built \in BOOLEAN :
         /\ createShared(built)
         /\ IF built THEN phase' = "preparing" /\ UNCHANGED router
            ELSE phase' = "down" /\ router' = "closed"
    /\ UNCHANGED <<loop, told, drained>>

\* Switchyard's config is written and the credentials are probed; either may
\* fail, and then the deferred calls run.  With the warm-up on a pass starts in
\* ListenAndServe's own goroutine.
Prepare ==
    /\ phase = "preparing"
    /\ \/ StartPass /\ phase' = "warming"
       \/ UNCHANGED vars /\ phase' \in {"listening", "stopping"}
    /\ UNCHANGED <<router, loop, told, drained>>

\* After it the refresh loop starts, unless its interval is 0.
Warmed ==
    /\ phase = "warming"
    /\ task[Loop].at = "idle"
    /\ phase' = "listening" /\ loop' \in {"on", "off"}
    /\ UNCHANGED <<vars, router, told, drained>>

\* A tick of the refresh loop: both the tick and the cancel may be ready, and
\* then either is taken.
Tick == loop = "on" /\ StartPass /\ UNCHANGED life

LoopEnds ==
    /\ loop = "on"
    /\ told \/ phase = "stopping"
    /\ task[Loop].at = "idle"
    /\ loop' = "over"
    /\ UNCHANGED <<vars, phase, router, told, drained>>

\* The port is taken, or is not and ListenAndServe returns.
Listen ==
    /\ phase = "listening"
    /\ phase' \in {"serving", "stopping"}
    /\ UNCHANGED <<vars, router, loop, told, drained>>

Accept ==
    /\ phase = "serving"
    /\ \E t \in Tasks : StartList(t) \/ \E m \in Models : StartAllow(t, m)
    /\ UNCHANGED life

Signal ==
    /\ phase \notin {"down"}
    /\ ~told
    /\ told' = TRUE
    /\ UNCHANGED <<vars, phase, router, loop, drained>>

\* serveOn: the context is done, or the listener failed under the requests.
StopServing ==
    /\ phase = "serving"
    /\ \/ told /\ phase' = "draining" /\ UNCHANGED drained
       \/ phase' = "stopping" /\ drained' = "late"
    /\ UNCHANGED <<vars, router, loop, told>>

\* Shutdown returns when no request is left, or when its time is over.
Drain ==
    /\ phase = "draining"
    /\ phase' = "stopping"
    /\ \/ Requests = {} /\ drained' = "yes"
       \/ drained' = "late"
    /\ UNCHANGED <<vars, router, loop, told>>

\* Mutant: the refresh is cancelled and not waited for.
CancelRefresh ==
    /\ phase = "stopping"
    /\ phase' = "closing"
    /\ UNCHANGED <<vars, router, loop, told, drained>>

\* waitRefresh: the loop, and any pass in flight, has stopped.
WaitRefresh ==
    /\ phase = "stopping"
    /\ loop # "on" /\ task[Loop].at = "idle"
    /\ phase' = "closing"
    /\ UNCHANGED <<vars, router, loop, told, drained>>

\* Close, and the process ends with what still runs in it.
Close ==
    /\ phase = "closing"
    /\ IF router = "open" THEN router' = "closed" /\ UNCHANGED <<vars, phase>>
       ELSE Die /\ phase' = "down" /\ UNCHANGED router
    /\ UNCHANGED <<loop, told, drained>>

Crash ==
    /\ phase # "down"
    /\ IF alive THEN Die ELSE UNCHANGED vars
    /\ phase' = "down" /\ router' = "none" /\ loop' = "off"
    /\ UNCHANGED <<told, drained>>

Runs(t) == Step(t) /\ UNCHANGED life

LifeNext ==
    \/ OpenRouter \/ NewHandler \/ Prepare \/ Warmed \/ Tick \/ LoopEnds
    \/ Listen \/ Accept \/ Signal \/ StopServing \/ Drain \/ WaitRefresh
    \/ Close \/ Crash
    \/ UpstreamChanges /\ UNCHANGED life
    \/ \E t \in Tasks : Runs(t)

\* Every goroutine of the process is scheduled; the drain's timer and the
\* lock's fire; of a tick and a cancel that are both ready again and again the
\* cancel is taken at last (Go's select picks at random).
LifeSpec ==
    /\ LifeInit /\ [][LifeNext]_lifeVars
    /\ \A t \in Tasks : WF_lifeVars(Runs(t))
    /\ SF_lifeVars(LoopEnds)
    /\ WF_lifeVars(NewHandler) /\ WF_lifeVars(Prepare)
    /\ WF_lifeVars(Warmed) /\ WF_lifeVars(Listen)
    /\ WF_lifeVars(StopServing /\ told) /\ WF_lifeVars(Drain)
    /\ WF_lifeVars(WaitRefresh) /\ WF_lifeVars(Close)

-----------------------------------------------------------------------------
(* Properties.                                                             *)

Phases == {"down", "opened", "preparing", "warming", "listening", "serving",
           "draining", "stopping", "closing"}

LifeTypeOK ==
    /\ TypeOK
    /\ phase \in Phases
    /\ router \in {"none", "open", "closed"}
    /\ loop \in {"off", "on", "over"}
    /\ told \in BOOLEAN
    /\ drained \in {"no", "yes", "late"}
    /\ alive <=> phase \notin {"down", "opened"}

\* The router (its workers and pooled connections) never outlives the process
\* that opened it, from whichever step the start gave up.
RouterIsReleased == phase = "down" => router # "open"

\* lifecycle.go: the refresh loop "runs for the life of the server and stops
\* with it, before the router closes".
LoopStopsFirst == router = "closed" => task[Loop].at = "idle" /\ loop # "on"

\* A request is cut off by the closing router only if its drain ran out of
\* time or the listener failed under it.
RequestsAreDrained == router = "closed" /\ Requests # {} => drained = "late"

\* The router is closed, after everything that uses it, and only then is the
\* process gone.
RouterClosesLast == LifeTypeOK /\ RouterIsReleased /\ LoopStopsFirst /\ RequestsAreDrained

\* A gateway told to stop is gone in the end, whatever its passes and requests
\* wait for: the locks they hold, the provider, the disk.
StopsWhenTold == told ~> phase = "down"
===============================================================================
