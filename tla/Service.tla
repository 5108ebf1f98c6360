-------------------------------- MODULE Service --------------------------------
(***************************************************************************)
(* The life of one process: the worker is at work before the server listens, *)
(* the server drains its requests and the worker its batch when they are     *)
(* told to stop, every wait gives way to the signal, and a worker whose      *)
(* ticks fail backs off and comes back.  An error of the server ends the     *)
(* process over the worker's head.  Sweeps run on tasks of their own that    *)
(* nothing waits for.                                                        *)
(***************************************************************************)
EXTENDS Naturals, FiniteSets

CONSTANTS Batch,       \* jobs a tick claims at most
          Orgs,        \* organisations with pages to keep
          Requests,    \* REST requests that may be in flight
          BackoffCap,  \* WORKER_SELFHEAL_CAP and IDLE_MAX, in doublings
          MaxSweeps    \* detached runs told apart

ASSUME ServiceAssumption == Batch \in Nat /\ Requests \in Nat

VARIABLES
  signalled,  \* SIGINT or SIGTERM has arrived
  flag,       \* the watch channel
  server,     \* of `serve --with-worker`: "starting", "listening", "draining", "closed"; "none" of `worker`
  requests,   \* requests being served
  worker,     \* "starting", "top", "tick", "ticked", "idle", "healing", "pages", "clock", "gone", "dead"
  inflight,   \* jobs of the tick in hand
  org,        \* organisations the page sweep has still to visit
  failures, idle,      \* doublings of the two backoffs
  sweeps,     \* detached sweep runs
  process,    \* "up", "exited" as it was meant to, "failed" by an error of the server, or "killed"
  torn        \* what a process that is no more had in hand: jobs, requests
serviceVars == <<signalled, flag, server, requests, worker, inflight, org, failures, idle, sweeps, process, torn>>

backoffs == <<failures, idle>>
net == <<signalled, flag, server, requests>>
fate == <<process, torn>>
Alive == process = "up"

ServiceInit ==
  /\ signalled = FALSE /\ flag = FALSE /\ server \in {"none", "starting"} /\ requests = 0
  /\ worker = "starting" /\ inflight = 0 /\ org = 0 /\ failures = 0 /\ idle = 0
  /\ sweeps = 0 /\ process = "up" /\ torn = {}

\* The process is no more, and every task with it.
Ends(how) ==
  /\ process' = how /\ sweeps' = 0
  /\ torn' = {x \in {"jobs", "requests"} : (x = "jobs" /\ inflight > 0) \/ (x = "requests" /\ requests > 0)}

-----------------------------------------------------------------------------
\* Signals and the server.

\* Until the server listens nothing handles a signal: it kills.
Signal ==
  /\ Alive /\ ~ signalled /\ signalled' = TRUE
  /\ IF server = "starting" THEN Ends("killed") ELSE UNCHANGED <<sweeps, fate>>
  /\ UNCHANGED <<flag, server, requests, worker, inflight, org, backoffs>>

\* The router is built and the port bound, while the worker is at it.
Listen ==
  /\ Alive /\ server = "starting" /\ server' = "listening"
  /\ UNCHANGED <<signalled, flag, requests, worker, inflight, org, backoffs, sweeps, fate>>
\* Router, port or server fail: serve returns at once, and waits for nobody.
ServeFails ==
  /\ Alive /\ server \in {"starting", "listening", "draining"} /\ Ends("failed")
  /\ UNCHANGED <<net, worker, inflight, org, backoffs>>

\* The graceful-shutdown future: stop accepting, tell the worker.
ShutdownSignal ==
  /\ Alive /\ signalled /\ ~ flag
  /\ flag' = TRUE /\ server' = IF server = "listening" THEN "draining" ELSE server
  /\ UNCHANGED <<signalled, requests, worker, inflight, org, backoffs, sweeps, fate>>

Arrive ==
  /\ Alive /\ server = "listening" /\ requests < Requests /\ requests' = requests + 1
  /\ UNCHANGED <<signalled, flag, server, worker, inflight, org, backoffs, sweeps, fate>>
Respond ==
  /\ Alive /\ requests > 0 /\ requests' = requests - 1
  /\ UNCHANGED <<signalled, flag, server, worker, inflight, org, backoffs, sweeps, fate>>
Drained ==
  /\ Alive /\ server = "draining" /\ requests = 0 /\ server' = "closed"
  /\ UNCHANGED <<signalled, flag, requests, worker, inflight, org, backoffs, sweeps, fate>>

-----------------------------------------------------------------------------
\* The worker loop.

Go(from, to) == Alive /\ worker = from /\ worker' = to
Minimum(a, b) == IF a <= b THEN a ELSE b
\* Provider, pools and embedding version; an error here ends the worker for good,
\* and beside a server the process stays up without it.
Startup ==
  /\ Alive /\ worker = "starting" /\ worker' \in {"top", "dead"}
  /\ UNCHANGED <<net, inflight, org, backoffs, sweeps, fate>>

TickRegardless == FALSE                             \* Mutant: the flag is not looked at.
StopAsked == flag

LoopTop ==
  /\ Alive /\ worker = "top"
  /\ IF StopAsked THEN worker' = "gone" /\ UNCHANGED inflight
     ELSE worker' = "tick" /\ inflight' \in 0..Batch
  /\ UNCHANGED <<net, org, backoffs, sweeps, fate>>

FinishJob ==
  /\ Alive /\ worker = "tick" /\ inflight > 0 /\ inflight' = inflight - 1
  /\ IF inflight = 1 THEN worker' = "ticked" ELSE UNCHANGED worker
  /\ UNCHANGED <<net, org, backoffs, sweeps, fate>>

\* Every job has settled: work found, nothing to do, or an error that is told only now.
Worked ==
  /\ Go("ticked", "pages") /\ failures' = 0 /\ idle' = 0 /\ org' \in 0..Orgs
  /\ UNCHANGED <<net, inflight, sweeps, fate>>
NoWork ==
  /\ inflight = 0 /\ Go("tick", "idle") /\ failures' = 0
  /\ UNCHANGED <<net, inflight, org, idle, sweeps, fate>>
TickFails ==
  /\ worker \in {"tick", "ticked"} /\ inflight = 0 /\ Go(worker, "healing") /\ failures' = Minimum(failures + 1, BackoffCap)
  /\ UNCHANGED <<net, inflight, org, idle, sweeps, fate>>

SleepOrShutdown ==
  /\ Alive /\ worker \in {"idle", "healing"}
  /\ \/ flag /\ worker' = "gone" /\ UNCHANGED <<idle, org>>
     \/ /\ ~ flag /\ worker' = "pages" /\ org' \in 0..Orgs
        /\ idle' = IF worker = "idle" THEN Minimum(idle + 1, BackoffCap) ELSE idle
  /\ UNCHANGED <<net, inflight, failures, sweeps, fate>>

\* compose_sweep, one organisation at a time; the compose of one may fail for all
\* that follow, and the loop goes on to the clock.
ComposeSweep ==
  /\ Alive /\ worker = "pages"
  /\ \/ org > 0 /\ org' = org - 1 /\ UNCHANGED worker
     \/ org' = 0 /\ worker' = "clock"
  /\ UNCHANGED <<net, inflight, backoffs, sweeps, fate>>

\* Due sweeps are claimed and set going on their own.
RunDue ==
  /\ Go("clock", "top") /\ sweeps' \in {sweeps, Minimum(sweeps + 1, MaxSweeps)}
  /\ UNCHANGED <<net, inflight, org, backoffs, fate>>
SweepEnds ==
  /\ Alive /\ sweeps > 0 /\ sweeps' = sweeps - 1
  /\ UNCHANGED <<net, worker, inflight, org, backoffs, fate>>

-----------------------------------------------------------------------------
\* The end.

Joined(w) == w \in {"gone", "dead"}

Exit ==
  /\ Alive /\ server \in {"closed", "none"} /\ Joined(worker)
  /\ Ends("exited")
  /\ UNCHANGED <<net, worker, inflight, org, backoffs>>

\* The orchestrator's patience ends, or the host does.
Kill ==
  /\ Alive /\ Ends("killed")
  /\ UNCHANGED <<net, worker, inflight, org, backoffs>>

ServiceNext ==
  \/ Signal \/ Listen \/ ServeFails \/ ShutdownSignal \/ Arrive \/ Respond \/ Drained
  \/ Startup \/ LoopTop \/ FinishJob \/ Worked \/ NoWork \/ TickFails \/ SleepOrShutdown
  \/ ComposeSweep \/ RunDue \/ SweepEnds \/ Exit \/ Kill

\* Requests and jobs end (statements and provider calls have timeouts), timers
\* fire, and a task that can run is run.
ServiceFairness ==
  /\ WF_serviceVars(ShutdownSignal) /\ WF_serviceVars(Respond) /\ WF_serviceVars(Drained) /\ WF_serviceVars(Exit)
  /\ WF_serviceVars(Startup \/ LoopTop \/ FinishJob \/ Worked \/ NoWork \/ TickFails \/ SleepOrShutdown \/ ComposeSweep \/ RunDue)

ServiceSpec == ServiceInit /\ [][ServiceNext]_serviceVars /\ ServiceFairness

-----------------------------------------------------------------------------
\* A process that ends as it was meant to has nothing in hand (main.rs serve: "let
\* the worker finish its in-flight batch"): only one that was killed, or whose server
\* failed, drops jobs or requests.
NothingTorn == torn # {} => process \in {"killed", "failed"}

\* A process told to stop does stop, unless it is killed first, wherever in its
\* loop, its waits and its backoffs the signal finds it.
StopsWhenAsked == signalled ~> process # "up"
=============================================================================
