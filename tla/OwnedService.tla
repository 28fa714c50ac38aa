---------------------------- MODULE OwnedService ----------------------------
(***************************************************************************)
(* The owner of the archival service,                                      *)
(* chronik-cpp/ergon_regtest_service.cpp: one thread waits for the node's  *)
(* import, opens the index with its worker, starts the listener, watches   *)
(* the worker and takes it down; Stop may be called from several threads.  *)
(*                                                                         *)
(* The worker is ArchivalWorker or JournalReplay; here it may only fail.   *)
(* A step is one atomic or locked access; opening is one step that may     *)
(* throw.                                                                  *)
(***************************************************************************)
EXTENDS Integers

CONSTANT Stoppers     \* threads that call Stop; one of them the destructor

VARIABLES
  loaded, shutdown,               \* the node
  cancel, failed, joined, port,   \* atomics of Impl
  pc, pausing,                    \* the thread, and where it is in Pause
  worker,                         \* none, running or failed
  stop_mutex, stopper

node == <<loaded, shutdown>>
stop == <<cancel, joined, stop_mutex, stopper>>
vars == <<node, stop, failed, port, pc, pausing, worker>>

Cancelled == cancel \/ shutdown

Init ==
  /\ loaded = FALSE /\ shutdown = FALSE
  /\ cancel = FALSE /\ failed = FALSE /\ joined = FALSE /\ port = 0
  /\ pc = "import" /\ pausing = "no" /\ worker = "none"
  /\ stop_mutex = {} /\ stopper = [s \in Stoppers |-> "idle"]

-----------------------------------------------------------------------------
(* The node and the worker.                                                *)

Load == ~loaded /\ loaded' = TRUE
        /\ UNCHANGED <<shutdown, stop, failed, port, pc, pausing, worker>>
StartShutdown == ~shutdown /\ shutdown' = TRUE
                 /\ UNCHANGED <<loaded, stop, failed, port, pc, pausing, worker>>
WorkerFails == worker = "running" /\ worker' = "failed"
               /\ UNCHANGED <<node, stop, failed, port, pc, pausing>>

-----------------------------------------------------------------------------
(* Pause: the predicate is read under the mutex, but Stop sets and notifies *)
(* without it.                                                              *)

PauseCheck ==
  /\ pausing = "asked"
  /\ pausing' = IF Cancelled THEN "no" ELSE "checked"
  /\ UNCHANGED <<node, stop, failed, port, pc, worker>>
PauseWait ==
  /\ pausing = "checked"
  /\ pausing' = "waiting"
  /\ UNCHANGED <<node, stop, failed, port, pc, worker>>

PauseNeverEnds == FALSE /\ UNCHANGED vars \* mutant: wait, not wait_for
PauseTimesOut ==
  /\ pausing = "waiting"
  /\ pausing' = "no"
  /\ UNCHANGED <<node, stop, failed, port, pc, worker>>

-----------------------------------------------------------------------------
(* Run.                                                                    *)

At(where) == pc = where /\ pausing = "no"
Pause == pausing' = "asked" /\ UNCHANGED pc
Goto(where) == pc' = where /\ UNCHANGED pausing

AwaitImport ==
  /\ At("import")
  /\ CASE ~loaded /\ ~Cancelled -> Pause
       [] Cancelled -> Goto("ended")
       [] OTHER -> Goto("hook")
  /\ UNCHANGED <<node, stop, failed, port, worker>>

\* After before_open.
CheckCancelled ==
  /\ At("hook")
  /\ Goto(IF Cancelled THEN "ended" ELSE "open")
  /\ UNCHANGED <<node, stop, failed, port, worker>>

\* Access, directory, plugins and worker.
Open ==
  /\ At("open")
  /\ \/ worker' = "running" /\ Goto("listen")
     \/ Goto("catch") /\ UNCHANGED worker
  /\ UNCHANGED <<node, stop, failed, port>>

\* A throw unwinds the worker; the listener is started once.
TryStart ==
  /\ At("listen") /\ ~Cancelled
  /\ \/ worker' = "none" /\ Goto("catch")
     \/ worker = "running" /\ Goto("listening") /\ UNCHANGED worker
     \/ worker = "running" /\ Pause /\ UNCHANGED worker
  /\ UNCHANGED <<node, stop, failed, port>>

Listening ==
  /\ At("listening")
  /\ IF Cancelled THEN Goto("status") /\ UNCHANGED port
     ELSE port' = 1 /\ Goto("serve")
  /\ UNCHANGED <<node, stop, failed, worker>>

GiveUpListening ==
  /\ At("listen") /\ Cancelled
  /\ Goto("status")
  /\ UNCHANGED <<node, stop, failed, port, worker>>

Serve ==
  /\ At("serve")
  /\ IF ~Cancelled /\ worker # "failed" THEN Pause ELSE Goto("status")
  /\ UNCHANGED <<node, stop, failed, port, worker>>

ReadStatus ==
  /\ At("status")
  /\ failed' = (worker = "failed")
  /\ Goto("retract")
  /\ UNCHANGED <<node, stop, port, worker>>

Retract ==
  /\ At("retract")
  /\ port' = 0
  /\ Goto("stop")
  /\ UNCHANGED <<node, stop, failed, worker>>

StopWorker ==
  /\ At("stop")
  /\ worker' = "none"
  /\ Goto("ended")
  /\ UNCHANGED <<node, stop, failed, port>>

Catch ==
  /\ At("catch")
  /\ failed' = (failed \/ ~Cancelled)
  /\ Goto("ended")
  /\ UNCHANGED <<node, stop, port, worker>>

-----------------------------------------------------------------------------
(* Stop.                                                                   *)

Step(s, from, to) ==
  stopper[s] = from /\ stopper' = [stopper EXCEPT ![s] = to]

StopCalled(s) ==
  /\ Step(s, "idle", "lock")
  /\ UNCHANGED <<node, cancel, joined, stop_mutex, failed, port, pc, pausing, worker>>

StopEntersCancelled(s) == \* mutant: the second caller does not wait
  /\ \/ cancel /\ Step(s, "lock", "returned") /\ UNCHANGED <<stop_mutex, cancel>>
     \/ ~cancel /\ Step(s, "lock", "notify") /\ stop_mutex' = {s} /\ cancel' = TRUE
  /\ UNCHANGED <<node, joined, failed, port, pc, pausing, worker>>

StopEnters(s) ==
  /\ stop_mutex = {}
  /\ \/ joined /\ Step(s, "lock", "returned") /\ UNCHANGED <<stop_mutex, cancel>>
     \/ ~joined /\ Step(s, "lock", "notify") /\ stop_mutex' = {s} /\ cancel' = TRUE
  /\ UNCHANGED <<node, joined, failed, port, pc, pausing, worker>>

StopNotifies(s) ==
  /\ Step(s, "notify", "join")
  /\ pausing' = IF pausing = "waiting" THEN "asked" ELSE pausing
  /\ UNCHANGED <<node, cancel, joined, stop_mutex, failed, port, pc, worker>>

StopJoins(s) ==
  /\ pc = "ended" /\ Step(s, "join", "returned")
  /\ joined' = TRUE /\ stop_mutex' = {}
  /\ UNCHANGED <<node, cancel, failed, port, pc, pausing, worker>>

-----------------------------------------------------------------------------
Thread ==
  \/ PauseCheck \/ PauseWait \/ PauseTimesOut
  \/ AwaitImport \/ CheckCancelled \/ Open \/ TryStart \/ Listening
  \/ GiveUpListening \/ Serve \/ ReadStatus \/ Retract \/ StopWorker \/ Catch

StopStep(s) == StopEnters(s) \/ StopNotifies(s) \/ StopJoins(s)

Next ==
  \/ Load \/ StartShutdown \/ WorkerFails \/ Thread
  \/ \E s \in Stoppers : StopCalled(s) \/ StopStep(s)

Spec == Init /\ [][Next]_vars

\* The service's thread runs, and so does a thread in Stop; nothing is assumed
\* of the import, the worker or who calls Stop.
FairSpec == Spec /\ WF_vars(Thread) /\ \A s \in Stoppers : WF_vars(StopStep(s))

-----------------------------------------------------------------------------
(* Properties.                                                             *)

\* Types; the thread is joined by the one caller that holds stop_mutex.
TypeOK ==
  /\ {loaded, shutdown, cancel, failed, joined} \subseteq BOOLEAN
  /\ port \in {0, 1}
  /\ pc \in {"import", "hook", "open", "listen", "listening", "serve", "status",
             "retract", "stop", "catch", "ended"}
  /\ pausing \in {"no", "asked", "checked", "waiting"}
  /\ worker \in {"none", "running", "failed"}
  /\ stopper \in [Stoppers -> {"idle", "lock", "notify", "join", "returned"}]
  /\ {s \in Stoppers : stopper[s] \in {"notify", "join"}} = stop_mutex

\* When any call of Stop has returned, the thread and the worker with its
\* borrowed owners are gone and no port is announced ("No detach, timeout or
\* destruction of borrowed owners", Impl::Stop).
StoppedIsOver ==
  \A s \in Stoppers :
    stopper[s] = "returned" => pc = "ended" /\ worker = "none" /\ port = 0

\* An announced port has a worker behind it: it is retracted before the worker
\* is stopped, and it was not announced if Stop came first (Run).
PortHasWorker == port # 0 => worker # "none" /\ pc \in {"serve", "status", "retract"}

\* Stop returns from whatever the thread is doing, although its notification
\* may come between the thread's test and its wait (Pause, Stop).
StopReturns == \A s \in Stoppers : stopper[s] = "lock" ~> stopper[s] = "returned"
=============================================================================
