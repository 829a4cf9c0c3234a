------------------------------- MODULE Kernel -------------------------------
(***************************************************************************)
(* Kernel: registration, boot, shutdown, pause, resume, crash handling and  *)
(* health of the modules.  Every method awaits the modules' hooks and the   *)
(* event bus, so that the calls of an operator, of a health prober and of   *)
(* the modules that crash interleave with boot and with one another.  One   *)
(* action is what runs between two awaits.                                  *)
(***************************************************************************)
EXTENDS DependencyGraph, SequencesExt

CONSTANTS
    Module,          \* ids
    Graphs,          \* the dependsOn of the modules, one of these
    BootRank,        \* KIND_BOOT_PRIORITY of their kinds
    Audit,           \* the modules of kind "audit"
    Call,            \* calls of the public methods, each made at most once
    MaxRestarts,     \* of BoundedRestartPolicy
    StopOnExhaustion \* its stopKernelOnExhaustion

ASSUME KernelAssumption ==
    /\ Module \subseteq Nat \ {0} /\ IsFiniteSet(Module)
    /\ Graphs \subseteq [Module -> SUBSET Module]
    /\ BootRank \in [Module -> Nat]
    /\ Audit \subseteq Module
    /\ MaxRestarts \in Nat
    /\ StopOnExhaustion \in BOOLEAN

VARIABLES
    dependsOn,  \* the dependencies of each module
    registry,   \* the registered modules
    state,      \* #state
    order,      \* #bootOrder
    status,     \* #status
    failures,   \* #failureCounts, 0 where the map has no entry
    up,         \* modules that were started and not shut down since
    restarts,   \* ghost: restarts attempted per module
    boot,       \* boot(): step, and the index in order of its module
    call        \* the other calls: operation, failure count, module

kernelVars == <<dependsOn, registry, state, order, status, failures, up, restarts, boot, call>>

KernelState == {"created", "booting", "running", "paused", "shutting_down",
                "stopped", "boot_failed"}

HealthStatus == {"UNKNOWN", "INITIALIZING", "READY", "DEGRADED", "FAILED", "STOPPED"}

Operation == {"none", "shutdown", "pause", "resume", "crash", "restart", "health", "done"}

KernelTypeOK ==
    /\ dependsOn \in Graphs
    /\ registry \subseteq Module
    /\ state \in KernelState
    /\ order \in Seq(registry) /\ IsInjective(order)
    /\ status \in [Module -> HealthStatus]
    /\ failures \in [Module -> Nat]
    /\ up \subseteq registry
    /\ restarts \in [Module -> Nat]
    /\ boot \in [step : {"idle", "resolving", "starting", "started", "threw", "unwinding",
                          "done"},
                 at : 0..Len(order)]
    /\ call \in [Call -> [op : Operation, at : Nat, module : Module \cup {0}]]

KernelInit ==
    /\ dependsOn \in Graphs
    /\ registry = {}
    /\ state = "created"
    /\ order = <<>>
    /\ status = [m \in Module |-> "UNKNOWN"]
    /\ failures = [m \in Module |-> 0]
    /\ up = {}
    /\ restarts = [m \in Module |-> 0]
    /\ boot = [step |-> "idle", at |-> 0]
    /\ call = [c \in Call |-> [op |-> "none", at |-> 0, module |-> 0]]

\* The graph resolveBootOrder is given.
Registered == [m \in registry |-> dependsOn[m]]

\* resolveShutdownOrder: reverse of boot, audit modules last.
ShutsBefore(m, n) ==
    IF m \in Audit <=> n \in Audit
    THEN \E i, j \in DOMAIN order : i < j /\ order[i] = n /\ order[j] = m
    ELSE n \in Audit

-----------------------------------------------------------------------------
(* Boot *)

Register(m) ==
    /\ state = "created"
    /\ m \notin registry
    /\ registry' = registry \cup {m}
    /\ UNCHANGED <<dependsOn, state, order, status, failures, up, restarts, boot, call>>

\* A kernel without modules has nothing to boot and is left out.
Boot ==
    /\ state = "created"
    /\ registry # {}
    /\ state' = "booting"
    /\ boot' = [boot EXCEPT !.step = "resolving"]
    /\ UNCHANGED <<dependsOn, registry, order, status, failures, up, restarts, call>>

\* The next turn of the loop over o, of which i modules are started.  attach()
\* is called outside the try: when it throws, boot() rejects where it is, with
\* the kernel "booting" and what was started still up.
StartNext(o, i) ==
    \/ /\ i < Len(o)
       /\ boot' = [step |-> "starting", at |-> i + 1]
       /\ status' = [status EXCEPT ![o[i + 1]] = "INITIALIZING"]
       /\ UNCHANGED state
    \/ /\ i < Len(o)
       /\ boot' = [step |-> "threw", at |-> i]
       /\ UNCHANGED <<state, status>>
    \/ /\ i = Len(o)
       /\ boot' = [boot EXCEPT !.step = "done"]
       /\ state' = "running"
       /\ UNCHANGED status

Resolve ==
    /\ boot.step = "resolving"
    /\ Resolves(Registered, BootRank)
    /\ order' = Order(Registered, BootRank)
    /\ StartNext(order', 0)
    /\ UNCHANGED <<dependsOn, registry, failures, up, restarts, call>>

ResolveFails ==
    /\ boot.step = "resolving"
    /\ ~ Resolves(Registered, BootRank)
    /\ state' = "boot_failed"
    /\ boot' = [boot EXCEPT !.step = "done"]
    /\ UNCHANGED <<dependsOn, registry, order, status, failures, up, restarts, call>>

\* initialize() and start() of the current module have returned.
ModuleStarts ==
    /\ boot.step = "starting"
    /\ status' = [status EXCEPT ![order[boot.at]] = "READY"]
    /\ up' = up \cup {order[boot.at]}
    /\ boot' = [boot EXCEPT !.step = "started"]
    /\ UNCHANGED <<dependsOn, registry, state, order, failures, restarts, call>>

BootNext ==
    /\ boot.step = "started"
    /\ StartNext(order, boot.at)
    /\ UNCHANGED <<dependsOn, registry, order, failures, up, restarts, call>>

\* Mutant: only the failed module is given up, what was started stays.
ModuleStartFailsKeepsStarted ==
    /\ boot.step = "starting"
    /\ status' = [status EXCEPT ![order[boot.at]] = "FAILED"]
    /\ failures' = [failures EXCEPT ![order[boot.at]] = @ + 1]
    /\ boot' = [step |-> "unwinding", at |-> 0]
    /\ UNCHANGED <<dependsOn, registry, state, order, up, restarts, call>>

\* One of them threw: the modules before it are unwound.
ModuleStartFails ==
    /\ boot.step = "starting"
    /\ status' = [status EXCEPT ![order[boot.at]] = "FAILED"]
    /\ failures' = [failures EXCEPT ![order[boot.at]] = @ + 1]
    /\ boot' = [step |-> "unwinding", at |-> boot.at - 1]
    /\ UNCHANGED <<dependsOn, registry, state, order, up, restarts, call>>

\* Mutant: a shutdown() that throws ends boot().
UnwindModuleUncaught ==
    /\ boot.step = "unwinding" /\ boot.at > 0
    /\ \/ /\ status' = [status EXCEPT ![order[boot.at]] = "STOPPED"]
          /\ up' = up \ {order[boot.at]}
          /\ boot' = [boot EXCEPT !.at = @ - 1]
       \/ /\ boot' = [boot EXCEPT !.step = "done"]
          /\ UNCHANGED <<status, up>>
    /\ UNCHANGED <<dependsOn, registry, state, order, failures, restarts, call>>

\* shutdown() of the current module has returned or thrown.
UnwindModule ==
    /\ boot.step = "unwinding" /\ boot.at > 0
    /\ status' = [status EXCEPT ![order[boot.at]] = "STOPPED"]
    /\ up' = up \ {order[boot.at]}
    /\ boot' = [boot EXCEPT !.at = @ - 1]
    /\ UNCHANGED <<dependsOn, registry, state, order, failures, restarts, call>>

UnwindEnds ==
    /\ boot.step = "unwinding" /\ boot.at = 0
    /\ state' = "boot_failed"
    /\ boot' = [boot EXCEPT !.step = "done"]
    /\ UNCHANGED <<dependsOn, registry, order, status, failures, up, restarts, call>>

-----------------------------------------------------------------------------
(* Shutdown *)

CanShutdown == state \in {"running", "paused", "boot_failed"}

Shutdown(c) ==
    /\ call[c].op = "none"
    /\ CanShutdown
    /\ state' = "shutting_down"
    /\ call' = [call EXCEPT ![c].op = "shutdown"]
    /\ UNCHANGED <<dependsOn, registry, order, status, failures, up, restarts, boot>>

\* The event (module 0) or the shutdown() of the current module has returned:
\* on to the next module that is not STOPPED, or the kernel has stopped.
ShutdownNext(c) ==
    /\ call[c].op = "shutdown"
    /\ LET m == call[c].module
           s == [n \in Module |-> IF n = m THEN "STOPPED" ELSE status[n]]
           left == {n \in ToSet(order) : s[n] # "STOPPED" /\ (m = 0 \/ ShutsBefore(m, n))}
       IN  /\ status' = s
           /\ up' = up \ {m}
           /\ \/ /\ left = {}
                 /\ state' = "stopped"
                 /\ call' = [call EXCEPT ![c].op = "done"]
              \/ \E n \in left :
                    /\ \A l \in left \ {n} : ShutsBefore(n, l)
                    /\ call' = [call EXCEPT ![c].module = n]
                    /\ UNCHANGED state
    /\ UNCHANGED <<dependsOn, registry, order, failures, restarts, boot>>

-----------------------------------------------------------------------------
(* Pause and resume *)

Pause(c) ==
    /\ call[c].op = "none"
    /\ state = "running"
    /\ call' = [call EXCEPT ![c].op = "pause"]
    /\ UNCHANGED <<dependsOn, registry, state, order, status, failures, up, restarts, boot>>

Resume(c) ==
    /\ call[c].op = "none"
    /\ state = "paused"
    /\ call' = [call EXCEPT ![c].op = "resume"]
    /\ UNCHANGED <<dependsOn, registry, state, order, status, failures, up, restarts, boot>>

\* The last module's hook has returned, or one of them threw and the call ends
\* where it is.  The state is not looked at again.
LullEnds(c) ==
    /\ \/ call[c].op = "pause" /\ state' = "paused"
       \/ call[c].op = "resume" /\ state' = "running"
       \/ call[c].op \in {"pause", "resume"} /\ UNCHANGED state
    /\ call' = [call EXCEPT ![c].op = "done"]
    /\ UNCHANGED <<dependsOn, registry, order, status, failures, up, restarts, boot>>

-----------------------------------------------------------------------------
(* Crashes *)

\* A module that was started reports a crash.
ReportCrash(c, m) ==
    /\ call[c].op = "none"
    /\ m \in up
    /\ status' = [status EXCEPT ![m] = "FAILED"]
    /\ failures' = [failures EXCEPT ![m] = @ + 1]
    /\ call' = [call EXCEPT ![c] = [op |-> "crash", at |-> failures'[m], module |-> m]]
    /\ UNCHANGED <<dependsOn, registry, state, order, up, restarts, boot>>

\* BoundedRestartPolicy.decide says "restart".
CrashRestarts(c) ==
    /\ call[c].op = "crash"
    /\ call[c].at <= MaxRestarts
    /\ call' = [call EXCEPT ![c].op = "restart"]
    /\ restarts' = [restarts EXCEPT ![call[c].module] = @ + 1]
    /\ UNCHANGED <<dependsOn, registry, state, order, status, failures, up, boot>>

\* It says "stop_kernel", and shutdown() refuses or starts, or "leave_failed".
CrashEscalates(c) ==
    /\ call[c].op = "crash"
    /\ call[c].at > MaxRestarts
    /\ IF StopOnExhaustion /\ CanShutdown
       THEN /\ state' = "shutting_down"
            /\ call' = [call EXCEPT ![c] = [op |-> "shutdown", at |-> 0, module |-> 0]]
       ELSE /\ call' = [call EXCEPT ![c].op = "done"]
            /\ UNCHANGED state
    /\ UNCHANGED <<dependsOn, registry, order, status, failures, up, restarts, boot>>

\* Mutant: a restart that succeeds clears the failure count.
RestartEndsForgives(c) ==
    /\ call[c].op = "restart"
    /\ LET m == call[c].module
       IN  \/ /\ status' = [status EXCEPT ![m] = "READY"]
              /\ failures' = [failures EXCEPT ![m] = 0]
              /\ up' = up \cup {m}
           \/ /\ status' = [status EXCEPT ![m] = "FAILED"]
              /\ UNCHANGED <<failures, up>>
    /\ call' = [call EXCEPT ![c].op = "done"]
    /\ UNCHANGED <<dependsOn, registry, state, order, restarts, boot>>

\* initialize() and start() of the module have returned, or one threw.
RestartEnds(c) ==
    /\ call[c].op = "restart"
    /\ LET m == call[c].module
       IN  \/ /\ status' = [status EXCEPT ![m] = "READY"]
              /\ up' = up \cup {m}
           \/ /\ status' = [status EXCEPT ![m] = "FAILED"]
              /\ UNCHANGED up
    /\ call' = [call EXCEPT ![c].op = "done"]
    /\ UNCHANGED <<dependsOn, registry, state, order, failures, restarts, boot>>

-----------------------------------------------------------------------------
(* Health *)

\* On to the next module after m whose status in s is polled, or the report.
PollNext(c, m, s) ==
    LET left == {n \in registry : n > m /\ s[n] \in {"READY", "DEGRADED"}}
    IN  call' = [call EXCEPT ![c] =
            IF left = {} THEN [op |-> "done", at |-> 0, module |-> 0]
            ELSE [op |-> "health", at |-> 0, module |-> Min(left)]]

\* Modules are polled in the order of registration, here that of their ids.
Health(c) ==
    /\ call[c].op = "none"
    /\ \E m \in registry : status[m] \in {"READY", "DEGRADED"}
    /\ PollNext(c, 0, status)
    /\ UNCHANGED <<dependsOn, registry, state, order, status, failures, up, restarts, boot>>

\* healthy() has answered, or thrown, which counts as FAILED: what it said is
\* written over the status the module has by now.
Polled(c) ==
    /\ call[c].op = "health"
    /\ \E answer \in {"READY", "DEGRADED", "FAILED"} :
        status' = [status EXCEPT ![call[c].module] = answer]
    /\ PollNext(c, call[c].module, status')
    /\ UNCHANGED <<dependsOn, registry, state, order, failures, up, restarts, boot>>

-----------------------------------------------------------------------------

\* The continuations that are due.
KernelProceed ==
    \/ Resolve \/ ResolveFails
    \/ ModuleStarts \/ ModuleStartFails \/ BootNext
    \/ UnwindModule \/ UnwindEnds
    \/ \E c \in Call : \/ ShutdownNext(c) \/ LullEnds(c)
                       \/ CrashRestarts(c) \/ CrashEscalates(c) \/ RestartEnds(c)
                       \/ Polled(c)

KernelNext ==
    \/ KernelProceed
    \/ \E m \in Module : Register(m)
    \/ Boot
    \/ \E c \in Call :
        \/ Shutdown(c) \/ Pause(c) \/ Resume(c) \/ Health(c)
        \/ \E m \in Module : ReportCrash(c, m)

KernelSpec == KernelInit /\ [][KernelNext]_kernelVars

\* The hooks of the modules and the event handlers return; the event loop runs
\* some continuation while one is due.
KernelFairSpec == KernelSpec /\ WF_kernelVars(KernelProceed)

-----------------------------------------------------------------------------
(* Properties *)

\* K2, "Boot is fail-closed": boot() ends in "running" only with every
\* registered module started, none of which waits for itself, and in
\* "boot_failed" with none, except what a crash report restarted meanwhile.  While
\* attach() of a module has ended it in neither, exactly the modules ordered
\* before that one are up: nothing unwinds them.
BootFailClosed ==
    [][state = "booting" =>
        /\ state' = "running" =>
            /\ up = registry
            /\ \A m \in registry : dependsOn[m] \subseteq registry
            /\ \A S \in SUBSET registry : S = {} \/ \E m \in S : dependsOn[m] \cap S = {}
        /\ state' = "boot_failed" => \A m \in up : restarts[m] > 0
        /\ boot'.step = "threw" => up' = {order'[i] : i \in 1..boot'.at}]_kernelVars

\* K2 and K3: from boot through unwinding and shutdown, whatever else is going
\* on, no module is up while one it depends on is not.  Audit modules, which
\* are shut down last, and restarted ones are excepted.
DependenciesUp ==
    \A m \in up \ Audit : dependsOn[m] \subseteq up \/ restarts[m] > 0

\* K3, "audit last": once boot has ended and an audit module is down, so is
\* every module that is none, except restarted ones.
AuditLast ==
    boot.step = "done" =>
        \A a \in (Audit \cap ToSet(order)) \ up :
            \A m \in up \ Audit : restarts[m] > 0

\* A kernel that stopped left no module up but one whose restart it overtook.
StoppedIsDown ==
    state = "stopped" => \A m \in up : restarts[m] > 0

\* K4, "Crash recovery is bounded": no module is restarted more than
\* MaxRestarts times, however its crash reports overlap.
RestartBounded == \A m \in Module : restarts[m] <= MaxRestarts

\* boot() and shutdown() come to an end, whatever initialize(), start() and
\* shutdown() of the modules throw: neither state lasts, unless boot() was rejected
\* because attach() of a module threw.
LifecycleEnds == []<>(state \notin {"booting", "shutting_down"} \/ boot.step = "threw")

\* K2, "an unrecoverable module aborts boot and unwinds": every boot() leaves
\* the kernel "running", or "boot_failed", from which it can be shut down.
BootEnds == state = "booting" ~> state \in {"running", "boot_failed"}

\* health.ts: "STOPPED as the terminal state".
StoppedTerminal ==
    [][\A m \in Module : status[m] = "STOPPED" => status'[m] = "STOPPED"]_kernelVars

\* The kernel's safety under overlapping boot, shutdown, pause, resume, crash and
\* health calls: nothing runs above a stopped dependency, audit goes down last, a
\* stopped kernel is down, and restarts are bounded.
KernelSafe ==
    /\ KernelTypeOK
    /\ DependenciesUp
    /\ AuditLast
    /\ StoppedIsDown
    /\ RestartBounded
=============================================================================
