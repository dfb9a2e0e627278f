------------------------------- MODULE Server -------------------------------
(***************************************************************************)
(* The proxy process of crates/proxy/src/main.rs: the command line and the *)
(* start-up steps of start, load_config and serve, the accept loop with    *)
(* its session permits, and the shutdown with its three bounded waits.     *)
(*                                                                         *)
(* A session is a task that ends when it likes; what it does is the        *)
(* subject of other modules.  Time passes only where the shutdown waits.   *)
(***************************************************************************)
EXTENDS Naturals, Sequences, FiniteSets

CONSTANTS
    Conns,          \* the connections clients make
    CommandLines,   \* the argument lists the process is started with
    MaxSessions,    \* config.max_sessions
    MaxErrors,      \* MAX_CONSECUTIVE_ACCEPT_ERRORS
    Drain           \* SHUTDOWN_DRAIN_TIMEOUT

ASSUME ServerAssumption ==
    /\ IsFiniteSet(Conns)
    /\ MaxSessions \in Nat
    /\ Drain \in Nat \ {0}

VARIABLES
    args,           \* the arguments after argv[0]
    world,          \* the default file exists; the config has columns, and Vault keys
    phase,          \* what main is doing
    hardened,       \* core dumps are disabled
    keysRead,       \* key material is in memory
    mapped,         \* the columns are resolved, the write catalog is built
    warned,         \* NO_PROTECTION_WARNING was logged
    signalled,      \* SIGINT or SIGTERM arrived
    exit,           \* "none", "success" or "failure"
    outcome,        \* what serve will return
    errors,         \* consecutive_errors
    permits,        \* free permits of the semaphore
    task,           \* what became of each connection
    helper,         \* the refresher and the token watch
    elapsed         \* time in the current wait of the shutdown

startVars == <<args, world, hardened, keysRead, mapped, warned>>
loopVars == <<errors, permits, task>>
vars == <<startVars, phase, signalled, exit, outcome, loopVars, helper, elapsed>>

Helpers == {"refresher", "watch"}

Init ==
    /\ args \in CommandLines
    /\ world \in [file : BOOLEAN, columns : BOOLEAN, vault : BOOLEAN]
    /\ phase = "start"
    /\ hardened = FALSE /\ keysRead = FALSE /\ mapped = FALSE /\ warned = FALSE
    /\ signalled = FALSE
    /\ exit = "none"
    /\ outcome = "success"
    /\ errors = 0
    /\ permits = MaxSessions
    /\ task = [c \in Conns |-> "none"]
    /\ helper = [h \in Helpers |-> "absent"]
    /\ elapsed = 0

-----------------------------------------------------------------------------
(* The command line *)

Flags == {"--plain-relay", "--allow-core-dumps", "--help"}
Given(flag) == \E i \in 1..Len(args) : args[i] = flag
Paths == {i \in 1..Len(args) : args[i] \notin Flags \cup {"--unknown"}}

\* Args::parse: an unknown option and a second path are refused.
Usable == ~Given("--unknown") /\ Cardinality(Paths) <= 1

Quit(code) ==
    /\ phase' = "exited"
    /\ exit' = code
    /\ UNCHANGED <<startVars, signalled, outcome, loopVars, helper, elapsed>>

\* start: the arguments, and help before anything else; print_help fails only
\* when the text cannot be written.
Start ==
    /\ phase = "start"
    /\ IF ~Usable THEN Quit("failure")
       ELSE IF Given("--help") THEN \E code \in {"success", "failure"} : Quit(code)
       ELSE /\ phase' = "harden"
            /\ UNCHANGED <<startVars, signalled, exit, outcome, loopVars, helper, elapsed>>

\* disable_core_dumps, unless told to leave them.
Harden ==
    /\ phase = "harden"
    /\ hardened' = ~Given("--allow-core-dumps")
    /\ phase' = "load"
    /\ UNCHANGED <<args, world, keysRead, mapped, warned, signalled, exit, outcome,
                   loopVars, helper, elapsed>>

HasConfig == Paths # {} \/ world.file

\* Whether the configuration that is loaded protects anything: the built-in
\* defaults of --plain-relay do not.
Protects == HasConfig /\ world.columns

\* load_config: a named file, the default one, or none if told so.
MayLoad == HasConfig \/ Given("--plain-relay")

\* load_config: every configuration that protects nothing is warned about.
LoadConfig ==
    /\ phase = "load"
    /\ MayLoad
    /\ warned' = ~Protects
    /\ phase' = "tls"
    /\ UNCHANGED <<args, world, hardened, keysRead, mapped, signalled, exit, outcome,
                   loopVars, helper, elapsed>>

\* serve: TlsContext::from_config; without columns there is nothing to resolve.
BuildTls ==
    /\ phase = "tls"
    /\ phase' = IF Protects THEN "keys" ELSE "listen"
    /\ UNCHANGED <<startVars, signalled, exit, outcome, loopVars, helper, elapsed>>

\* serve: FileKeySource::load, or VaultKeySource::connect.
ReadKeys ==
    /\ phase = "keys"
    /\ keysRead' = TRUE
    /\ phase' = "resolve"
    /\ UNCHANGED <<args, world, hardened, mapped, warned, signalled, exit, outcome,
                   loopVars, helper, elapsed>>

\* serve: resolve_columns, the row context and the write catalog.
ResolveMap ==
    /\ phase = "resolve"
    /\ mapped' = TRUE
    /\ phase' = "listen"
    /\ UNCHANGED <<args, world, hardened, keysRead, warned, signalled, exit, outcome,
                   loopVars, helper, elapsed>>

\* serve: the listener is bound and the helper tasks are spawned.
Listen ==
    /\ phase = "listen"
    /\ phase' = "accepting"
    /\ helper' = [h \in Helpers |->
           IF mapped /\ (h = "watch" => world.vault) THEN "running" ELSE "absent"]
    /\ UNCHANGED <<startVars, signalled, exit, outcome, loopVars, elapsed>>

\* Any of these steps can fail, load_config for want of a file.
StartupFails ==
    /\ phase \in {"harden", "load", "tls", "keys", "resolve", "listen"}
    /\ Quit("failure")

-----------------------------------------------------------------------------
(* The accept loop *)

Running == {c \in Conns : task[c] = "running"}

\* A connection is admitted with a permit, or dropped.
Admit(c) ==
    /\ permits > 0
    /\ permits' = permits - 1
    /\ task' = [task EXCEPT ![c] = "running"]

Refuse(c) ==
    /\ permits = 0
    /\ task' = [task EXCEPT ![c] = "refused"]
    /\ UNCHANGED permits

Accept(c) ==
    /\ phase = "accepting"
    /\ task[c] = "none"
    /\ errors' = 0
    /\ Admit(c) \/ Refuse(c)
    /\ UNCHANGED <<startVars, phase, signalled, exit, outcome, helper, elapsed>>

\* serve leaves the accept loop, for a reason of its own or for a signal.
Leave(result) ==
    /\ outcome' = result
    /\ phase' = "refresher"
    /\ elapsed' = 0
    /\ UNCHANGED <<startVars, exit, permits, task, helper>>

AcceptFatal ==
    /\ phase = "accepting"
    /\ Leave("failure")
    /\ UNCHANGED <<signalled, errors>>

\* Any other error is counted; one that is not of a connection is slept on.
AcceptError ==
    /\ phase = "accepting"
    /\ errors' = errors + 1
    /\ IF errors + 1 >= MaxErrors
       THEN Leave("failure") /\ UNCHANGED signalled
       ELSE /\ phase' \in {"accepting", "backoff"}
            /\ UNCHANGED <<startVars, signalled, exit, outcome, permits, task, helper, elapsed>>

BackoffOver ==
    /\ phase = "backoff"
    /\ phase' = "accepting"
    /\ UNCHANGED <<startVars, signalled, exit, outcome, loopVars, helper, elapsed>>

\* A finished task is joined.
Join(c) ==
    /\ phase \in {"accepting", "draining"}
    /\ task[c] = "ended"
    /\ task' = [task EXCEPT ![c] = "joined"]
    /\ UNCHANGED <<startVars, phase, signalled, exit, outcome, errors, permits, helper, elapsed>>

\* Mutant of SessionEnds: the permit is released on one of two ways out.
SessionEndsKeeping(c) ==
    /\ task[c] = "running"
    /\ task' = [task EXCEPT ![c] = "ended"]
    /\ \E released \in {0, 1} : permits' = permits + released
    /\ UNCHANGED <<startVars, phase, signalled, exit, outcome, errors, helper, elapsed>>

\* session::run returns, or its task panics: the permit is dropped with it.
SessionEnds(c) ==
    /\ task[c] = "running"
    /\ task' = [task EXCEPT ![c] = "ended"]
    /\ permits' = permits + 1
    /\ UNCHANGED <<startVars, phase, signalled, exit, outcome, errors, helper, elapsed>>

-----------------------------------------------------------------------------
(* The shutdown *)

\* shutdown_signal resolves.
Signal ==
    /\ phase \in {"accepting", "backoff"}
    /\ signalled' = TRUE
    /\ Leave("success")
    /\ UNCHANGED errors

Stopping == phase \in {"refresher", "watch", "draining"}

\* A helper sees the shutdown.
HelperStops(h) ==
    /\ Stopping
    /\ helper[h] = "running"
    /\ helper' = [helper EXCEPT ![h] = "stopped"]
    /\ UNCHANGED <<startVars, phase, signalled, exit, outcome, loopVars, elapsed>>

Wait(next) ==
    /\ phase' = next
    /\ elapsed' = 0
    /\ UNCHANGED <<startVars, signalled, exit, outcome, loopVars, helper>>

\* Mutant of HelperAwaited: the wait has no limit.
HelperAwaitedForever(h, next) ==
    /\ phase = h
    /\ helper[h] # "running"
    /\ Wait(next)

\* serve waits for the refresher and then for the watch, each up to the limit.
HelperAwaited(h, next) ==
    /\ phase = h
    /\ helper[h] # "running" \/ elapsed = Drain
    /\ Wait(next)

Unjoined == {c \in Conns : task[c] \in {"running", "ended"}}

\* drain_sessions: every task was joined.
Drained ==
    /\ phase = "draining"
    /\ Unjoined = {}
    /\ phase' = "exited"
    /\ exit' = outcome
    /\ UNCHANGED <<startVars, signalled, outcome, loopVars, helper, elapsed>>

\* drain_sessions: the deadline, and what is left is aborted.
Abort ==
    /\ phase = "draining"
    /\ Unjoined # {} /\ elapsed = Drain
    /\ task' = [c \in Conns |-> IF task[c] = "running" THEN "aborted"
                                ELSE IF task[c] = "ended" THEN "joined" ELSE task[c]]
    /\ permits' = permits + Cardinality(Running)
    /\ phase' = "exited"
    /\ exit' = outcome
    /\ UNCHANGED <<startVars, signalled, outcome, errors, helper, elapsed>>

\* Time passes while serve has to wait.
Tick ==
    /\ \/ phase \in Helpers /\ helper[phase] = "running"
       \/ phase = "draining" /\ Running # {} /\ Unjoined = Running
    /\ elapsed < Drain
    /\ elapsed' = elapsed + 1
    /\ UNCHANGED <<startVars, phase, signalled, exit, outcome, loopVars, helper>>

Startup == Start \/ Harden \/ LoadConfig \/ BuildTls \/ ReadKeys \/ ResolveMap \/ Listen \/ StartupFails

Shutdown ==
    \/ HelperAwaited("refresher", "watch") \/ HelperAwaited("watch", "draining")
    \/ Drained \/ Abort \/ Tick

Next ==
    \/ Startup
    \/ \E c \in Conns : Accept(c) \/ Join(c) \/ SessionEnds(c)
    \/ AcceptFatal \/ AcceptError \/ BackoffOver \/ Signal
    \/ \E h \in Helpers : HelperStops(h)
    \/ Shutdown

\* The timers of the shutdown fire, and a joined task is noticed.
Fairness ==
    /\ WF_vars(Shutdown)
    /\ \A c \in Conns : WF_vars(Join(c))

Spec == Init /\ [][Next]_vars /\ Fairness

-----------------------------------------------------------------------------

\* Sessions never outnumber max_sessions, and no permit is lost or gained,
\* however sessions end.
PermitsAccounted == permits + Cardinality(Running) = MaxSessions

\* Whatever sessions and helpers do, a shutdown that began comes to its end.
ShutdownCompletes == Stopping ~> phase = "exited"

=============================================================================
