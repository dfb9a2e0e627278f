---------------------------- MODULE ServerProofs ----------------------------
(***************************************************************************)
(* Proofs about modules Server and Keyfile, for any number of connections, *)
(* permits, generators and loaders, and for any command lines.             *)
(***************************************************************************)
EXTENDS Server, Keyfile, FiniteSetTheorems, TLAPS

(* The permits of the accept loop *)

TaskStates == {"none", "running", "refused", "ended", "joined", "aborted"}

\* The inductive invariant of the accept loop.
PermitsInv ==
    /\ permits \in Nat
    /\ task \in [Conns -> TaskStates]
    /\ PermitsAccounted

\* The sessions that run are finitely many.
LEMMA RunningFinite == IsFiniteSet(Running) /\ Cardinality(Running) \in Nat
BY ServerAssumption, FS_Subset, FS_CardinalityType DEF Running

\* No session runs at the start and every permit is free.
LEMMA InitPermits == Init => PermitsInv
<1> SUFFICES ASSUME Init PROVE PermitsInv
  OBVIOUS
<1>1. Running = {}
  BY DEF Init, Running
<1> QED
  BY <1>1, ServerAssumption, FS_EmptySet DEF Init, PermitsInv, PermitsAccounted, TaskStates

\* A step that starts and ends no session.
LEMMA LoopStill ==
    ASSUME PermitsInv, UNCHANGED permits, Running' = Running,
           task' \in [Conns -> TaskStates]
    PROVE  PermitsInv'
BY DEF PermitsInv, PermitsAccounted

\* A connection that is admitted takes a permit; one that is refused does not
\* run.
LEMMA AcceptKeeps == ASSUME PermitsInv, NEW c \in Conns, Accept(c) PROVE PermitsInv'
<1>1. task' \in [Conns -> TaskStates]
  BY DEF PermitsInv, Accept, Admit, Refuse, TaskStates
<1>2. CASE Admit(c)
  <2>1. Running' = Running \cup {c} /\ c \notin Running
    BY <1>2 DEF PermitsInv, Accept, Admit, Running, TaskStates
  <2>2. Cardinality(Running') = Cardinality(Running) + 1
    BY <2>1, RunningFinite, FS_AddElement
  <2> QED
    BY <1>1, <1>2, <2>2, RunningFinite, ServerAssumption
    DEF PermitsInv, PermitsAccounted, Admit
<1>3. CASE Refuse(c)
  <2>1. Running' = Running
    BY <1>3 DEF PermitsInv, Accept, Refuse, Running, TaskStates
  <2> QED
    BY <1>1, <1>3, <2>1, LoopStill DEF Refuse
<1> QED
  BY <1>2, <1>3 DEF Accept

\* The permit of a session is released with its task, however it ends.
LEMMA SessionEndsKeeps == ASSUME PermitsInv, NEW c \in Conns, SessionEnds(c) PROVE PermitsInv'
<1>1. task' \in [Conns -> TaskStates]
  BY DEF PermitsInv, SessionEnds, TaskStates
<1>2. Running' = Running \ {c} /\ c \in Running
  BY DEF PermitsInv, SessionEnds, Running, TaskStates
<1>3. Cardinality(Running') = Cardinality(Running) - 1
  BY <1>2, RunningFinite, FS_RemoveElement
<1> QED
  BY <1>1, <1>3, RunningFinite, ServerAssumption
  DEF PermitsInv, PermitsAccounted, SessionEnds

\* Joining a task that ended concerns no permit.
LEMMA JoinKeeps == ASSUME PermitsInv, NEW c \in Conns, Join(c) PROVE PermitsInv'
<1>1. task' \in [Conns -> TaskStates] /\ Running' = Running
  BY DEF PermitsInv, Join, Running, TaskStates
<1> QED
  BY <1>1, LoopStill DEF Join

\* What the deadline of the drain aborts gives its permits back.
LEMMA AbortKeeps == ASSUME PermitsInv, Abort PROVE PermitsInv'
<1>1. task' \in [Conns -> TaskStates] /\ Running' = {}
  BY DEF PermitsInv, Abort, Running, TaskStates
<1> QED
  BY <1>1, RunningFinite, ServerAssumption, FS_EmptySet
  DEF PermitsInv, PermitsAccounted, Abort

\* Every other step leaves permits and tasks alone.
LEMMA OthersKeepPermits ==
    ASSUME PermitsInv, UNCHANGED <<permits, task>> PROVE PermitsInv'
BY DEF PermitsInv, PermitsAccounted, Running

\* Every step keeps the permits accounted for.
LEMMA NextPermits == PermitsInv /\ [Next]_vars => PermitsInv'
<1> SUFFICES ASSUME PermitsInv, [Next]_vars PROVE PermitsInv'
  OBVIOUS
<1>1. CASE Startup
  <2>1. UNCHANGED <<permits, task>>
    BY <1>1 DEF Startup, Start, Quit, Harden, LoadConfig, BuildTls, ReadKeys,
                ResolveMap, Listen, StartupFails, loopVars
  <2> QED
    BY <2>1, OthersKeepPermits
<1>2. ASSUME NEW c \in Conns, Accept(c) \/ Join(c) \/ SessionEnds(c) PROVE PermitsInv'
  BY <1>2, AcceptKeeps, JoinKeeps, SessionEndsKeeps
<1>3. CASE AcceptFatal \/ AcceptError \/ BackoffOver \/ Signal
  <2>1. UNCHANGED <<permits, task>>
    BY <1>3 DEF AcceptFatal, AcceptError, BackoffOver, Signal, Leave, loopVars
  <2> QED
    BY <2>1, OthersKeepPermits
<1>4. ASSUME NEW h \in Helpers, HelperStops(h) PROVE PermitsInv'
  BY <1>4, OthersKeepPermits DEF HelperStops, loopVars
<1>5. CASE Shutdown
  <2>1. CASE Abort
    BY <2>1, AbortKeeps
  <2>2. CASE ~Abort
    <3>1. UNCHANGED <<permits, task>>
      BY <1>5, <2>2 DEF Shutdown, HelperAwaited, Wait, Drained, Tick, loopVars
    <3> QED
      BY <3>1, OthersKeepPermits
  <2> QED
    BY <2>1, <2>2
<1>6. CASE UNCHANGED vars
  BY <1>6, OthersKeepPermits DEF vars, loopVars
<1> QED
  BY <1>1, <1>2, <1>3, <1>4, <1>5, <1>6 DEF Next

\* At every moment the free permits and the running sessions together are
\* max_sessions (serve, spawn_session and drain_sessions of main.rs).
THEOREM PermitsTheorem == Spec => []PermitsAccounted
<1>1. PermitsInv => PermitsAccounted
  BY DEF PermitsInv
<1> QED
  BY InitPermits, NextPermits, <1>1, PTL DEF Spec

-----------------------------------------------------------------------------
(* The start-up and the exit *)

Serving == {"accepting", "backoff", "refresher", "watch", "draining"}
Configured == {"tls", "keys", "resolve", "listen"} \cup Serving

\* Key material is only ever in memory once core dumps are disabled, unless the
\* command line asked to keep them (start, before load_config and serve).
KeysGuarded == keysRead => (hardened \/ Given("--allow-core-dumps"))

\* A process that accepts connections has read its keys and resolved its columns,
\* or has warned that it protects nothing: no order of the start-up steps serves
\* clients in the clear without a word (load_config and serve of main.rs).
NeverSilentlyPlain ==
    phase \in Serving => IF Protects THEN mapped /\ keysRead ELSE warned

\* The process reports success only when it was told to stop or asked for help,
\* and a process that was told to stop reports success whatever its sessions and
\* helpers did meanwhile (the outcome serve carries through its shutdown).
ExitTold ==
    /\ exit = "success" => (signalled \/ Given("--help"))
    /\ signalled /\ phase = "exited" => exit = "success"

\* What is settled at each phase of the start-up.
StartInv ==
    /\ phase \in {"start", "harden", "load"} \cup Configured \cup {"exited"}
    /\ phase \in {"load"} \cup Configured => (hardened \/ Given("--allow-core-dumps"))
    /\ phase \in Configured => (warned \/ Protects)
    /\ phase \in {"keys", "resolve"} => Protects
    /\ phase = "resolve" => keysRead
    /\ phase \in {"listen"} \cup Serving => (Protects => mapped /\ keysRead)
    /\ KeysGuarded

\* What is settled about the exit.
ExitInv ==
    /\ outcome \in {"success", "failure"}
    /\ exit = "none" <=> phase # "exited"
    /\ signalled => phase \in {"refresher", "watch", "draining", "exited"}
    /\ phase \in {"refresher", "watch", "draining"} => (outcome = "success" <=> signalled)
    /\ ExitTold

\* Nothing has happened at the start.
LEMMA InitStart == Init => StartInv /\ ExitInv
BY DEF Init, StartInv, ExitInv, KeysGuarded, ExitTold, Configured, Serving

\* The start-up steps settle things in their order.
LEMMA StartupKeeps == ASSUME StartInv, ExitInv, Startup PROVE StartInv' /\ ExitInv'
<1> USE DEF StartInv, ExitInv, KeysGuarded, ExitTold, Configured, Serving,
            startVars, loopVars, Protects, HasConfig, Given, Paths
<1>1. CASE Start
  BY <1>1 DEF Start, Quit
<1>2. CASE Harden
  BY <1>2, Zenon DEF Harden
<1>3. CASE LoadConfig
  BY <1>3, Zenon DEF LoadConfig
<1>4. CASE BuildTls
  BY <1>4 DEF BuildTls
<1>5. CASE ReadKeys
  BY <1>5 DEF ReadKeys
<1>6. CASE ResolveMap
  BY <1>6 DEF ResolveMap
<1>7. CASE Listen
  BY <1>7 DEF Listen
<1>8. CASE StartupFails
  BY <1>8 DEF StartupFails, Quit
<1> QED
  BY <1>1, <1>2, <1>3, <1>4, <1>5, <1>6, <1>7, <1>8, ZenonT(30) DEF Startup

\* A step that leaves the phase, the exit and the start-up's results alone.
LEMMA ProcessStill ==
    ASSUME StartInv, ExitInv, UNCHANGED <<startVars, phase, signalled, exit, outcome>>
    PROVE  StartInv' /\ ExitInv'
BY DEF StartInv, ExitInv, KeysGuarded, ExitTold, Configured, Serving, startVars,
       Protects, HasConfig, Given, Paths

\* The loop and the shutdown undo nothing of it, and carry the outcome to the exit.
LEMMA ServingKeeps ==
    ASSUME StartInv, ExitInv,
           \/ \E c \in Conns : Accept(c) \/ Join(c) \/ SessionEnds(c)
           \/ AcceptFatal \/ AcceptError \/ BackoffOver \/ Signal
           \/ \E h \in Helpers : HelperStops(h)
           \/ Shutdown
    PROVE  StartInv' /\ ExitInv'
<1> USE DEF StartInv, ExitInv, KeysGuarded, ExitTold, Configured, Serving,
            startVars, loopVars, Protects, HasConfig, Given, Paths
<1>1. CASE \E c \in Conns : Accept(c) \/ Join(c) \/ SessionEnds(c)
  BY <1>1, ProcessStill, ZenonT(30) DEF Accept, Join, SessionEnds
<1>2. CASE AcceptFatal
  BY <1>2 DEF AcceptFatal, Leave
<1>3. CASE AcceptError
  BY <1>3 DEF AcceptError, Leave
<1>4. CASE BackoffOver
  BY <1>4 DEF BackoffOver
<1>5. CASE Signal
  BY <1>5 DEF Signal, Leave
<1>6. CASE \E h \in Helpers : HelperStops(h)
  BY <1>6, ProcessStill, ZenonT(30) DEF HelperStops
<1>7. CASE HelperAwaited("refresher", "watch") \/ HelperAwaited("watch", "draining")
  BY <1>7 DEF HelperAwaited, Wait
<1>8. CASE Drained
  BY <1>8 DEF Drained
<1>9. CASE Abort
  BY <1>9 DEF Abort
<1>10. CASE Tick
  BY <1>10, ProcessStill, Zenon DEF Tick
<1> QED
  BY <1>1, <1>2, <1>3, <1>4, <1>5, <1>6, <1>7, <1>8, <1>9, <1>10, ZenonT(30) DEF Shutdown

\* Every step keeps both.
LEMMA NextStart == StartInv /\ ExitInv /\ [Next]_vars => StartInv' /\ ExitInv'
BY StartupKeeps, ServingKeeps, ProcessStill DEF Next, vars

\* Keys are read by a hardened process only, and clients are never served in the
\* clear without a warning.
THEOREM StartupTheorem == Spec => [](KeysGuarded /\ NeverSilentlyPlain)
<1>1. StartInv => KeysGuarded /\ NeverSilentlyPlain
  BY DEF StartInv, NeverSilentlyPlain, Configured
<1> QED
  BY InitStart, NextStart, <1>1, PTL DEF Spec

\* The exit status tells whether the process was asked to stop.
THEOREM ExitTheorem == Spec => []ExitTold
<1>1. ExitInv => ExitTold
  BY DEF ExitInv
<1> QED
  BY InitStart, NextStart, <1>1, PTL DEF Spec

-----------------------------------------------------------------------------
(* The keyfile *)

\* The source everybody who loads a finished file gets.
SourceOf(f) == [is |-> "loaded", active |-> f.by, keys |-> {f.by}]

\* The file has one author, who alone writes it; only what is complete is loaded.
KeyfileInv ==
    /\ file \in {NoFile} \cup [by : Generators, chunks : 0..Chunks]
    /\ at \in [Generators -> {"draw", "open", "write", "done", "failed"}]
    /\ \A g \in Generators : at[g] = "write" =>
           file # NoFile /\ file.by = g /\ file.chunks < Chunks
    /\ \A l \in Loaders :
           \/ source[l] \in {[is |-> "absent"], [is |-> "refused"]}
           \/ file # NoFile /\ file.chunks = Chunks /\ source[l] = SourceOf(file)
    /\ DOMAIN source = Loaders

\* A key that is wholly on disk stays there: no generator that comes later, fails
\* or stops changes the file any more (create_new in FileKeySource::generate).
KeyPersists ==
    [][(file # NoFile /\ file.chunks = Chunks) => UNCHANGED file]_keyfileVars

\* There is no file and no source at the start.
LEMMA InitKeyfile == KeyfileInit => KeyfileInv
BY KeyfileAssumption DEF KeyfileInit, KeyfileInv

\* Whoever finds no file creates it and is its author; anybody else fails.
LEMMA OpenKeeps == ASSUME KeyfileInv, NEW g \in Generators, Open(g) PROVE KeyfileInv'
<1>1. CASE file = NoFile
  <2>1. file' = [by |-> g, chunks |-> 0] /\ at' = [at EXCEPT ![g] = "write"]
        /\ source' = source
    BY <1>1 DEF Open
  <2>2. file' \in [by : Generators, chunks : 0..Chunks] /\ file' # NoFile
    BY <2>1, KeyfileAssumption DEF Chunks
  <2>3. \A h \in Generators : at'[h] = "write" => h = g
    BY <1>1, <2>1 DEF KeyfileInv
  <2>4. \A l \in Loaders : source[l] \in {[is |-> "absent"], [is |-> "refused"]}
    BY <1>1 DEF KeyfileInv
  <2> QED
    BY <2>1, <2>2, <2>3, <2>4 DEF KeyfileInv, Chunks
<1>2. CASE file # NoFile
  BY <1>2 DEF KeyfileInv, Open
<1> QED
  BY <1>1, <1>2

\* Only the author writes, and only while the file is incomplete, so no source
\* was loaded from it yet.
LEMMA WriteChunkKeeps ==
    ASSUME KeyfileInv, NEW g \in Generators, WriteChunk(g) PROVE KeyfileInv'
<1>1. file # NoFile /\ file.by = g /\ file.chunks \in 0..3
      /\ file' = [by |-> g, chunks |-> file.chunks + 1] /\ source' = source
  BY DEF KeyfileInv, WriteChunk, Chunks
<1>2. file' \in [by : Generators, chunks : 0..Chunks] /\ file' # NoFile
  BY <1>1, KeyfileAssumption DEF Chunks
<1>3. \A h \in Generators : at[h] = "write" => h = g
  BY <1>1 DEF KeyfileInv
<1>4. /\ at' \in [Generators -> {"draw", "open", "write", "done", "failed"}]
      /\ \A h \in Generators : at'[h] = "write" => h = g /\ file.chunks + 1 # 4
  BY <1>3 DEF KeyfileInv, WriteChunk, Chunks
<1>5. \A l \in Loaders : source[l] \in {[is |-> "absent"], [is |-> "refused"]}
  BY <1>1 DEF KeyfileInv, Chunks
<1>6. \A h \in Generators : at'[h] = "write" =>
          file' # NoFile /\ file'.by = h /\ file'.chunks < Chunks
  BY <1>1, <1>2, <1>4 DEF Chunks
<1> QED
  BY <1>1, <1>2, <1>4, <1>5, <1>6 DEF KeyfileInv

\* A generator that draws or stops does not touch the file.
LEMMA OthersKeepKeyfile ==
    ASSUME KeyfileInv, NEW g \in Generators, Draw(g) \/ Stop(g) PROVE KeyfileInv'
BY DEF KeyfileInv, Draw, Stop

\* A load of a complete file finds its one key; any other load is refused.
LEMMA LoadKeeps == ASSUME KeyfileInv, NEW l \in Loaders, Load(l) PROVE KeyfileInv'
<1> DEFINE refused == file = NoFile \/ ~WholeToml(file.chunks) \/ file.by \notin KeysIn(file)
<1>1. CASE refused
  BY <1>1 DEF KeyfileInv, Load
<1>2. CASE ~refused
  <2>1. file.chunks = Chunks
    BY <1>2 DEF KeysIn
  <2>2. source' = [source EXCEPT ![l] = SourceOf(file)]
    BY <1>2, <2>1, Zenon DEF Load, KeysIn, SourceOf
  <2> QED
    BY <1>2, <2>1, <2>2 DEF KeyfileInv, Load
<1> QED
  BY <1>1, <1>2

\* Every step keeps the invariant.
LEMMA NextKeyfile == KeyfileInv /\ [KeyfileNext]_keyfileVars => KeyfileInv'
<1>1. KeyfileInv /\ UNCHANGED keyfileVars => KeyfileInv'
  BY DEF KeyfileInv, keyfileVars
<1> QED
  BY <1>1, OpenKeeps, WriteChunkKeeps, OthersKeepKeyfile, LoadKeeps DEF KeyfileNext

\* The sources loaded from one path hold one master key and find it, whatever
\* calls of generate and load overlap and wherever they stop.
THEOREM OneMasterKeyTheorem == KeyfileSpec => []OneMasterKey
<1>1. KeyfileInv => OneMasterKey
  <2> SUFFICES ASSUME KeyfileInv PROVE OneMasterKey
    OBVIOUS
  <2>1. \A l \in Loaded : source[l] = SourceOf(file)
    BY DEF KeyfileInv, Loaded
  <2> QED
    BY <2>1 DEF OneMasterKey, SourceOf, Loaded
<1> QED
  BY InitKeyfile, NextKeyfile, <1>1, PTL DEF KeyfileSpec

\* A complete keyfile is never changed again.
THEOREM KeyPersistsTheorem == KeyfileSpec => KeyPersists
<1>1. KeyfileInv /\ [KeyfileNext]_keyfileVars =>
          [(file # NoFile /\ file.chunks = Chunks) => UNCHANGED file]_keyfileVars
  <2> SUFFICES ASSUME KeyfileInv, KeyfileNext, file # NoFile, file.chunks = Chunks
               PROVE  UNCHANGED file
    BY DEF keyfileVars
  <2>1. \A g \in Generators : at[g] # "write"
    BY DEF KeyfileInv, Chunks
  <2> QED
    BY <2>1 DEF KeyfileNext, Draw, Open, WriteChunk, Stop, Load
<1> QED
  BY InitKeyfile, NextKeyfile, <1>1, PTL DEF KeyfileSpec, KeyPersists

=============================================================================
