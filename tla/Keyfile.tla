------------------------------- MODULE Keyfile -------------------------------
(***************************************************************************)
(* The file key source (FileKeySource, crates/core/src/keys.rs): processes *)
(* that generate one keyfile, any of which may stop at any point, and      *)
(* processes that load it meanwhile.                                       *)
(*                                                                         *)
(* The file is written in chunks: the active id, the [keys] heading, the   *)
(* start of the key's line, and its end.                                   *)
(***************************************************************************)
EXTENDS Naturals, FiniteSets

CONSTANTS
    Generators,     \* processes that run generate; each draws its own id and key
    Loaders,        \* processes that load the file
    NoFile          \* no such file

Chunks == 4

\* There being no file is no file.
ASSUME KeyfileAssumption == NoFile \notin [by : Generators, chunks : 0..Chunks]

VARIABLES
    file,           \* NoFile, or who wrote it and how many chunks are there
    at,             \* where a generator is
    source          \* what a loader holds: nothing yet, a source, or it was refused

keyfileVars == <<file, at, source>>

KeyfileInit ==
    /\ file = NoFile
    /\ at = [g \in Generators |-> "draw"]
    /\ source = [l \in Loaders |-> [is |-> "absent"]]

\* Mutant of Open: the file is truncated instead.
OpenTruncating(g) ==
    /\ at[g] = "open"
    /\ file' = [by |-> g, chunks |-> 0]
    /\ at' = [at EXCEPT ![g] = "write"]
    /\ UNCHANGED source

\* create_new: an existing file is an error.
Open(g) ==
    /\ at[g] = "open"
    /\ IF file = NoFile
       THEN /\ file' = [by |-> g, chunks |-> 0]
            /\ at' = [at EXCEPT ![g] = "write"]
       ELSE /\ at' = [at EXCEPT ![g] = "failed"]
            /\ UNCHANGED file
    /\ UNCHANGED source

\* The entropy source may refuse.
Draw(g) ==
    /\ at[g] = "draw"
    /\ \E next \in {"open", "failed"} : at' = [at EXCEPT ![g] = next]
    /\ UNCHANGED <<file, source>>

\* write_all, one chunk on.
WriteChunk(g) ==
    /\ at[g] = "write"
    /\ file' = [by |-> g, chunks |-> file.chunks + 1]
    /\ at' = [at EXCEPT ![g] = IF file.chunks + 1 = Chunks THEN "done" ELSE "write"]
    /\ UNCHANGED source

\* A write that fails, or the end of the process.
Stop(g) ==
    /\ at[g] \in {"draw", "open", "write"}
    /\ at' = [at EXCEPT ![g] = "failed"]
    /\ UNCHANGED <<file, source>>

\* The [keys] table there is in so many chunks; None of it parses before the
\* heading, or while the key's line is open.
WholeToml(chunks) == chunks \in {2, 4}
KeysIn(f) == IF f.chunks = Chunks THEN {f.by} ELSE {}

\* FileKeySource::load: read, parse, decode, and the active id is in [keys].
Load(l) ==
    /\ source[l].is = "absent"
    /\ source' = [source EXCEPT ![l] =
                    IF file = NoFile THEN [is |-> "refused"]
                    ELSE IF ~WholeToml(file.chunks) \/ file.by \notin KeysIn(file)
                    THEN [is |-> "refused"]
                    ELSE [is |-> "loaded", active |-> file.by, keys |-> KeysIn(file)]]
    /\ UNCHANGED <<file, at>>

KeyfileNext ==
    \/ \E g \in Generators : Draw(g) \/ Open(g) \/ WriteChunk(g) \/ Stop(g)
    \/ \E l \in Loaders : Load(l)

KeyfileSpec == KeyfileInit /\ [][KeyfileNext]_keyfileVars

-----------------------------------------------------------------------------
Loaded == {l \in Loaders : source[l].is = "loaded"}

(***************************************************************************)
(* Whatever calls of generate overlap and wherever they stop, the sources  *)
(* loaded from one path hold one master key, and active_key finds it: key  *)
(* material is never overwritten and never half read.                      *)
(***************************************************************************)
OneMasterKey ==
    /\ \A l \in Loaded : source[l].active \in source[l].keys
    /\ \A l, m \in Loaded : source[l] = source[m]

=============================================================================
