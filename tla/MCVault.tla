------------------------------ MODULE MCVault ------------------------------
(***************************************************************************)
(* The parts of the Vault key source, and the cipher cache above it, share *)
(* no state, so a behaviour of one part is checked with the others         *)
(* standing still.                                                         *)
(***************************************************************************)
EXTENDS IndexKeys, Deks, TokenWatch, Ciphers, TLC

CONSTANTS c1, c2, c3, p1, p2, r1, r2, d1, d2

MCHome == c1 :> p1 @@ c2 :> p1 @@ c3 :> p2
MCRunOf == d1 :> r2 @@ d2 :> r2

\* Drawn keys, lost ids and the two reading threads are interchangeable.
Interchangeable == Permutations(Fresh) \cup Permutations(Lost) \cup Permutations({d1, d2})

VARIABLE part

Init ==
    /\ IndexInit /\ DeksInit /\ TokenInit /\ CiphersInit
    /\ part \in {"index", "deks", "token", "ciphers"}
    /\ part # "index" => legacy = None
    /\ part # "token" => renewable

Next ==
    \/ part = "index" /\ IndexNext /\ UNCHANGED <<part, dekVars, tokenVars, cipherVars>>
    \/ part = "deks" /\ DeksNext /\ UNCHANGED <<part, indexVars, tokenVars, cipherVars>>
    \/ part = "token" /\ TokenNext /\ UNCHANGED <<part, indexVars, dekVars, cipherVars>>
    \/ part = "ciphers" /\ CiphersNext /\ UNCHANGED <<part, indexVars, dekVars, tokenVars>>

Spec == Init /\ [][Next]_<<part, indexVars, dekVars, tokenVars, cipherVars>>

=============================================================================
