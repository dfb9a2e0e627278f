---------------------------- MODULE DekLifetime ----------------------------
(***************************************************************************)
(* What the cipher cache of crates/core/src/envelope.rs promises of the    *)
(* data keys a process seals under: keys are taken up in the order the     *)
(* key source offers them and never taken up again, and no key seals more  *)
(* values than its budget, whoever still holds it when it is replaced.     *)
(***************************************************************************)
EXTENDS Naturals

CONSTANTS
    Keys,           \* the keys the source may offer, numbered in that order
    Budget,         \* the encryptions one key is good for
    NoKey           \* before the first seal

VARIABLES
    current,        \* the key new values are sealed under, or NoKey
    sealed          \* the values sealed so far under each key

lifetimeVars == <<current, sealed>>

LifetimeInit ==
    /\ current = NoKey
    /\ sealed = [k \in Keys |-> 0]

TakeUp(k) ==
    /\ current = NoKey \/ k > current
    /\ current' = k
    /\ UNCHANGED sealed

\* A seal that started under an earlier key may still finish under it.
SealUnder(k) ==
    /\ current # NoKey
    /\ k <= current
    /\ sealed[k] < Budget
    /\ sealed' = [sealed EXCEPT ![k] = @ + 1]
    /\ UNCHANGED current

LifetimeNext == \E k \in Keys : TakeUp(k) \/ SealUnder(k)

LifetimeSpec == LifetimeInit /\ [][LifetimeNext]_lifetimeVars

=============================================================================
