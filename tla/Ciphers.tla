------------------------------ MODULE Ciphers ------------------------------
(***************************************************************************)
(* The cipher cache of crates/core/src/envelope.rs: every thread of the    *)
(* process seals under one active data key, each Cipher counts its own     *)
(* encryptions against a budget, and a thread that finds the budget spent  *)
(* asks the key source for another key, once.                              *)
(*                                                                         *)
(* A step ends where another thread may come in between: seal reads the    *)
(* slot under a read lock, calls the key source without a lock, and fills  *)
(* or replaces the slot under the write lock; the counter is one atomic    *)
(* fetch_add.                                                              *)
(*                                                                         *)
(* The key source numbers its keys in the order it offers them.  Both      *)
(* sources of the repository keep offering their first one; a source that  *)
(* rotates offers later ones, never one it had before.                     *)
(***************************************************************************)
EXTENDS Naturals, Sequences

CONSTANTS
    Threads,
    Budget,         \* MAX_ENCRYPTIONS_PER_KEY
    MaxKey,         \* bound on the keys the source offers
    MaxUsed,        \* bound on the encryptions tried under one Cipher
    NoKey           \* no key, no Cipher

Keys == 0..MaxKey

ASSUME CiphersAssumption ==
    /\ Budget \in Nat
    /\ MaxKey \in Nat
    /\ MaxUsed \in Nat
    /\ NoKey \notin Nat

Cipher == [key : Keys, used : Nat]

VARIABLES
    source,         \* the key KeySource::active_key offers
    ciphers,        \* every Cipher built, in order; a handle is its index
    active,         \* Ciphers::active: the handle in the slot, or NoKey
    pc,             \* where each thread is in seal
    handle,         \* the Cipher it holds
    spent,          \* the key it found exhausted
    offered,        \* what the key source answered
    sealed          \* history: the values sealed under each key

cipherVars == <<source, ciphers, active, pc, handle, spent, offered, sealed>>

CiphersInit ==
    /\ source = 0
    /\ ciphers = << >>
    /\ active = NoKey
    /\ pc = [t \in Threads |-> "idle"]
    /\ handle = [t \in Threads |-> NoKey]
    /\ spent = [t \in Threads |-> NoKey]
    /\ offered = [t \in Threads |-> NoKey]
    /\ sealed = [k \in Keys |-> 0]

Move(t, at) == pc' = [pc EXCEPT ![t] = at]
Hold(t, h) == handle' = [handle EXCEPT ![t] = h]
Build(k) == ciphers' = Append(ciphers, [key |-> k, used |-> 0])

\* The source rotates to a key it has not offered before.
Rotate ==
    /\ source < MaxKey
    /\ source' = source + 1
    /\ UNCHANGED <<ciphers, active, pc, handle, spent, offered, sealed>>

\* active(): the slot under the read lock.
ReadSlot(t) ==
    /\ pc[t] = "idle"
    /\ active # NoKey => ciphers[active].used < MaxUsed
    /\ IF active # NoKey
       THEN Hold(t, active) /\ Move(t, "encrypt")
       ELSE UNCHANGED handle /\ Move(t, "resolve")
    /\ UNCHANGED <<source, ciphers, active, spent, offered, sealed>>

\* active(): the slot was empty, and the source is asked.
Resolve(t) ==
    /\ pc[t] = "resolve"
    /\ offered' = [offered EXCEPT ![t] = source]
    /\ Move(t, "insert")
    /\ UNCHANGED <<source, ciphers, active, handle, spent, sealed>>

\* Mutant of Fill: the slot is filled again by a thread that found it empty.
FillOverwriting(t) ==
    /\ pc[t] = "insert"
    /\ Build(offered[t])
    /\ active' = Len(ciphers) + 1
    /\ Hold(t, active')
    /\ Move(t, "encrypt")
    /\ UNCHANGED <<source, spent, offered, sealed>>

\* active(): get_or_insert_with under the write lock.
Fill(t) ==
    /\ pc[t] = "insert"
    /\ IF active = NoKey
       THEN /\ Build(offered[t])
            /\ active' = Len(ciphers) + 1
       ELSE UNCHANGED <<ciphers, active>>
    /\ Hold(t, active')
    /\ Move(t, "encrypt")
    /\ UNCHANGED <<source, spent, offered, sealed>>

Exhausted(h) == ciphers[h].used >= Budget

\* Cipher::encrypt: fetch_add, and the envelope if the budget allowed it.
Charge(h) == ciphers' = [ciphers EXCEPT ![h].used = @ + 1]
Sealed(h) == sealed' = [sealed EXCEPT ![ciphers[h].key] = @ + 1]

Encrypt(t) ==
    LET h == handle[t]
    IN  /\ pc[t] = "encrypt"
        /\ Charge(h)
        /\ \/ /\ ~Exhausted(h)
              /\ Sealed(h)
              /\ Move(t, "idle")
              /\ UNCHANGED spent
           \/ /\ Exhausted(h)
              /\ spent' = [spent EXCEPT ![t] = ciphers[h].key]
              /\ Move(t, "roll")
              /\ UNCHANGED sealed
        /\ UNCHANGED <<source, active, handle, offered>>

\* roll_active: the source is asked; the same key again fails the write.
Roll(t) ==
    /\ pc[t] = "roll"
    /\ offered' = [offered EXCEPT ![t] = source]
    /\ Move(t, IF source = spent[t] THEN "idle" ELSE "install")
    /\ UNCHANGED <<source, ciphers, active, handle, spent, sealed>>

\* roll_active: under the write lock, unless another thread has rolled.
Install(t) ==
    /\ pc[t] = "install"
    /\ IF active # NoKey /\ ciphers[active].key # spent[t]
       THEN UNCHANGED <<ciphers, active>>
       ELSE /\ Build(offered[t])
            /\ active' = Len(ciphers) + 1
    /\ Hold(t, active')
    /\ Move(t, "retry")
    /\ UNCHANGED <<source, spent, offered, sealed>>

\* seal: the second encryption is the last.
Retry(t) ==
    LET h == handle[t]
    IN  /\ pc[t] = "retry"
        /\ Charge(h)
        /\ IF Exhausted(h) THEN UNCHANGED sealed ELSE Sealed(h)
        /\ Move(t, "idle")
        /\ UNCHANGED <<source, active, handle, spent, offered>>

\* The source fails: seal returns its error.
SourceFails(t) ==
    /\ pc[t] \in {"resolve", "roll"}
    /\ Move(t, "idle")
    /\ UNCHANGED <<source, ciphers, active, handle, spent, offered, sealed>>

Seal(t) ==
    \/ ReadSlot(t) \/ Resolve(t) \/ Fill(t) \/ Encrypt(t)
    \/ Roll(t) \/ Install(t) \/ Retry(t) \/ SourceFails(t)

CiphersNext == Rotate \/ \E t \in Threads : Seal(t)

CiphersSpec == CiphersInit /\ [][CiphersNext]_cipherVars

-----------------------------------------------------------------------------

CurrentKey == IF active = NoKey THEN NoKey ELSE ciphers[active].key

\* The types of the cache, of the threads and of the counts kept per key.
TypeOK ==
    /\ source \in Keys
    /\ ciphers \in Seq(Cipher)
    /\ active \in (1..Len(ciphers)) \cup {NoKey}
    /\ pc \in [Threads -> {"idle", "resolve", "insert", "encrypt", "roll", "install", "retry"}]
    /\ handle \in [Threads -> (1..Len(ciphers)) \cup {NoKey}]
    /\ spent \in [Threads -> Keys \cup {NoKey}]
    /\ offered \in [Threads -> Keys \cup {NoKey}]
    /\ sealed \in [Keys -> Nat]

\* No key ever seals more values than its budget, although threads that hold
\* a replaced Cipher keep encrypting under it (MAX_ENCRYPTIONS_PER_KEY).
BudgetKept == \A k \in Keys : sealed[k] <= Budget

\* Every Cipher built has a key of its own, later than those before it: a
\* second Cipher for a key would count its budget again from zero.  It is what
\* the re-check under roll_active's write lock is for.
OneCipherPerKey ==
    \A i, j \in 1..Len(ciphers) : i < j => ciphers[i].key < ciphers[j].key

\* A thread rolls only away from a key whose whole budget was sealed: no race
\* wastes a key, and a write that fails closed fails because a key is spent.
RollsOnlySpent ==
    \A t \in Threads : pc[t] \in {"roll", "install"} => sealed[spent[t]] = Budget

\* The cache implements the promise of DekLifetime: keys are taken up in the
\* order offered, and each is within its budget at every step.
Lifetime == INSTANCE DekLifetime WITH current <- CurrentKey
ImplementsLifetime == Lifetime!LifetimeSpec

=============================================================================
