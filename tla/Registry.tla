------------------------------ MODULE Registry ------------------------------
(***************************************************************************)
(* agents/onchain-registry/sources/Registry.move: a shared vector of public*)
(* keys. A key is removed by its index, which an administrator read before *)
(* sending the transaction; other transactions may come between.           *)
(***************************************************************************)
EXTENDS Integers, Sequences, SequencesExt

CONSTANTS
  Administrators,    \* holders of a capability
  MaxAdditions       \* bound: keys ever added

ASSUME RegistryConstantsAssumption == MaxAdditions \in Nat

VARIABLES
  pubkeys,           \* the entries, each known by the number of its addition
  total_keys,
  prepared,          \* per administrator, a signed call of remove_key: its index,
                     \* or 0 if there is none, and the entry it is meant for
  additions          \* history: entries ever added

registryVars == <<pubkeys, total_keys, prepared, additions>>

NoRemoval == [index |-> 0, meant |-> 0]

RegistryInit ==
  /\ pubkeys = <<>>
  /\ total_keys = 0
  /\ prepared = [a \in Administrators |-> NoRemoval]
  /\ additions = 0

-----------------------------------------------------------------------------
add_key ==
  /\ additions < MaxAdditions
  /\ additions' = additions + 1
  /\ pubkeys' = Append(pubkeys, additions')
  /\ total_keys' = total_keys + 1
  /\ UNCHANGED prepared

\* An administrator looks the index of an entry up and signs the removal.
PrepareRemoval(a, i) ==
  /\ prepared[a] = NoRemoval
  /\ prepared' = [prepared EXCEPT ![a] = [index |-> i, meant |-> pubkeys[i]]]
  /\ UNCHANGED <<pubkeys, total_keys, additions>>

\* Mutant: vector::swap_remove, which puts the last entry in the gap.
SwapRemoved(i) ==
  SubSeq([pubkeys EXCEPT ![i] = pubkeys[Len(pubkeys)]], 1, Len(pubkeys) - 1)
Removed(i) == RemoveAt(pubkeys, i)

remove_key(a) ==
  /\ prepared[a].index \in DOMAIN pubkeys
  /\ pubkeys' = Removed(prepared[a].index)
  /\ total_keys' = total_keys - 1
  /\ prepared' = [prepared EXCEPT ![a] = NoRemoval]
  /\ UNCHANGED additions

\* The index is beyond the vector: the transaction aborts.
RemovalAborts(a) ==
  /\ prepared[a].index > Len(pubkeys)
  /\ prepared' = [prepared EXCEPT ![a] = NoRemoval]
  /\ UNCHANGED <<pubkeys, total_keys, additions>>

RegistryNext ==
  \/ add_key
  \/ \E a \in Administrators, i \in DOMAIN pubkeys : PrepareRemoval(a, i)
  \/ \E a \in Administrators : remove_key(a) \/ RemovalAborts(a)

RegistrySpec == RegistryInit /\ [][RegistryNext]_registryVars

-----------------------------------------------------------------------------
RegistryTypeOK ==
  /\ pubkeys \in Seq(1 .. MaxAdditions)
  /\ total_keys = Len(pubkeys)
  /\ prepared \in [Administrators -> [index : 0 .. MaxAdditions, meant : 0 .. MaxAdditions]]
  /\ additions \in 0 .. MaxAdditions

\* A removal that was overtaken by others may hit an entry it was not meant
\* for (nothing compares the key). It is then one that was added later: an entry
\* older than the one the removal was meant for is never lost to it.
OvertakenRemovalHitsYounger ==
  \A a \in Administrators :
    prepared[a].index \in DOMAIN pubkeys => pubkeys[prepared[a].index] >= prepared[a].meant

=============================================================================
