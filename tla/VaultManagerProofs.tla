------------------------- MODULE VaultManagerProofs -------------------------
(***************************************************************************)
(* The theorems about VaultManager, for any finite sets of goroutines and  *)
(* users and any vaults and keys, from the steps of VaultManagerFacts: one *)
(* instance per vault, and no instance closed under a lease.               *)
(***************************************************************************)
EXTENDS VaultManagerFacts, FiniteSetTheorems

\* The goroutines are finite in number, so every set of them can be counted.
LEMMA ProcsCountable == ProcsCount
<1> SUFFICES ASSUME NEW S \in SUBSET Procs
             PROVE  /\ Cardinality(S) \in Nat
                    /\ Cardinality(S) = 0 <=> S = {}
                    /\ \A p \in Procs \ S : Cardinality(S \cup {p}) = Cardinality(S) + 1
                    /\ \A p \in S : Cardinality(S \ {p}) = Cardinality(S) - 1
  BY DEF ProcsCount
<1>1. IsFiniteSet(S)
  BY ProcsAssumption, FS_Subset
<1>2. Cardinality(S) \in Nat /\ (Cardinality(S) = 0 <=> S = {})
  BY <1>1, FS_CardinalityType, FS_EmptySet
<1>3. \A p \in Procs \ S : Cardinality(S \cup {p}) = Cardinality(S) + 1
  BY <1>1, FS_AddElement
<1>4. \A p \in S : Cardinality(S \ {p}) = Cardinality(S) - 1
  BY <1>1, FS_RemoveElement
<1>5. QED
  BY <1>2, <1>3, <1>4

\* A set that a function maps onto another is no smaller.
LEMMA ImageCount ==
    ASSUME NEW S, IsFiniteSet(S), NEW T, NEW f \in [S -> T], \A y \in T : \E x \in S : f[x] = y
    PROVE  IsFiniteSet(T) /\ Cardinality(T) <= Cardinality(S)
<1>1. f \in Surjection(S, T)
  BY DEF Surjection
<1>2. QED
  BY <1>1, FS_Surjection

\* There is always a new entry to be had: as long as the manager is not closing, a
\* goroutine refers to one entry, and every entry in use belongs to a user.
LEMMA EntryIsLeft ==
    ASSUME IInv
    PROVE  EntryLeft
<1> SUFFICES ASSUME NEW u \in Users, entries[u] = 0, ~closing
             PROVE  FreeEntry \in EntryIds /\ ent[FreeEntry].state = "gone"
  BY DEF EntryLeft
<1> DEFINE held == {proc[p].e : p \in Procs}
           used == {entries[w] : w \in Users \ {u}}
<1>1. SUFFICES ASSUME \A e \in EntryIds : Live(e) \/ e \in Referenced
               PROVE  FALSE
  BY DEF FreeEntry, Live
<1>2. Referenced \subseteq held
  BY DEF IInv, CallOK, Referenced
<1>3. \A e \in EntryIds : Live(e) => e \in used
  <2>1. 0 \notin EntryIds
    BY ProcsAssumption, FS_CardinalityType DEF EntryIds
  <2>2. QED
    BY <2>1 DEF IInv, TablesOK
<1>4. EntryIds \subseteq held \cup used
  BY <1>1, <1>2, <1>3
<1>5. /\ Cardinality(Procs) \in Nat /\ Cardinality(Users) \in Nat
      /\ IsFiniteSet(Users \ {u}) /\ Cardinality(Users \ {u}) = Cardinality(Users) - 1
  BY ProcsAssumption, FS_CardinalityType, FS_RemoveElement
<1>6. IsFiniteSet(held) /\ Cardinality(held) <= Cardinality(Procs)
  <2>1. [p \in Procs |-> proc[p].e] \in [Procs -> held]
    OBVIOUS
  <2>2. QED
    BY <2>1, ProcsAssumption, ImageCount, Zenon
<1>7. IsFiniteSet(used) /\ Cardinality(used) <= Cardinality(Users) - 1
  <2>1. [w \in Users \ {u} |-> entries[w]] \in [Users \ {u} -> used]
    OBVIOUS
  <2>2. IsFiniteSet(used) /\ Cardinality(used) <= Cardinality(Users \ {u})
    BY <1>5, <2>1, ImageCount, Zenon
  <2>3. QED
    BY <1>5, <2>2
<1> HIDE DEF held, used
<1>8. /\ IsFiniteSet(held \cup used)
      /\ Cardinality(held \cup used) <= Cardinality(held) + Cardinality(used)
  <2>1. Cardinality(held \cap used) \in Nat /\ Cardinality(held) \in Nat /\ Cardinality(used) \in Nat
    BY <1>6, <1>7, FS_CardinalityType, FS_Intersection, Zenon
  <2>2. IsFiniteSet(held \cup used)
        /\ Cardinality(held \cup used) = Cardinality(held) + Cardinality(used) - Cardinality(held \cap used)
    BY <1>6, <1>7, FS_Union
  <2>3. QED
    BY <2>1, <2>2
<1>9. Cardinality(EntryIds) = Cardinality(Procs) + Cardinality(Users)
  BY <1>5, FS_Interval DEF EntryIds
<1>10. Cardinality(EntryIds) <= Cardinality(held \cup used)
  BY <1>4, <1>8, FS_Subset
<1>11. Cardinality(held) \in Nat /\ Cardinality(used) \in Nat /\ Cardinality(held \cup used) \in Nat
  BY <1>6, <1>7, <1>8, FS_CardinalityType
<1>12. QED
  BY <1>5, <1>6, <1>7, <1>8, <1>9, <1>10, <1>11

\* The invariant holds initially.
LEMMA InitialIInv == Init => IInv
BY ProcsCountable, InitIInv

\* Every step keeps the invariant.
LEMMA NextIInv == IInv /\ [Next]_vars => IInv'
BY ProcsCountable, EntryIsLeft, StepKeeps

-----------------------------------------------------------------------------
(* Results *)

\* A live entry is the one its vault and its user are mapped to, so there is no second one.
LEMMA OneInstance == IInv => OneInstancePerVault
BY DEF IInv, TablesOK, Live, OneInstancePerVault

\* A lease keeps its entry open, hence live, hence mapped, and a restore has it alone.
LEMMA LeaseKeeps == IInv => LeaseKeepsInstance
<1> SUFFICES ASSUME IInv, NEW p \in Procs
             PROVE  /\ proc[p].pc \in Leased => ent[proc[p].e].state = "open" /\ Mapped(proc[p].e)
                    /\ proc[p].pc = "restoring" => Held(proc, proc[p].e) = {p}
  BY Zenon DEF LeaseKeepsInstance, Leased, Holders, Held
<1>1. ASSUME proc[p].pc \in Leased
      PROVE  ent[proc[p].e].state = "open" /\ Mapped(proc[p].e)
  <2>1. proc[p].pc \notin {"idle", "acquire"}
    BY <1>1 DEF Leased
  <2>2. proc[p].e \in EntryIds /\ ent[proc[p].e].state = "open"
    BY <1>1, <2>1, Zenon DEF IInv, CallOK, LeasesOK
  <2>3. QED
    BY <2>2 DEF IInv, TablesOK, Live, Mapped
<1>2. QED
  BY <1>1, Zenon DEF IInv, LeasesOK

\* Every variable of the manager keeps its type: no reference count goes below zero.
THEOREM TypeCorrect == Spec => []TypeOK
<1>1. IInv => TypeOK
  BY DEF IInv
<1>2. QED
  BY <1>1, InitialIInv, NextIInv, PTL DEF Spec

\* From the reservation in Acquire until Close has returned, a vault and a user have at
\* most one entry, however logins, drains, restores and the shutdown interleave.
THEOREM OneInstanceAlways == Spec => []OneInstancePerVault
BY InitialIInv, NextIInv, OneInstance, PTL DEF Spec

\* No instance is closed under a session, a request or a restore, and a restore runs alone.
THEOREM LeaseAlwaysKeepsInstance == Spec => []LeaseKeepsInstance
BY InitialIInv, NextIInv, LeaseKeeps, PTL DEF Spec
=============================================================================
