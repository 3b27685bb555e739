------------------------- MODULE VaultManagerFacts --------------------------
(***************************************************************************)
(* The invariant of the proofs about VaultManager and the steps that keep  *)
(* it: it ties the two tables to the entries, and the counts of references *)
(* to the goroutines that hold them.                                       *)
(***************************************************************************)
EXTENDS VaultManager, TLAPS

Leased == {"lease", "restore", "restoring"}
Live(e) == ent[e].state # "gone"
Held(pr, e) == {p \in Procs : pr[p].e = e /\ pr[p].pc \in Leased}
Roots(pr, e) == {p \in Held(pr, e) : pr[p].root}

\* The tables and the entries that are not gone name each other.
TablesOK ==
    /\ \A u \in Users : entries[u] # 0 => Live(entries[u]) /\ ent[entries[u]].user = u
    /\ \A v \in Vaults : byVault[v] # 0 => Live(byVault[v]) /\ ent[byVault[v]].vault = v
    /\ \A e \in EntryIds : Live(e) => /\ ent[e].user \in Users /\ entries[ent[e].user] = e
                                      /\ ent[e].vault \in Vaults /\ byVault[ent[e].vault] = e
    /\ \A e \in EntryIds : ~Live(e) => ent[e] = Gone

\* References are counted.
CountsOK ==
    \A e \in EntryIds : ent[e].refs = Cardinality(Held(proc, e)) /\ ent[e].roots = Cardinality(Roots(proc, e))

\* What a lease has: an open instance; a restore an entry that takes no more leases.
LeasesOK ==
    /\ \A p \in Procs : proc[p].pc \in Leased => ent[proc[p].e].state = "open"
    /\ \A p \in Procs : proc[p].pc \in {"restore", "restoring"} =>
                            ent[proc[p].e].draining /\ ~ent[proc[p].e].auto
    /\ \A p \in Procs : proc[p].pc = "restoring" => Held(proc, proc[p].e) = {p}
    /\ \A e \in EntryIds : ent[e].auto => ent[e].draining

\* An entry has one opener and one closer.
OwnersOK ==
    /\ \A p \in Procs : proc[p].pc \in {"opening", "closing"} => ent[proc[p].e].state = proc[p].pc
    /\ \A p, q \in Procs :
          proc[p].pc \in {"opening", "closing"} /\ proc[q].pc = proc[p].pc /\ proc[q].e = proc[p].e => p = q

\* What a call has in hand; only the shutdown has several entries to close.
CallOK(c, shut) ==
    /\ c.pc \notin {"idle", "acquire"} => c.e \in EntryIds
    /\ c.pc \in {"acquire", "waitRetired"} => c.user \in Users /\ c.vault \in Vaults /\ c.key \in Keys
    /\ c.pc \in Leased \cup {"idle", "acquire", "waitRetired", "waitReady", "opening"} => c.todo = {}
    /\ ~shut => c.todo \subseteq {c.e}

IInv == TypeOK /\ TablesOK /\ CountsOK /\ LeasesOK /\ OwnersOK /\ \A p \in Procs : CallOK(proc[p], closing)

-----------------------------------------------------------------------------
(* Counting *)

\* Sets of goroutines can be counted.  VaultManagerProofs shows it: here it is a
\* hypothesis, so that these proofs do without the theory of finite sets.
ProcsCount ==
    \A S \in SUBSET Procs :
        /\ Cardinality(S) \in Nat
        /\ Cardinality(S) = 0 <=> S = {}
        /\ \A p \in Procs \ S : Cardinality(S \cup {p}) = Cardinality(S) + 1
        /\ \A p \in S : Cardinality(S \ {p}) = Cardinality(S) - 1

\* There is always a new entry to be had.  VaultManagerProofs shows that too.
EntryLeft ==
    \A u \in Users : entries[u] = 0 /\ ~closing => FreeEntry \in EntryIds /\ ent[FreeEntry].state = "gone"

\* The count of one set of goroutines.
LEMMA Counting ==
    ASSUME ProcsCount, NEW S \in SUBSET Procs
    PROVE  /\ Cardinality(S) \in Nat
           /\ Cardinality(S) = 0 <=> S = {}
           /\ \A p \in Procs \ S : Cardinality(S \cup {p}) = Cardinality(S) + 1
           /\ \A p \in S : Cardinality(S \ {p}) = Cardinality(S) - 1
BY DEF ProcsCount

\* A set of at most one holder is that holder's.
LEMMA Sole ==
    ASSUME ProcsCount, NEW S \in SUBSET Procs, Cardinality(S) <= 1, NEW p \in S
    PROVE  S = {p}
<1>1. S \ {p} \in SUBSET Procs /\ Cardinality(S \ {p}) = Cardinality(S) - 1 /\ Cardinality(S) \in Nat
  BY Counting
<1>2. Cardinality(S \ {p}) \in Nat
  BY <1>1, Counting
<1>3. Cardinality(S \ {p}) = 0
  BY <1>1, <1>2
<1>4. S \ {p} = {}
  BY <1>1, <1>3, Counting
<1>5. QED
  BY <1>4

-----------------------------------------------------------------------------
(* Steps *)

\* A call that holds no lease and owns no entry.
Quiet(c) == c.pc \notin Leased \cup {"opening", "closing"}

\* What another goroutine's step does to a call: a waiter may see the entry idle, and a
\* closer that its retirement was cancelled.
Alike(c, d) ==
    /\ d.e = c.e /\ d.todo = c.todo /\ d.root = c.root
    /\ d.user = c.user /\ d.vault = c.vault /\ d.key = c.key
    /\ d.pc = c.pc \/ (c.pc = "waitIdle" /\ d.pc = "idled")

\* A call that is seen stays well formed.
LEMMA AlikeOK ==
    ASSUME NEW c, NEW d, NEW shut, CallOK(c, shut), Alike(c, d)
    PROVE  CallOK(d, shut)
<1>1. CASE d.pc = c.pc
  BY <1>1 DEF CallOK, Alike
<1>2. CASE c.pc = "waitIdle" /\ d.pc = "idled"
  BY <1>2 DEF CallOK, Alike, Leased
<1>3. QED
  BY <1>1, <1>2 DEF Alike

\* Who holds e after a step in which every goroutine but p only sees it.
LEMMA HeldAfter ==
    ASSUME NEW p \in Procs, \A q \in Procs \ {p} : Alike(proc[q], proc'[q]), NEW e
    PROVE  /\ Held(proc', e) \ {p} = Held(proc, e) \ {p}
           /\ Roots(proc', e) \ {p} = Roots(proc, e) \ {p}
           /\ p \in Held(proc', e) <=> proc'[p].e = e /\ proc'[p].pc \in Leased
           /\ p \in Held(proc, e) <=> proc[p].e = e /\ proc[p].pc \in Leased
           /\ p \in Roots(proc', e) <=> proc'[p].e = e /\ proc'[p].pc \in Leased /\ proc'[p].root
           /\ p \in Roots(proc, e) <=> proc[p].e = e /\ proc[p].pc \in Leased /\ proc[p].root
BY DEF Held, Roots, Alike, Leased

\* Sets that differ at most in p, which is in both or in neither, are the same.
LEMMA SameBut ==
    ASSUME NEW S, NEW T, NEW p, S \ {p} = T \ {p}, p \in S <=> p \in T
    PROVE  S = T
OBVIOUS

\* A step of p in which its call is quiet before and after, and nothing else changes.
LEMMA QuietStep ==
    ASSUME IInv, NEW p \in Procs, NEW c \in Call, Quiet(proc[p]), Quiet(c), CallOK(c, closing),
           proc' = [proc EXCEPT ![p] = c], UNCHANGED <<entries, byVault, ent, closing>>
    PROVE  IInv'
<1>1. proc' \in [Procs -> Call] /\ proc'[p] = c /\ \A q \in Procs \ {p} : proc'[q] = proc[q]
  BY DEF IInv, TypeOK
<1>2. \A e : Held(proc', e) = Held(proc, e) /\ Roots(proc', e) = Roots(proc, e)
  BY <1>1 DEF Held, Roots, Quiet, Leased
<1>3. TypeOK'
  BY <1>1 DEF IInv, TypeOK
<1>4. TablesOK'
  BY DEF IInv, TablesOK, Live
<1>5. CountsOK'
  BY <1>2, Zenon DEF IInv, CountsOK
<1>6. LeasesOK'
  BY <1>1, <1>2, Zenon DEF IInv, LeasesOK, Quiet, Leased
<1>7. OwnersOK'
  BY <1>1 DEF IInv, OwnersOK, Quiet
<1>8. \A q \in Procs : CallOK(proc'[q], closing')
  BY <1>1 DEF IInv
<1>9. QED
  BY <1>3, <1>4, <1>5, <1>6, <1>7, <1>8 DEF IInv

\* The entry of a step that changes one of them keeps its user and its vault.
SameEntry(e) ==
    /\ ent' \in [EntryIds -> Entry] /\ \A f \in EntryIds \ {e} : ent'[f] = ent[f]
    /\ ent'[e].user = ent[e].user /\ ent'[e].vault = ent[e].vault

\* Such a step keeps the tables, if the entry stays in use.
LEMMA SameTables ==
    ASSUME IInv, NEW e \in EntryIds, Live(e), SameEntry(e), ent'[e].state # "gone", UNCHANGED <<entries, byVault>>
    PROVE  TablesOK'
BY DEF IInv, TablesOK, TypeOK, Live, SameEntry

\* p takes a lease on e, which is open or which p has just opened.
LEMMA GainStep ==
    ASSUME ProcsCount, IInv, NEW p \in Procs, NEW e \in EntryIds,
           proc' \in [Procs -> Call], \A q \in Procs \ {p} : Alike(proc[q], proc'[q]),
           proc[p].pc \notin Leased \cup {"closing"},
           IF proc[p].pc = "opening" THEN proc[p].e = e ELSE ent[e].state = "open",
           proc'[p].e = e, proc'[p].pc \in {"lease", "restore"}, CallOK(proc'[p], closing),
           ent[e].draining => ent[e].auto,
           SameEntry(e), ent'[e].state = "open", ent'[e].refs = ent[e].refs + 1,
           ent'[e].roots = IF proc'[p].root THEN ent[e].roots + 1 ELSE ent[e].roots,
           ent'[e].auto => ent'[e].draining,
           proc'[p].pc = "restore" => ent'[e].draining /\ ~ent'[e].auto,
           UNCHANGED <<entries, byVault, closing>>
    PROVE  IInv'
<1>1. /\ Held(proc', e) = Held(proc, e) \cup {p} /\ p \in Procs \ Held(proc, e)
      /\ Roots(proc', e) = (IF proc'[p].root THEN Roots(proc, e) \cup {p} ELSE Roots(proc, e)) /\ p \in Procs \ Roots(proc, e)
      /\ \A f \in EntryIds \ {e} : Held(proc', f) = Held(proc, f) /\ Roots(proc', f) = Roots(proc, f)
  <2>1. \A f : /\ Held(proc', f) \ {p} = Held(proc, f) \ {p} /\ Roots(proc', f) \ {p} = Roots(proc, f) \ {p}
               /\ p \notin Held(proc, f) /\ p \notin Roots(proc, f)
               /\ p \in Held(proc', f) <=> f = e
               /\ p \in Roots(proc', f) <=> f = e /\ proc'[p].root
    BY HeldAfter DEF Leased
  <2>2. Held(proc', e) = Held(proc, e) \cup {p} /\ p \in Procs \ Held(proc, e) /\ p \in Procs \ Roots(proc, e)
    BY <2>1
  <2>3. Roots(proc', e) = IF proc'[p].root THEN Roots(proc, e) \cup {p} ELSE Roots(proc, e)
    BY <2>1, SMTT(60)
  <2>4. \A f \in EntryIds \ {e} : Held(proc', f) = Held(proc, f) /\ Roots(proc', f) = Roots(proc, f)
    <3> SUFFICES ASSUME NEW f \in EntryIds \ {e}
                 PROVE  Held(proc', f) = Held(proc, f) /\ Roots(proc', f) = Roots(proc, f)
      OBVIOUS
    <3>1. /\ Held(proc', f) \ {p} = Held(proc, f) \ {p} /\ Roots(proc', f) \ {p} = Roots(proc, f) \ {p}
          /\ p \notin Held(proc, f) /\ p \notin Roots(proc, f) /\ p \notin Held(proc', f) /\ p \notin Roots(proc', f)
      BY <2>1
    <3>2. QED
      BY <3>1, SameBut
  <2>5. QED
    BY <2>2, <2>3, <2>4
<1>2. Live(e) /\ ent[e].state \in {"open", "opening"} /\ (ent[e].state = "opening" => proc[p].pc = "opening")
  BY DEF IInv, OwnersOK, Live
<1>3. TypeOK'
  BY DEF IInv, TypeOK, SameEntry
<1>4. TablesOK'
  BY <1>2, SameTables
<1>5. CountsOK'
  <2>1. Held(proc, e) \in SUBSET Procs /\ Roots(proc, e) \in SUBSET Procs
    BY DEF Held, Roots
  <2>2. /\ Cardinality(Held(proc, e) \cup {p}) = Cardinality(Held(proc, e)) + 1
        /\ Cardinality(Roots(proc, e) \cup {p}) = Cardinality(Roots(proc, e)) + 1
    BY <1>1, <2>1, Counting
  <2>3. ent'[e].refs = Cardinality(Held(proc', e)) /\ ent'[e].roots = Cardinality(Roots(proc', e))
    BY <1>1, <2>2 DEF IInv, CountsOK
  <2>4. \A f \in EntryIds \ {e} : ent'[f].refs = Cardinality(Held(proc', f)) /\ ent'[f].roots = Cardinality(Roots(proc', f))
    BY <1>1 DEF IInv, CountsOK, SameEntry
  <2>5. QED
    BY <2>3, <2>4 DEF CountsOK
<1>6. \A q \in Procs \ {p} : proc[q].pc \in {"restore", "restoring"} => proc[q].e # e
  BY DEF IInv, LeasesOK
<1>7. LeasesOK'
  <2>1. \A q \in Procs : proc'[q].pc \in Leased => ent'[proc'[q].e].state = "open"
    BY SMTT(60) DEF IInv, LeasesOK, SameEntry, Alike, Leased, CallOK
  <2>2. \A q \in Procs : proc'[q].pc \in {"restore", "restoring"} =>
                             ent'[proc'[q].e].draining /\ ~ent'[proc'[q].e].auto
    BY <1>6, SMTT(60) DEF IInv, LeasesOK, SameEntry, Alike, CallOK
  <2>3. ASSUME NEW q \in Procs, proc'[q].pc = "restoring"
        PROVE  Held(proc', proc'[q].e) = {q}
    <3>1. q # p /\ proc[q].pc = "restoring" /\ proc'[q].e = proc[q].e /\ proc[q].e \in EntryIds \ {e}
      BY <1>6, <2>3 DEF IInv, Alike, CallOK
    <3>2. QED
      BY <1>1, <3>1, SMTT(60) DEF IInv, LeasesOK
  <2>4. \A f \in EntryIds : ent'[f].auto => ent'[f].draining
    BY DEF IInv, LeasesOK, SameEntry
  <2>5. QED
    BY <2>1, <2>2, <2>3, <2>4 DEF LeasesOK
<1>8. OwnersOK'
  <2>1. \A q \in Procs \ {p} : proc'[q].pc \in {"opening", "closing"} =>
            proc[q].pc = proc'[q].pc /\ proc[q].e = proc'[q].e /\ proc[q].e \in EntryIds \ {e}
    BY <1>2 DEF IInv, OwnersOK, Alike, CallOK
  <2>2. \A q \in Procs : proc'[q].pc \in {"opening", "closing"} => q # p
    OBVIOUS
  <2>3. \A q \in Procs : proc'[q].pc \in {"opening", "closing"} => ent'[proc'[q].e].state = proc'[q].pc
    BY <2>1, <2>2 DEF IInv, OwnersOK, SameEntry
  <2>4. \A q, r \in Procs :
            proc'[q].pc \in {"opening", "closing"} /\ proc'[r].pc = proc'[q].pc /\ proc'[r].e = proc'[q].e => q = r
    BY <2>1, <2>2 DEF IInv, OwnersOK
  <2>5. QED
    BY <2>3, <2>4 DEF OwnersOK
<1>9. \A q \in Procs : CallOK(proc'[q], closing')
  BY AlikeOK DEF IInv
<1>10. QED
  BY <1>3, <1>4, <1>5, <1>7, <1>8, <1>9 DEF IInv

\* A lease is counted.
LEMMA LeaseCounted ==
    ASSUME ProcsCount, IInv, NEW p \in Procs, proc[p].pc \in Leased
    PROVE  /\ ent[proc[p].e].refs >= 1
           /\ proc[p].root => ent[proc[p].e].roots >= 1
<1> DEFINE e == proc[p].e
<1>1. e \in EntryIds
  BY DEF IInv, CallOK, Leased
<1>2. /\ Held(proc, e) \in SUBSET Procs /\ Roots(proc, e) \in SUBSET Procs
      /\ p \in Held(proc, e) /\ (proc[p].root => p \in Roots(proc, e))
  BY DEF Held, Roots
<1> HIDE DEF e
<1>3. /\ Cardinality(Held(proc, e)) \in Nat /\ Cardinality(Roots(proc, e)) \in Nat
      /\ Cardinality(Held(proc, e)) # 0 /\ (proc[p].root => Cardinality(Roots(proc, e)) # 0)
  BY <1>2, Counting
<1>4. QED
  BY <1>1, <1>3 DEF IInv, CountsOK, e

\* p gives up its lease on e.  A drain that has begun goes on.
LEMMA LoseStep ==
    ASSUME ProcsCount, IInv, NEW p \in Procs, NEW e \in EntryIds,
           proc' \in [Procs -> Call], \A q \in Procs \ {p} : Alike(proc[q], proc'[q]),
           proc[p].pc \in Leased, proc[p].e = e, Quiet(proc'[p]), CallOK(proc'[p], closing),
           SameEntry(e), ent'[e].state = ent[e].state, ent'[e].refs = ent[e].refs - 1,
           ent'[e].roots = IF proc[p].root THEN ent[e].roots - 1 ELSE ent[e].roots,
           ent'[e].auto => ent'[e].draining,
           ent[e].draining => ent'[e].draining /\ ent'[e].auto = ent[e].auto,
           UNCHANGED <<entries, byVault, closing>>
    PROVE  IInv'
<1>1. \A f : /\ Held(proc', f) \ {p} = Held(proc, f) \ {p} /\ Roots(proc', f) \ {p} = Roots(proc, f) \ {p}
             /\ p \notin Held(proc', f) /\ p \notin Roots(proc', f)
             /\ p \in Held(proc, f) <=> f = e
             /\ p \in Roots(proc, f) <=> f = e /\ proc[p].root
  BY HeldAfter DEF Quiet
<1>2. Held(proc', e) = Held(proc, e) \ {p} /\ p \in Held(proc, e)
  BY <1>1
<1>3. Roots(proc', e) = Roots(proc, e) \ {p} /\ (p \in Roots(proc, e) <=> proc[p].root)
  BY <1>1
<1>4. ASSUME NEW f \in EntryIds \ {e}
      PROVE  Held(proc', f) = Held(proc, f) /\ Roots(proc', f) = Roots(proc, f)
  <2>1. /\ Held(proc', f) \ {p} = Held(proc, f) \ {p} /\ Roots(proc', f) \ {p} = Roots(proc, f) \ {p}
        /\ p \notin Held(proc, f) /\ p \notin Roots(proc, f) /\ p \notin Held(proc', f) /\ p \notin Roots(proc', f)
    BY <1>1
  <2>2. QED
    BY <2>1, SameBut
<1>5. ent[e].state = "open" /\ Live(e)
  BY DEF IInv, LeasesOK, Live
<1>6. TypeOK'
  BY DEF IInv, TypeOK, SameEntry
<1>7. TablesOK'
  BY <1>5, SameTables
<1>8. CountsOK'
  <2>1. Held(proc, e) \in SUBSET Procs /\ Roots(proc, e) \in SUBSET Procs
    BY DEF Held, Roots
  <2>2. Cardinality(Held(proc', e)) = Cardinality(Held(proc, e)) - 1
    BY <1>2, <2>1, Counting
  <2>3. Cardinality(Roots(proc', e)) = IF proc[p].root THEN Cardinality(Roots(proc, e)) - 1
                                       ELSE Cardinality(Roots(proc, e))
    <3>1. CASE proc[p].root
      BY <1>3, <2>1, <3>1, Counting
    <3>2. CASE ~proc[p].root
      <4>1. Roots(proc', e) = Roots(proc, e)
        BY <1>3, <3>2
      <4>2. QED
        BY <3>2, <4>1
    <3>3. QED
      BY <3>1, <3>2
  <2>4. ent'[e].refs = Cardinality(Held(proc', e)) /\ ent'[e].roots = Cardinality(Roots(proc', e))
    BY <2>2, <2>3 DEF IInv, CountsOK
  <2>5. \A f \in EntryIds \ {e} : ent'[f].refs = Cardinality(Held(proc', f)) /\ ent'[f].roots = Cardinality(Roots(proc', f))
    BY <1>4 DEF IInv, CountsOK, SameEntry
  <2>6. QED
    BY <2>4, <2>5 DEF CountsOK
<1>9. LeasesOK'
  <2>1. \A q \in Procs : proc'[q].pc \in Leased => /\ q # p /\ proc'[q].e = proc[q].e /\ proc'[q].pc = proc[q].pc
                                                   /\ proc[q].e \in EntryIds
    BY DEF IInv, Quiet, Alike, Leased, CallOK
  <2>2. \A q \in Procs : proc'[q].pc \in Leased => ent'[proc'[q].e].state = "open"
    BY <1>5, <2>1 DEF IInv, LeasesOK, SameEntry
  <2>3. \A q \in Procs : proc'[q].pc \in {"restore", "restoring"} =>
                             ent'[proc'[q].e].draining /\ ~ent'[proc'[q].e].auto
    BY <2>1 DEF IInv, LeasesOK, SameEntry, Leased
  <2>4. ASSUME NEW q \in Procs, proc'[q].pc = "restoring"
        PROVE  Held(proc', proc'[q].e) = {q}
    <3>1. q # p /\ proc'[q].e = proc[q].e /\ Held(proc, proc[q].e) = {q} /\ proc[q].e \in EntryIds
      BY <2>1, <2>4, ZenonT(60) DEF IInv, LeasesOK, Leased
    <3>2. proc[q].e # e
      BY <1>2, <3>1
    <3>3. QED
      BY <1>4, <3>1, <3>2
  <2>5. \A f \in EntryIds : ent'[f].auto => ent'[f].draining
    BY DEF IInv, LeasesOK, SameEntry
  <2>6. QED
    BY <2>2, <2>3, <2>4, <2>5, Zenon DEF LeasesOK
<1>10. OwnersOK'
  <2>1. \A q \in Procs : proc'[q].pc \in {"opening", "closing"} =>
            /\ q # p /\ proc[q].pc = proc'[q].pc /\ proc[q].e = proc'[q].e /\ proc[q].e \in EntryIds \ {e}
    BY <1>5 DEF IInv, OwnersOK, Alike, CallOK, Quiet
  <2>2. QED
    BY <2>1 DEF IInv, OwnersOK, SameEntry
<1>11. \A q \in Procs : CallOK(proc'[q], closing')
  BY AlikeOK DEF IInv
<1>12. QED
  BY <1>6, <1>7, <1>8, <1>9, <1>10, <1>11 DEF IInv

\* A step of p that adds no lease and takes none away, and changes at most the entry e.
LEMMA SameCounts ==
    ASSUME IInv, NEW p \in Procs, NEW e \in EntryIds, \A q \in Procs \ {p} : proc'[q] = proc[q],
           proc[p].pc \notin Leased, proc'[p].pc \notin Leased,
           \A f \in EntryIds \ {e} : ent'[f] = ent[f],
           ent'[e].refs = ent[e].refs, ent'[e].roots = ent[e].roots
    PROVE  /\ CountsOK'
           /\ \A f \in EntryIds : Held(proc', f) = Held(proc, f)
<1>1. \A f \in EntryIds : Held(proc', f) = Held(proc, f) /\ Roots(proc', f) = Roots(proc, f)
  BY DEF Held, Roots
<1>2. QED
  BY <1>1, Zenon DEF IInv, CountsOK

\* An entry that is not open is not leased.
LEMMA NotLeased ==
    ASSUME ProcsCount, IInv, NEW e \in EntryIds, ent[e].state # "open"
    PROVE  /\ Held(proc, e) = {} /\ Roots(proc, e) = {}
           /\ ent[e].refs = 0 /\ ent[e].roots = 0
<1>1. Held(proc, e) = {} /\ Roots(proc, e) = {}
  BY DEF IInv, LeasesOK, Held, Roots
<1>2. Cardinality({}) = 0
  BY Counting
<1>3. QED
  BY <1>1, <1>2 DEF IInv, CountsOK

\* The leases of a step that leaves them alone and drains e or changes the state of e
\* while no one holds it.
LEMMA SameLeases ==
    ASSUME IInv, NEW p \in Procs, NEW e \in EntryIds, \A q \in Procs \ {p} : proc'[q] = proc[q],
           proc[p].pc \notin Leased, proc'[p].pc \notin Leased,
           \A f \in EntryIds \ {e} : ent'[f] = ent[f],
           Held(proc, e) = {}, ent'[e].auto => ent'[e].draining,
           \A f \in EntryIds : Held(proc', f) = Held(proc, f)
    PROVE  LeasesOK'
<1>1. \A q \in Procs : proc'[q].pc \in Leased =>
          q # p /\ proc'[q] = proc[q] /\ proc[q].e \in EntryIds \ {e}
  BY DEF IInv, CallOK, Held, Leased
<1>2. \A q \in Procs : proc'[q].pc \in Leased => ent'[proc'[q].e].state = "open"
  BY <1>1 DEF IInv, LeasesOK
<1>3. \A q \in Procs : proc'[q].pc \in {"restore", "restoring"} =>
                           ent'[proc'[q].e].draining /\ ~ent'[proc'[q].e].auto
  BY <1>1 DEF IInv, LeasesOK, Leased
<1>4. \A q \in Procs : proc'[q].pc = "restoring" => Held(proc', proc'[q].e) = {q}
  BY <1>1, Zenon DEF IInv, LeasesOK, Leased
<1>5. \A f \in EntryIds : ent'[f].auto => ent'[f].draining
  BY DEF IInv, LeasesOK
<1>6. QED
  BY <1>2, <1>3, <1>4, <1>5 DEF LeasesOK

\* The owner p of e is done opening it: e is open or has failed, and p will close it.
LEMMA OpenedStep ==
    ASSUME ProcsCount, IInv, NEW p \in Procs, NEW e \in EntryIds, proc[p].pc = "opening", proc[p].e = e,
           proc' \in [Procs -> Call], \A q \in Procs \ {p} : proc'[q] = proc[q],
           Quiet(proc'[p]), CallOK(proc'[p], closing),
           SameEntry(e), ent'[e].state \in {"open", "failed"},
           ent'[e].refs = ent[e].refs, ent'[e].roots = ent[e].roots, ent'[e].auto => ent'[e].draining,
           UNCHANGED <<entries, byVault, closing>>
    PROVE  IInv'
<1>1. ent[e].state = "opening" /\ Live(e) /\ Held(proc, e) = {}
  BY NotLeased DEF IInv, OwnersOK, Live
<1>2. TypeOK'
  BY DEF IInv, TypeOK, SameEntry
<1>3. TablesOK'
  BY <1>1, SameTables
<1>4. CountsOK' /\ \A f \in EntryIds : Held(proc', f) = Held(proc, f)
  BY SameCounts DEF SameEntry, Quiet, Leased
<1>5. LeasesOK'
  BY <1>1, <1>4, SameLeases DEF SameEntry, Quiet, Leased
<1>6. OwnersOK'
  <2>1. \A q \in Procs : proc'[q].pc \in {"opening", "closing"} =>
            /\ q # p /\ proc'[q] = proc[q] /\ proc[q].e \in EntryIds \ {e}
    BY <1>1 DEF IInv, OwnersOK, CallOK, Quiet
  <2>2. QED
    BY <2>1 DEF IInv, OwnersOK, SameEntry
<1>7. \A q \in Procs : CallOK(proc'[q], closing')
  BY DEF IInv
<1>8. QED
  BY <1>2, <1>3, <1>4, <1>5, <1>6, <1>7 DEF IInv

\* p becomes the closer of e, which has no references left.
LEMMA ClosingStep ==
    ASSUME ProcsCount, IInv, NEW p \in Procs, NEW e \in EntryIds, Quiet(proc[p]), proc'[p].pc = "closing", proc'[p].e = e,
           proc' \in [Procs -> Call], \A q \in Procs \ {p} : proc'[q] = proc[q], CallOK(proc'[p], closing),
           ent[e].state \in {"open", "failed"}, ent[e].refs = 0,
           SameEntry(e), ent'[e].state = "closing",
           ent'[e].refs = ent[e].refs, ent'[e].roots = ent[e].roots, ent'[e].auto => ent'[e].draining,
           UNCHANGED <<entries, byVault, closing>>
    PROVE  IInv'
<1>1. Held(proc, e) = {} /\ Live(e)
  <2>1. Held(proc, e) \in SUBSET Procs /\ Cardinality(Held(proc, e)) = 0
    BY DEF IInv, CountsOK, Held
  <2>2. QED
    BY <2>1, Counting DEF Live
<1>2. TypeOK'
  BY DEF IInv, TypeOK, SameEntry
<1>3. TablesOK'
  BY <1>1, SameTables
<1>4. CountsOK' /\ \A f \in EntryIds : Held(proc', f) = Held(proc, f)
  BY SameCounts DEF SameEntry, Quiet, Leased
<1>5. LeasesOK'
  BY <1>1, <1>4, SameLeases DEF SameEntry, Quiet, Leased
<1>6. OwnersOK'
  <2>1. \A q \in Procs : proc'[q].pc \in {"opening", "closing"} =>
            q = p \/ (proc'[q] = proc[q] /\ proc[q].e \in EntryIds \ {e})
    BY DEF IInv, OwnersOK, CallOK
  <2>2. QED
    BY <2>1 DEF IInv, OwnersOK, SameEntry
<1>7. \A q \in Procs : CallOK(proc'[q], closing')
  BY DEF IInv
<1>8. QED
  BY <1>2, <1>3, <1>4, <1>5, <1>6, <1>7 DEF IInv

\* The owner p of e takes it out of the tables: it failed to open it or has closed it.
LEMMA ForgetStep ==
    ASSUME ProcsCount, IInv, NEW p \in Procs, NEW e \in EntryIds, proc[p].pc \in {"opening", "closing"}, proc[p].e = e,
           proc' \in [Procs -> Call], \A q \in Procs \ {p} : proc'[q] = proc[q],
           Quiet(proc'[p]), CallOK(proc'[p], closing),
           ent' = [ent EXCEPT ![e] = Gone], Unmap(e), UNCHANGED closing
    PROVE  IInv'
<1>1. /\ ent[e].state \in {"opening", "closing"} /\ Live(e) /\ Held(proc, e) = {}
      /\ ent[e].refs = 0 /\ ent[e].roots = 0
  BY NotLeased DEF IInv, OwnersOK, Live
<1>2. /\ ent' \in [EntryIds -> Entry] /\ ent'[e] = Gone /\ \A f \in EntryIds \ {e} : ent'[f] = ent[f]
  BY DEF IInv, TypeOK, Entry, Gone, EntryStates
<1>3. TypeOK'
  BY <1>2 DEF IInv, TypeOK, Unmap
<1>4. TablesOK'
  <2>1. \A u \in Users : entries'[u] = IF entries[u] = e THEN 0 ELSE entries[u]
    BY DEF Unmap
  <2>2. \A v \in Vaults : byVault'[v] = IF byVault[v] = e THEN 0 ELSE byVault[v]
    BY DEF Unmap
  <2>3. \A u \in Users : entries'[u] # 0 => ent'[entries'[u]].state # "gone" /\ ent'[entries'[u]].user = u
    BY <1>2, <2>1 DEF IInv, TypeOK, TablesOK, Live
  <2>4. \A v \in Vaults : byVault'[v] # 0 => ent'[byVault'[v]].state # "gone" /\ ent'[byVault'[v]].vault = v
    BY <1>2, <2>2 DEF IInv, TypeOK, TablesOK, Live
  <2>5. \A f \in EntryIds : ent'[f].state # "gone" =>
            /\ ent'[f].user \in Users /\ entries'[ent'[f].user] = f
            /\ ent'[f].vault \in Vaults /\ byVault'[ent'[f].vault] = f
    <3> SUFFICES ASSUME NEW f \in EntryIds, ent'[f].state # "gone"
                 PROVE  /\ ent'[f].user \in Users /\ entries'[ent'[f].user] = f
                        /\ ent'[f].vault \in Vaults /\ byVault'[ent'[f].vault] = f
      OBVIOUS
    <3>1. f # e /\ ent'[f] = ent[f]
      BY <1>2 DEF Gone
    <3>2. QED
      BY <2>1, <2>2, <3>1 DEF IInv, TablesOK, Live
  <2>6. \A f \in EntryIds : ent'[f].state = "gone" => ent'[f] = Gone
    BY <1>2 DEF IInv, TablesOK, Live
  <2>7. QED
    BY <2>3, <2>4, <2>5, <2>6 DEF TablesOK, Live
<1>5. CountsOK' /\ \A f \in EntryIds : Held(proc', f) = Held(proc, f)
  BY <1>1, <1>2, SameCounts DEF Gone, Quiet, Leased
<1>6. LeasesOK'
  BY <1>1, <1>2, <1>5, SameLeases DEF Gone, Quiet, Leased
<1>7. OwnersOK'
  <2>1. \A q \in Procs : proc'[q].pc \in {"opening", "closing"} =>
            /\ q # p /\ proc'[q] = proc[q] /\ proc[q].e \in EntryIds \ {e}
    BY DEF IInv, OwnersOK, CallOK, Quiet
  <2>2. QED
    BY <1>2, <2>1 DEF IInv, OwnersOK
<1>8. \A q \in Procs : CallOK(proc'[q], closing')
  BY DEF IInv
<1>9. QED
  BY <1>3, <1>4, <1>5, <1>6, <1>7, <1>8 DEF IInv

\* p reserves user and vault with a new entry f and goes on to open it.
LEMMA ReserveStep ==
    ASSUME ProcsCount, IInv, NEW p \in Procs, NEW u \in Users, NEW v \in Vaults, NEW k \in Keys,
           NEW f \in EntryIds, ent[f].state = "gone", entries[u] = 0, VaultFree(u, v),
           proc[p].pc = "acquire", proc' \in [Procs -> Call], \A q \in Procs \ {p} : proc'[q] = proc[q],
           proc'[p].pc = "opening", proc'[p].e = f, CallOK(proc'[p], closing),
           ent' = [ent EXCEPT ![f] = [Gone EXCEPT !.state = "opening", !.user = u, !.vault = v, !.key = k]],
           entries' = [entries EXCEPT ![u] = f], byVault' = [byVault EXCEPT ![v] = f], UNCHANGED closing
    PROVE  IInv'
<1>1. 0 \notin EntryIds
  BY DEF EntryIds
<1>2. byVault[v] = 0
  BY <1>1 DEF IInv, TypeOK, TablesOK, VaultFree
<1>3. /\ ent' \in [EntryIds -> Entry] /\ \A g \in EntryIds \ {f} : ent'[g] = ent[g]
      /\ ent'[f].state = "opening" /\ ent'[f].user = u /\ ent'[f].vault = v
      /\ ent'[f].refs = 0 /\ ent'[f].roots = 0 /\ ent'[f].auto = FALSE
  BY Zenon DEF IInv, TypeOK, Entry, Gone, EntryStates
<1>5. Held(proc, f) = {} /\ ent[f].refs = 0 /\ ent[f].roots = 0
  BY NotLeased
<1>6. TypeOK'
  BY <1>3 DEF IInv, TypeOK
<1>7. TablesOK'
  <2>1. \A w \in Users : entries'[w] # 0 => ent'[entries'[w]].state # "gone" /\ ent'[entries'[w]].user = w
    BY <1>3 DEF IInv, TypeOK, TablesOK, Live
  <2>2. \A w \in Vaults : byVault'[w] # 0 => ent'[byVault'[w]].state # "gone" /\ ent'[byVault'[w]].vault = w
    BY <1>3 DEF IInv, TypeOK, TablesOK, Live
  <2>3. ASSUME NEW g \in EntryIds, ent'[g].state # "gone"
        PROVE  /\ ent'[g].user \in Users /\ entries'[ent'[g].user] = g
               /\ ent'[g].vault \in Vaults /\ byVault'[ent'[g].vault] = g
    <3>1. CASE g = f
      BY <1>3, <3>1 DEF IInv, TypeOK
    <3>2. CASE g # f
      BY <1>1, <1>2, <1>3, <2>3, <3>2 DEF IInv, TypeOK, TablesOK, Live
    <3>3. QED
      BY <3>1, <3>2
  <2>4. \A g \in EntryIds : ent'[g].state = "gone" => ent'[g] = Gone
    BY <1>3 DEF IInv, TablesOK, Live
  <2>5. QED
    BY <2>1, <2>2, <2>3, <2>4 DEF TablesOK, Live
<1>8. CountsOK' /\ \A g \in EntryIds : Held(proc', g) = Held(proc, g)
  BY <1>3, <1>5, SameCounts DEF Leased
<1>9. LeasesOK'
  BY <1>3, <1>5, <1>8, SameLeases DEF Leased
<1>10. OwnersOK'
  <2>1. \A q \in Procs : proc'[q].pc \in {"opening", "closing"} =>
            q = p \/ (proc'[q] = proc[q] /\ proc[q].e \in EntryIds \ {f})
    BY DEF IInv, OwnersOK, CallOK
  <2>2. QED
    BY <1>3, <2>1 DEF IInv, OwnersOK
<1>11. \A q \in Procs : CallOK(proc'[q], closing')
  BY DEF IInv, CallOK
<1>12. QED
  BY <1>6, <1>7, <1>8, <1>9, <1>10, <1>11 DEF IInv

\* p drains entries in use, for a user or for the shutdown, and goes on to close them.
LEMMA DrainStep ==
    ASSUME IInv, NEW p \in Procs, Quiet(proc[p]), Quiet(proc'[p]), CallOK(proc'[p], closing'),
           proc' \in [Procs -> Call], \A q \in Procs \ {p} : proc'[q] = proc[q],
           ent' \in [EntryIds -> Entry],
           \A e \in EntryIds : ent'[e] = ent[e] \/ (Live(e) /\ ent'[e] = Drained(ent[e])),
           closing' \in BOOLEAN, closing => closing', UNCHANGED <<entries, byVault>>
    PROVE  IInv'
<1>1. \A e \in EntryIds : /\ ent'[e].state = ent[e].state /\ ent'[e].refs = ent[e].refs /\ ent'[e].roots = ent[e].roots
                          /\ ent'[e].user = ent[e].user /\ ent'[e].vault = ent[e].vault
                          /\ Live(e) \/ ent'[e] = ent[e]
                          /\ (ent'[e].draining = ent[e].draining /\ ent'[e].auto = ent[e].auto)
                             \/ (ent'[e].draining = TRUE /\ ent'[e].auto = FALSE)
  <2> SUFFICES ASSUME NEW e \in EntryIds, ent[e] \in Entry, Live(e), ent'[e] = Drained(ent[e])
               PROVE  /\ ent'[e].state = ent[e].state /\ ent'[e].refs = ent[e].refs /\ ent'[e].roots = ent[e].roots
                      /\ ent'[e].user = ent[e].user /\ ent'[e].vault = ent[e].vault
                      /\ ent'[e].draining = TRUE /\ ent'[e].auto = FALSE
    BY Zenon DEF IInv, TypeOK
  <2>1. QED
    BY Zenon DEF Entry, Drained
<1>2. \A e \in EntryIds : Held(proc', e) = Held(proc, e) /\ Roots(proc', e) = Roots(proc, e)
  BY DEF Held, Roots, Quiet, Leased
<1>3. TypeOK'
  BY DEF IInv, TypeOK
<1>4. TablesOK'
  BY <1>1 DEF IInv, TypeOK, TablesOK, Live
<1>5. CountsOK'
  BY <1>1, <1>2, ZenonT(60) DEF IInv, CountsOK
<1>6. LeasesOK'
  <2>1. \A q \in Procs : proc'[q].pc \in Leased => proc'[q] = proc[q] /\ proc[q].e \in EntryIds
    BY DEF IInv, CallOK, Quiet, Leased
  <2>2. ASSUME NEW q \in Procs, proc'[q].pc \in Leased
        PROVE  ent'[proc'[q].e].state = "open"
    <3>1. proc'[q] = proc[q] /\ proc[q].e \in EntryIds /\ proc[q].pc \in Leased
      BY <2>1, <2>2, Zenon
    <3>2. ent[proc[q].e].state = "open"
      BY <3>1, Zenon DEF IInv, LeasesOK
    <3>3. ent'[proc[q].e].state = ent[proc[q].e].state
      BY <1>1, <3>1
    <3> QED  BY <3>1, <3>2, <3>3, Zenon
  <2>3. ASSUME NEW q \in Procs, proc'[q].pc \in {"restore", "restoring"}
        PROVE  ent'[proc'[q].e].draining /\ ~ent'[proc'[q].e].auto
    <3>1. proc'[q] = proc[q] /\ proc[q].e \in EntryIds /\ proc[q].pc \in {"restore", "restoring"}
      BY <2>1, <2>3, Zenon DEF Leased
    <3>2. ent[proc[q].e].draining /\ ~ent[proc[q].e].auto
      BY <3>1, Zenon DEF IInv, LeasesOK
    <3> QED  BY <1>1, <3>1, <3>2, Zenon
  <2>4. \A q \in Procs : proc'[q].pc = "restoring" => Held(proc', proc'[q].e) = {q}
    BY <1>2, <2>1, Zenon DEF IInv, LeasesOK, Leased
  <2>5. \A e \in EntryIds : ent'[e].auto => ent'[e].draining
    BY <1>1, Zenon DEF IInv, LeasesOK
  <2>6. QED
    BY <2>2, <2>3, <2>4, <2>5, Zenon DEF LeasesOK
<1>7. OwnersOK'
  <2>1. \A q \in Procs : proc'[q].pc \in {"opening", "closing"} =>
            /\ q # p /\ proc'[q] = proc[q] /\ proc[q].e \in EntryIds
    BY DEF IInv, CallOK, Quiet
  <2>2. QED
    BY <1>1, <2>1, SMTT(60) DEF IInv, OwnersOK
<1>8. \A q \in Procs : CallOK(proc'[q], closing')
  BY Zenon DEF IInv, TypeOK, CallOK
<1>9. QED
  BY <1>3, <1>4, <1>5, <1>6, <1>7, <1>8 DEF IInv

\* A restore runs once it is alone with its instance.
LEMMA RestoreStep ==
    ASSUME ProcsCount, IInv, NEW p \in Procs, RestoreRuns(p)
    PROVE  IInv'
<1>1. /\ proc' \in [Procs -> Call] /\ \A q \in Procs \ {p} : proc'[q] = proc[q]
      /\ proc[p].pc = "restore" /\ proc'[p].pc = "restoring"
      /\ proc'[p].e = proc[p].e /\ proc'[p].root = proc[p].root /\ proc'[p].todo = proc[p].todo
      /\ UNCHANGED <<entries, byVault, ent, closing>>
  BY DEF IInv, TypeOK, RestoreRuns, Goto, Call
<1>2. \A e : Held(proc', e) = Held(proc, e) /\ Roots(proc', e) = Roots(proc, e)
  BY <1>1 DEF Held, Roots, Leased
<1>3. Held(proc, proc[p].e) = {p}
  <2>1. proc[p].e \in EntryIds /\ p \in Held(proc, proc[p].e) /\ Held(proc, proc[p].e) \in SUBSET Procs
    BY <1>1 DEF IInv, CallOK, Held, Leased
  <2>2. Cardinality(Held(proc, proc[p].e)) <= 1
    BY <2>1 DEF IInv, CountsOK, RestoreRuns, SoleReference
  <2>3. QED
    BY <2>1, <2>2, Sole
<1>4. TypeOK'
  BY <1>1 DEF IInv, TypeOK
<1>5. TablesOK'
  BY <1>1 DEF IInv, TablesOK, Live
<1>6. CountsOK'
  BY <1>1, <1>2, Zenon DEF IInv, CountsOK
<1>7. LeasesOK'
  <2>1. \A q \in Procs : proc'[q].e = proc[q].e /\ (proc'[q].pc \in Leased => proc[q].pc \in Leased)
                         /\ (proc'[q].pc \in {"restore", "restoring"} => proc[q].pc \in {"restore", "restoring"})
    BY <1>1 DEF Leased
  <2>2. \A q \in Procs : proc'[q].pc = "restoring" => Held(proc', proc'[q].e) = {q}
    BY <1>1, <1>2, <1>3, SMTT(60) DEF IInv, LeasesOK
  <2>3. QED
    BY <1>1, <2>1, <2>2, SMTT(60) DEF IInv, LeasesOK
<1>8. OwnersOK'
  BY <1>1, SMTT(60) DEF IInv, OwnersOK
<1>9. \A q \in Procs : CallOK(proc'[q], closing')
  BY <1>1, Zenon DEF IInv, CallOK, Leased
<1>10. QED
  BY <1>4, <1>5, <1>6, <1>7, <1>8, <1>9 DEF IInv

-----------------------------------------------------------------------------
(* The actions *)

\* The invariant holds initially.
LEMMA InitIInv ==
    ASSUME ProcsCount, Init
    PROVE  IInv
<1>1. Gone \in Entry /\ Idle \in Call
  BY DEF Gone, Entry, EntryStates, Idle, Call
<1>2. TypeOK
  BY <1>1, Zenon DEF Init, TypeOK
<1>3. \A e \in EntryIds : Held(proc, e) = {} /\ Roots(proc, e) = {}
  BY DEF Init, Held, Roots, Leased, Idle
<1>4. Cardinality({}) = 0
  BY Counting
<1>5. TablesOK /\ CountsOK
  BY <1>3, <1>4, Zenon DEF Init, TablesOK, CountsOK, Live, Gone
<1>6. LeasesOK /\ OwnersOK
  BY DEF Init, LeasesOK, OwnersOK, Leased, Idle, Gone
<1>7. \A p \in Procs : CallOK(proc[p], closing)
  BY DEF Init, CallOK, Leased, Idle
<1>8. QED
  BY <1>2, <1>5, <1>6, <1>7 DEF IInv

\* A goroutine that goes on to close an entry it has opened or released, and one that drains.
Closer(e) == [Idle EXCEPT !.pc = "close", !.e = e, !.todo = {e}]
Drainer(e, todo) == [Idle EXCEPT !.pc = "close", !.e = e, !.todo = todo, !.ctx = TRUE]

\* Both are calls, quiet and well formed, as is one with nothing in hand.
LEMMA Calls ==
    /\ Idle \in Call /\ Quiet(Idle) /\ \A shut : CallOK(Idle, shut)
    /\ \A e \in EntryIds : /\ Closer(e) \in Call /\ Quiet(Closer(e))
                           /\ \A shut : CallOK(Closer(e), shut)
    /\ \A e \in EntryIds, todo \in SUBSET EntryIds :
          /\ Drainer(e, todo) \in Call /\ Quiet(Drainer(e, todo))
          /\ \A shut \in BOOLEAN : (~shut => todo = {e}) => CallOK(Drainer(e, todo), shut)
<1>1. Idle \in Call /\ Quiet(Idle) /\ \A shut : CallOK(Idle, shut)
  BY Zenon DEF Idle, Call, Quiet, CallOK, Leased
<1>2. ASSUME NEW e \in EntryIds
      PROVE  Closer(e) \in Call /\ Quiet(Closer(e)) /\ \A shut : CallOK(Closer(e), shut)
  BY Zenon DEF Closer, Idle, Call, Quiet, CallOK, Leased
<1>3. ASSUME NEW e \in EntryIds, NEW todo \in SUBSET EntryIds
      PROVE  /\ Drainer(e, todo) \in Call /\ Quiet(Drainer(e, todo))
             /\ \A shut \in BOOLEAN : (~shut => todo = {e}) => CallOK(Drainer(e, todo), shut)
  BY Zenon DEF Drainer, Idle, Call, Quiet, CallOK, Leased
<1>4. QED
  BY <1>1, <1>2, <1>3

\* A quiet call ends, and nothing else changes.
LEMMA LeaveStep ==
    ASSUME IInv, NEW p \in Procs, Quiet(proc[p]), Leave(p), UNCHANGED <<entries, byVault, ent, closing>>
    PROVE  IInv'
BY Calls, QuietStep, Zenon DEF Leave

\* closeEntry returns from a quiet call, and nothing else changes.
LEMMA ReturnCall ==
    ASSUME IInv, NEW p \in Procs, proc[p].e \in EntryIds, Return(p)
    PROVE  \E c \in Call : proc' = [proc EXCEPT ![p] = c] /\ Quiet(c) /\ CallOK(c, closing)
<1> DEFINE rest == proc[p].todo \ {proc[p].e}
<1>1. proc[p] \in Call /\ rest \in SUBSET EntryIds /\ (~closing => rest = {})
  BY DEF IInv, TypeOK, CallOK, Call
<1>2. CASE rest = {}
  BY <1>2, Calls DEF Return, Leave
<1>3. CASE rest # {}
  <2>1. PICK e \in rest : proc' = [proc EXCEPT ![p] = [proc[p] EXCEPT !.pc = "close", !.e = e, !.todo = rest]]
    BY <1>3, Zenon DEF Return
  <2> DEFINE c == [proc[p] EXCEPT !.pc = "close", !.e = e, !.todo = rest]
  <2>2. c \in Call /\ Quiet(c)
    BY <1>1, ZenonT(60) DEF Call, Quiet, Leased
  <2>3. CallOK(c, closing)
    BY <1>1, <1>3 DEF CallOK, Call, Leased
  <2>4. QED
    BY <2>1, <2>2, <2>3, Zenon
<1>4. QED
  BY <1>2, <1>3

\* So does the step in which it returns.
LEMMA ReturnStep ==
    ASSUME IInv, NEW p \in Procs, proc[p].e \in EntryIds, Quiet(proc[p]), Return(p),
           UNCHANGED <<entries, byVault, ent, closing>>
    PROVE  IInv'
BY ReturnCall, QuietStep, Zenon

\* A quiet call that has its entry in hand moves on, and nothing else changes.
LEMMA MoveStep ==
    ASSUME IInv, NEW p \in Procs, Quiet(proc[p]), proc[p].e \in EntryIds,
           NEW pc \in {"close", "waitOpened", "waitClosed", "waitIdle", "idled", "drained"},
           Goto(p, pc), UNCHANGED <<entries, byVault, ent, closing>>
    PROVE  IInv'
<1> DEFINE c == [proc[p] EXCEPT !.pc = pc]
<1>1. proc[p] \in Call /\ CallOK(proc[p], closing)
  BY DEF IInv, TypeOK
<1>2. c \in Call /\ Quiet(c) /\ CallOK(c, closing)
  BY <1>1 DEF Call, Quiet, CallOK, Leased
<1>3. proc' = [proc EXCEPT ![p] = c]
  BY DEF Goto, IInv, TypeOK
<1>4. QED
  BY <1>2, <1>3, QuietStep, Zenon

\* Acquire starts.
LEMMA StartAcquireKeeps ==
    ASSUME IInv, NEW p \in Procs, NEW u \in Users, NEW v \in Vaults, NEW k \in Keys, StartAcquire(p, u, v, k)
    PROVE  IInv'
<1> DEFINE c == [Idle EXCEPT !.pc = "acquire", !.user = u, !.vault = v, !.key = k]
<1>1. c \in Call /\ Quiet(c) /\ CallOK(c, closing)
  BY Zenon DEF Idle, Call, Quiet, CallOK, Leased
<1>2. Quiet(proc[p])
  BY DEF StartAcquire, Quiet, Leased
<1>3. QED
  BY <1>1, <1>2, QuietStep, Zenon DEF StartAcquire

\* p, whose call is not a lease, takes a lease with a session's or a request's count.
LEMMA HoldingCall ==
    ASSUME NEW c \in Call, c.todo = {}, NEW e \in EntryIds, NEW root \in BOOLEAN, NEW shut
    PROVE  /\ Holding(c, e, root) \in Call /\ CallOK(Holding(c, e, root), shut)
           /\ Holding(c, e, root).pc = "lease" /\ Holding(c, e, root).e = e
           /\ Holding(c, e, root).root = root
<1>1. Holding(c, e, root) \in Call
  BY Zenon DEF Holding, Call
<1>2. /\ Holding(c, e, root).pc = "lease" /\ Holding(c, e, root).e = e
      /\ Holding(c, e, root).root = root /\ Holding(c, e, root).todo = {}
  BY DEF Holding, Call
<1>3. QED
  BY <1>1, <1>2 DEF CallOK, Leased

\* The reference it adds to the entry.
LEMMA AddRefEntry ==
    ASSUME NEW x \in Entry, NEW root \in BOOLEAN
    PROVE  /\ AddRef(x, root) \in Entry
           /\ AddRef(x, root).refs = x.refs + 1
           /\ AddRef(x, root).roots = IF root THEN x.roots + 1 ELSE x.roots
           /\ AddRef(x, root).state = x.state /\ AddRef(x, root).user = x.user /\ AddRef(x, root).vault = x.vault
           /\ AddRef(x, root).draining = x.draining /\ AddRef(x, root).auto = x.auto
<1> DEFINE n == x.refs + 1  m == IF root THEN x.roots + 1 ELSE x.roots
<1>1. n \in Nat /\ m \in Nat
  BY DEF Entry
<1> HIDE DEF n, m
<1>2. AddRef(x, root) = [x EXCEPT !.refs = n, !.roots = m]
  BY Zenon DEF AddRef, Entry, n, m
<1>3. /\ AddRef(x, root) \in Entry
      /\ AddRef(x, root).refs = n /\ AddRef(x, root).roots = m
      /\ AddRef(x, root).state = x.state /\ AddRef(x, root).user = x.user /\ AddRef(x, root).vault = x.vault
      /\ AddRef(x, root).draining = x.draining /\ AddRef(x, root).auto = x.auto
  BY <1>1, <1>2, Zenon DEF Entry
<1>4. QED
  BY <1>3, Zenon DEF n, m

\* One pass of Acquire's loop.
LEMMA AcquireKeeps ==
    ASSUME ProcsCount, EntryLeft, IInv, NEW p \in Procs, Acquire(p)
    PROVE  IInv'
<1> DEFINE u == proc[p].user  v == proc[p].vault  k == proc[p].key  e == entries[u]
<1>1. /\ proc[p].pc = "acquire" /\ u \in Users /\ v \in Vaults /\ k \in Keys
      /\ proc[p].todo = {} /\ Quiet(proc[p]) /\ proc[p] \in Call /\ UNCHANGED closing
  BY Zenon DEF Acquire, IInv, TypeOK, CallOK, Quiet, Leased
<1>2. e \in EntryIds \cup {0}
  BY <1>1 DEF IInv, TypeOK
<1>3. CASE Refused(p) /\ Leave(p) /\ UNCHANGED <<entries, byVault, ent>>
  BY <1>1, <1>3, LeaveStep
<1>4. ASSUME NEW pc \in {"waitRetired", "waitReady"}, e # 0,
             proc' = [proc EXCEPT ![p].pc = pc, ![p].e = e], UNCHANGED <<entries, byVault, ent>>
      PROVE  IInv'
  <2> DEFINE c == [proc[p] EXCEPT !.pc = pc, !.e = e]
  <2>1. c \in Call /\ Quiet(c)
    BY <1>1, <1>2, <1>4, Zenon DEF Call, Quiet, Leased
  <2>2. CallOK(c, closing)
    BY <1>1, <1>2, <1>4 DEF Call, CallOK, Leased
  <2>3. proc' = [proc EXCEPT ![p] = c]
    BY <1>1, <1>4, Zenon DEF IInv, TypeOK
  <2>4. QED
    BY <1>1, <1>4, <2>1, <2>2, <2>3, QuietStep, Zenon
<1>5. CASE /\ ~Refused(p) /\ e # 0 /\ ent[e].state = "open"
           /\ ent' = [ent EXCEPT ![e] = AddRef([@ EXCEPT !.draining = FALSE, !.auto = FALSE], TRUE)]
           /\ proc' = [q \in Procs |->
                         IF q = p THEN Holding(proc[p], e, TRUE)
                         ELSE IF ent[e].auto THEN Unretired(proc[q], e) ELSE proc[q]]
           /\ UNCHANGED <<entries, byVault>>
  <2> DEFINE x == [ent[e] EXCEPT !.draining = FALSE, !.auto = FALSE]
  <2>1. /\ x \in Entry /\ x.refs = ent[e].refs /\ x.roots = ent[e].roots /\ x.state = "open"
        /\ x.user = ent[e].user /\ x.vault = ent[e].vault /\ x.auto = FALSE
    <3>1. ent[e] \in Entry /\ ent[e].state = "open"
      BY <1>2, <1>5, Zenon DEF IInv, TypeOK
    <3>2. QED
      BY <3>1, Zenon DEF Entry
  <2>2. ent[e].draining => ent[e].auto
    BY <1>5, Zenon DEF Refused
  <2>3. ent'[e] = AddRef(x, TRUE) /\ ent' \in [EntryIds -> Entry] /\ \A f \in EntryIds \ {e} : ent'[f] = ent[f]
    BY <1>2, <1>5, <2>1, AddRefEntry, Zenon DEF IInv, TypeOK
  <2>4. SameEntry(e) /\ ent'[e].state = "open" /\ ent'[e].refs = ent[e].refs + 1
        /\ ent'[e].roots = ent[e].roots + 1 /\ ~ent'[e].auto
    BY <2>1, <2>3, AddRefEntry, ZenonT(60) DEF SameEntry
  <2>5. proc'[p] = Holding(proc[p], e, TRUE)
    BY <1>5
  <2>6. ASSUME NEW q \in Procs \ {p} PROVE proc'[q] \in Call /\ Alike(proc[q], proc'[q])
    <3>1. proc[q] \in Call /\ (proc'[q] = proc[q] \/ proc'[q] = [proc[q] EXCEPT !.fresh = FALSE])
      BY <1>5, Zenon DEF IInv, TypeOK, Unretired
    <3>2. QED
      BY <3>1, ZenonT(60) DEF Call, Alike
  <2>7. proc' \in [Procs -> Call] /\ \A q \in Procs \ {p} : Alike(proc[q], proc'[q])
    BY <1>1, <1>2, <1>5, <2>5, <2>6, HoldingCall, Zenon
  <2>8. /\ proc'[p].e = e /\ proc'[p].pc = "lease" /\ CallOK(proc'[p], closing) /\ proc'[p].root = TRUE
    BY <1>1, <1>2, <1>5, <2>5, HoldingCall, ZenonT(60)
  <2>9. QED
    BY <1>1, <1>2, <1>5, <2>2, <2>4, <2>7, <2>8, GainStep, Zenon DEF Leased
<1>6. CASE /\ ~Refused(p) /\ e = 0
           /\ LET f == FreeEntry
              IN /\ entries' = [entries EXCEPT ![u] = f]
                 /\ byVault' = [byVault EXCEPT ![v] = f]
                 /\ ent' = [ent EXCEPT ![f] = [Gone EXCEPT !.state = "opening", !.user = u,
                                                          !.vault = v, !.key = k]]
                 /\ proc' = [proc EXCEPT ![p].pc = "opening", ![p].e = f]
  <2> DEFINE f == FreeEntry  c == [proc[p] EXCEPT !.pc = "opening", !.e = f]
  <2>1. f \in EntryIds /\ ent[f].state = "gone" /\ VaultFree(u, v)
    BY <1>1, <1>6 DEF EntryLeft, Refused
  <2> HIDE DEF f
  <2>2. c \in Call /\ c.pc = "opening" /\ c.e = f /\ CallOK(c, closing)
    BY <1>1, <2>1, Zenon DEF Call, CallOK, Leased
  <2>3. proc' = [proc EXCEPT ![p] = c]
    BY <1>1, <1>6, Zenon DEF IInv, TypeOK, f
  <2>4. /\ proc' \in [Procs -> Call] /\ \A q \in Procs \ {p} : proc'[q] = proc[q]
        /\ proc'[p].pc = "opening" /\ proc'[p].e = f /\ CallOK(proc'[p], closing)
    <3>1. proc'[p] = c /\ proc' \in [Procs -> Call] /\ \A q \in Procs \ {p} : proc'[q] = proc[q]
      BY <2>2, <2>3 DEF IInv, TypeOK
    <3>2. QED
      BY <2>2, <3>1, Zenon
  <2>5. /\ entries' = [entries EXCEPT ![u] = f] /\ byVault' = [byVault EXCEPT ![v] = f]
        /\ ent' = [ent EXCEPT ![f] = [Gone EXCEPT !.state = "opening", !.user = u, !.vault = v, !.key = k]]
    BY <1>6 DEF f
  <2>6. entries[u] = 0
    BY <1>6
  <2> HIDE DEF u, v, k
  <2>7. QED
    BY <1>1, <2>1, <2>4, <2>5, <2>6, ReserveStep, Zenon
<1>7. QED
  BY <1>3, <1>4, <1>5, <1>6, Zenon DEF Acquire

\* The wait for the previous instance is over.
LEMMA RetiredGoneKeeps ==
    ASSUME IInv, NEW p \in Procs, RetiredGone(p)
    PROVE  IInv'
<1> DEFINE c == [proc[p] EXCEPT !.pc = "acquire", !.e = 0]
<1>1. proc[p] \in Call /\ CallOK(proc[p], closing) /\ proc[p].pc = "waitRetired" /\ Quiet(proc[p])
  BY Zenon DEF RetiredGone, IInv, TypeOK, Quiet, Leased
<1>2. c \in Call /\ Quiet(c)
  BY <1>1, Zenon DEF Call, Quiet, Leased
<1>3. CallOK(c, closing)
  BY <1>1 DEF Call, CallOK, Leased
<1>4. proc' = [proc EXCEPT ![p] = c] /\ UNCHANGED <<entries, byVault, ent, closing>>
  BY Zenon DEF RetiredGone, IInv, TypeOK
<1>5. QED
  BY <1>1, <1>2, <1>3, <1>4, QuietStep, Zenon

\* q takes a lease on an open entry that nobody drains: c is its call, x the entry.
LEMMA JoinStep ==
    ASSUME ProcsCount, IInv, NEW q \in Procs, Quiet(proc[q]), NEW e \in EntryIds, NEW root \in BOOLEAN,
           NEW c \in Call, c.pc \in {"lease", "restore"}, c.e = e, c.root = root, CallOK(c, closing),
           ent[e].state = "open", ~ent[e].draining, ent[e] \in Entry,
           NEW x \in Entry, x.state = "open", x.user = ent[e].user, x.vault = ent[e].vault,
           x.refs = ent[e].refs + 1, x.roots = IF root THEN ent[e].roots + 1 ELSE ent[e].roots,
           ~x.auto, c.pc = "restore" => x.draining,
           ent' = [ent EXCEPT ![e] = x], proc' = [proc EXCEPT ![q] = c],
           UNCHANGED <<entries, byVault, closing>>
    PROVE  IInv'
<1>1. /\ proc' \in [Procs -> Call] /\ proc'[q] = c /\ \A r \in Procs \ {q} : proc'[r] = proc[r]
      /\ ent' \in [EntryIds -> Entry] /\ ent'[e] = x /\ \A f \in EntryIds \ {e} : ent'[f] = ent[f]
  BY DEF IInv, TypeOK
<1>2. \A r \in Procs \ {q} : Alike(proc[r], proc'[r])
  BY <1>1, Zenon DEF Alike
<1>3. SameEntry(e)
  BY <1>1, Zenon DEF SameEntry
<1>4. proc[q].pc \notin Leased \cup {"closing"} /\ proc[q].pc # "opening"
  BY DEF Quiet
<1>5. /\ proc'[q].e = e /\ proc'[q].pc \in {"lease", "restore"} /\ CallOK(proc'[q], closing)
      /\ ent'[e].state = "open" /\ ent'[e].refs = ent[e].refs + 1 /\ ~ent'[e].auto
      /\ ent'[e].roots = IF proc'[q].root THEN ent[e].roots + 1 ELSE ent[e].roots
      /\ proc'[q].pc = "restore" => ent'[e].draining /\ ~ent'[e].auto
  BY <1>1, Zenon
<1>6. QED
  BY <1>1, <1>2, <1>3, <1>4, <1>5, GainStep, Zenon

\* The waiter of another's opening takes a lease, or gives up.
LEMMA OpenedByOtherKeeps ==
    ASSUME ProcsCount, IInv, NEW p \in Procs, OpenedByOther(p)
    PROVE  IInv'
<1> DEFINE e == proc[p].e  x == AddRef(ent[e], TRUE)  c == Holding(proc[p], e, TRUE)
<1>1. /\ proc[p] \in Call /\ e \in EntryIds /\ proc[p].todo = {} /\ Quiet(proc[p]) /\ ent[e] \in Entry
      /\ UNCHANGED <<entries, byVault, closing>>
  BY Zenon DEF OpenedByOther, IInv, TypeOK, CallOK, Quiet, Leased
<1>2. CASE StillOpen(e)
  <2>1. ent' = [ent EXCEPT ![e] = x] /\ proc' = [proc EXCEPT ![p] = c]
    BY <1>1, <1>2, Zenon DEF OpenedByOther
  <2>2. ent[e].state = "open" /\ ~ent[e].draining /\ ~ent[e].auto
    BY <1>1, <1>2 DEF StillOpen, IInv, LeasesOK
  <2>3. /\ x \in Entry /\ x.state = "open" /\ x.user = ent[e].user /\ x.vault = ent[e].vault
        /\ x.refs = ent[e].refs + 1 /\ x.roots = IF TRUE THEN ent[e].roots + 1 ELSE ent[e].roots
        /\ ~x.auto
    BY <1>1, <2>2, AddRefEntry, Zenon
  <2>4. c \in Call /\ c.pc = "lease" /\ c.e = e /\ c.root = TRUE /\ CallOK(c, closing)
    BY <1>1, HoldingCall, Zenon
  <2> HIDE DEF e, x, c
  <2>5. QED
    BY <1>1, <2>1, <2>2, <2>3, <2>4, JoinStep, Zenon
<1>3. CASE ~StillOpen(e)
  BY <1>1, <1>3, LeaveStep, Zenon DEF OpenedByOther
<1>4. QED
  BY <1>2, <1>3

\* The entry of a lease may be borrowed from.
LEMMA Borrowable ==
    ASSUME IInv, NEW p \in Procs, proc[p].pc = "lease", MayBorrow(proc[p].e)
    PROVE  /\ proc[p].e \in EntryIds /\ ent[proc[p].e] \in Entry
           /\ ent[proc[p].e].state = "open" /\ ~ent[proc[p].e].draining /\ ~ent[proc[p].e].auto
<1>1. proc[p].e \in EntryIds
  BY Zenon DEF IInv, CallOK
<1>2. QED
  BY <1>1 DEF IInv, TypeOK, LeasesOK, MayBorrow

\* A request borrows from a session.
LEMMA BorrowKeeps ==
    ASSUME ProcsCount, IInv, NEW p \in Procs, NEW q \in Procs, Borrow(p, q)
    PROVE  IInv'
<1> DEFINE e == proc[p].e  x == AddRef(ent[e], FALSE)  c == Holding(Idle, e, FALSE)
<1>1. /\ e \in EntryIds /\ ent[e] \in Entry /\ ent[e].state = "open" /\ ~ent[e].draining /\ ~ent[e].auto
  BY Borrowable, Zenon DEF Borrow
<1>2. /\ Quiet(proc[q]) /\ ent' = [ent EXCEPT ![e] = x] /\ proc' = [proc EXCEPT ![q] = c]
      /\ UNCHANGED <<entries, byVault, closing>>
  BY Zenon DEF Borrow, Quiet, Leased
<1>3. /\ x \in Entry /\ x.state = "open" /\ x.user = ent[e].user /\ x.vault = ent[e].vault
      /\ x.refs = ent[e].refs + 1 /\ x.roots = IF FALSE THEN ent[e].roots + 1 ELSE ent[e].roots
      /\ ~x.auto
  BY <1>1, AddRefEntry, Zenon
<1>4. Idle.todo = {}
  BY DEF Idle
<1>5. c \in Call /\ c.pc = "lease" /\ c.e = e /\ c.root = FALSE /\ CallOK(c, closing)
  BY <1>1, <1>4, Calls, HoldingCall, ZenonT(60)
<1> HIDE DEF e, x, c
<1>6. QED
  BY <1>1, <1>2, <1>3, <1>5, JoinStep, Zenon

\* A restore reserves the entry of a session.
LEMMA BeginRestoreKeeps ==
    ASSUME ProcsCount, IInv, NEW p \in Procs, NEW q \in Procs, BeginRestore(p, q)
    PROVE  IInv'
<1> DEFINE e == proc[p].e  y == AddRef(ent[e], FALSE)  x == [y EXCEPT !.draining = TRUE]
           b == Holding(Idle, e, FALSE)  c == [b EXCEPT !.pc = "restore"]
<1>1. /\ e \in EntryIds /\ ent[e] \in Entry /\ ent[e].state = "open" /\ ~ent[e].draining /\ ~ent[e].auto
  BY Borrowable, Zenon DEF BeginRestore
<1>2. /\ Quiet(proc[q]) /\ ent' = [ent EXCEPT ![e] = x] /\ proc' = [proc EXCEPT ![q] = c]
      /\ UNCHANGED <<entries, byVault, closing>>
  BY Zenon DEF BeginRestore, Quiet, Leased
<1>3. /\ y \in Entry /\ y.state = "open" /\ y.user = ent[e].user /\ y.vault = ent[e].vault
      /\ y.refs = ent[e].refs + 1 /\ y.roots = IF FALSE THEN ent[e].roots + 1 ELSE ent[e].roots
      /\ ~y.auto
  BY <1>1, AddRefEntry, Zenon
<1>4. Idle.todo = {}
  BY DEF Idle
<1>5. b \in Call /\ b.e = e /\ b.root = FALSE /\ b.todo = {}
  <2>1. b \in Call /\ b.pc = "lease" /\ b.e = e /\ b.root = FALSE /\ CallOK(b, closing)
    BY <1>1, <1>4, Calls, HoldingCall, Zenon
  <2>2. QED
    BY <2>1, Zenon DEF CallOK, Leased
<1> HIDE DEF e, y, b
<1>6. /\ x \in Entry /\ x.state = "open" /\ x.user = ent[e].user /\ x.vault = ent[e].vault
      /\ x.refs = ent[e].refs + 1 /\ x.roots = IF FALSE THEN ent[e].roots + 1 ELSE ent[e].roots
      /\ ~x.auto /\ x.draining
  BY <1>3, Zenon DEF Entry
<1>7. c \in Call /\ c.pc = "restore" /\ c.e = e /\ c.root = FALSE /\ c.todo = {}
  BY <1>5, Zenon DEF Call
<1>8. CallOK(c, closing)
  BY <1>1, <1>7 DEF CallOK, Leased
<1> HIDE DEF x, c
<1>9. QED
  BY <1>1, <1>2, <1>6, <1>7, <1>8, JoinStep, Zenon

\* The opener is done.
LEMMA FinishOpeningKeeps ==
    ASSUME ProcsCount, IInv, NEW p \in Procs, NEW ok \in BOOLEAN, finishOpening(p, ok)
    PROVE  IInv'
<1> DEFINE e == proc[p].e
<1>1. /\ proc[p] \in Call /\ proc[p].pc = "opening" /\ e \in EntryIds /\ proc[p].todo = {}
      /\ ent[e] \in Entry /\ ent[e].state = "opening" /\ UNCHANGED closing /\ closing \in BOOLEAN
  BY Zenon DEF finishOpening, IInv, TypeOK, CallOK, OwnersOK, Leased
<1>2. ent[e].auto => ent[e].draining
  BY <1>1, Zenon DEF IInv, LeasesOK
<1>3. CASE ent[e].draining \/ closing
  <2> DEFINE s == IF ok THEN "open" ELSE "failed"  x == [ent[e] EXCEPT !.state = s]
  <2>1. s \in {"open", "failed"}
    OBVIOUS
  <2>2. /\ ent' = [ent EXCEPT ![e] = x] /\ proc' = [proc EXCEPT ![p] = Closer(e)]
        /\ UNCHANGED <<entries, byVault>>
    BY <1>1, <1>3, Zenon DEF finishOpening, IInv, TypeOK, Closer
  <2> HIDE DEF s
  <2>3. /\ x \in Entry /\ x.state \in {"open", "failed"} /\ x.user = ent[e].user /\ x.vault = ent[e].vault
        /\ x.refs = ent[e].refs /\ x.roots = ent[e].roots /\ x.draining = ent[e].draining /\ x.auto = ent[e].auto
    BY <1>1, <2>1, Zenon DEF Entry, EntryStates
  <2> HIDE DEF x, e
  <2>4. /\ Closer(e) \in Call /\ Quiet(Closer(e)) /\ CallOK(Closer(e), closing)
    BY <1>1, Calls, Zenon
  <2>5. /\ proc' \in [Procs -> Call] /\ proc'[p] = Closer(e) /\ \A q \in Procs \ {p} : proc'[q] = proc[q]
        /\ ent' \in [EntryIds -> Entry] /\ ent'[e] = x /\ \A f \in EntryIds \ {e} : ent'[f] = ent[f]
    BY <1>1, <2>2, <2>3, <2>4, Zenon DEF IInv, TypeOK
  <2>6. /\ SameEntry(e) /\ ent'[e].state \in {"open", "failed"}
        /\ ent'[e].refs = ent[e].refs /\ ent'[e].roots = ent[e].roots /\ (ent'[e].auto => ent'[e].draining)
        /\ Quiet(proc'[p]) /\ CallOK(proc'[p], closing)
    BY <1>2, <2>3, <2>4, <2>5, Zenon DEF SameEntry
  <2>7. proc[p].e = e
    BY DEF e
  <2>8. QED
    BY <1>1, <2>2, <2>5, <2>6, <2>7, OpenedStep, Zenon
<1>4. CASE ~(ent[e].draining \/ closing) /\ ok
  <2> DEFINE y == [ent[e] EXCEPT !.state = "open"]  x == AddRef(y, TRUE)  c == Holding(proc[p], e, TRUE)
  <2>1. /\ ent' = [ent EXCEPT ![e] = x] /\ proc' = [proc EXCEPT ![p] = c] /\ UNCHANGED <<entries, byVault>>
    BY <1>1, <1>4, Zenon DEF finishOpening
  <2>2. /\ y \in Entry /\ y.state = "open" /\ y.user = ent[e].user /\ y.vault = ent[e].vault
        /\ y.refs = ent[e].refs /\ y.roots = ent[e].roots /\ y.draining = ent[e].draining /\ y.auto = ent[e].auto
    BY <1>1, Zenon DEF Entry, EntryStates
  <2> HIDE DEF y
  <2>3. /\ x \in Entry /\ x.state = "open" /\ x.user = ent[e].user /\ x.vault = ent[e].vault
        /\ x.refs = ent[e].refs + 1 /\ x.roots = (IF TRUE THEN ent[e].roots + 1 ELSE ent[e].roots)
        /\ x.draining = ent[e].draining /\ x.auto = ent[e].auto
    <3>1. /\ x \in Entry /\ x.state = y.state /\ x.user = y.user /\ x.vault = y.vault
          /\ x.refs = y.refs + 1 /\ x.roots = (IF TRUE THEN y.roots + 1 ELSE y.roots)
          /\ x.draining = y.draining /\ x.auto = y.auto
      BY <2>2, AddRefEntry, Zenon
    <3>2. QED
      BY <2>2, <3>1, Zenon
  <2>4. c \in Call /\ c.pc = "lease" /\ c.e = e /\ c.root = TRUE /\ CallOK(c, closing)
    BY <1>1, HoldingCall, ZenonT(60)
  <2> HIDE DEF x, c, e
  <2>5. /\ proc' \in [Procs -> Call] /\ proc'[p] = c /\ \A q \in Procs \ {p} : proc'[q] = proc[q]
        /\ ent' \in [EntryIds -> Entry] /\ ent'[e] = x /\ \A f \in EntryIds \ {e} : ent'[f] = ent[f]
    BY <1>1, <2>1, <2>3, <2>4, Zenon DEF IInv, TypeOK
  <2>6. \A q \in Procs \ {p} : Alike(proc[q], proc'[q])
    BY <2>5, Zenon DEF Alike
  <2>7. /\ SameEntry(e) /\ ent'[e].state = "open" /\ ent'[e].refs = ent[e].refs + 1
        /\ ent'[e].roots = (IF proc'[p].root THEN ent[e].roots + 1 ELSE ent[e].roots)
        /\ (ent'[e].auto => ent'[e].draining) /\ (ent[e].draining => ent[e].auto)
        /\ proc'[p].e = e /\ proc'[p].pc = "lease" /\ CallOK(proc'[p], closing)
    BY <1>2, <1>4, <2>3, <2>4, <2>5, Zenon DEF SameEntry
  <2>8. proc[p].e = e
    BY DEF e
  <2>9. QED
    BY <1>1, <2>1, <2>5, <2>6, <2>7, <2>8, GainStep, Zenon DEF Leased
<1>5. CASE ~(ent[e].draining \/ closing) /\ ~ok
  <2>1. ent' = [ent EXCEPT ![e] = Gone] /\ proc' = [proc EXCEPT ![p] = Idle] /\ Unmap(e)
    BY <1>1, <1>5, Zenon DEF finishOpening, OpenFailed, Leave
  <2>2. /\ proc' \in [Procs -> Call] /\ proc'[p] = Idle /\ \A q \in Procs \ {p} : proc'[q] = proc[q]
    BY <1>1, <2>1, Calls, Zenon DEF IInv, TypeOK
  <2>3. Quiet(proc'[p]) /\ CallOK(proc'[p], closing)
    BY <2>2, Calls, Zenon
  <2>4. QED
    BY <1>1, <2>1, <2>2, <2>3, ForgetStep, Zenon
<1>6. QED
  BY <1>3, <1>4, <1>5

\* What a release leaves of the entry.
LEMMA ReleasedEntry ==
    ASSUME NEW x \in Entry, NEW root \in BOOLEAN, x.refs >= 1, root => x.roots >= 1, x.auto => x.draining
    PROVE  LET y == Released(x, root)
           IN /\ y \in Entry /\ y.state = x.state /\ y.user = x.user /\ y.vault = x.vault
              /\ y.refs = x.refs - 1 /\ y.roots = IF root THEN x.roots - 1 ELSE x.roots
              /\ y.auto => y.draining
              /\ x.draining => y.draining /\ y.auto = x.auto
<1> DEFINE n == x.refs - 1  m == IF root THEN x.roots - 1 ELSE x.roots
           z == [x EXCEPT !.refs = n, !.roots = m]
<1>1. n \in Nat /\ m \in Nat
  BY DEF Entry
<1>2. \/ Released(x, root) = z
      \/ ~x.draining /\ Released(x, root) = [z EXCEPT !.draining = TRUE, !.auto = TRUE]
  BY Zenon DEF Released
<1> HIDE DEF n, m
<1>3. /\ z \in Entry /\ z.state = x.state /\ z.user = x.user /\ z.vault = x.vault /\ z.refs = n /\ z.roots = m
      /\ z.draining = x.draining /\ z.auto = x.auto
  BY <1>1, Zenon DEF Entry
<1> HIDE DEF z
<1> DEFINE y == Released(x, root)
<1>4. /\ y \in Entry /\ y.state = x.state /\ y.user = x.user /\ y.vault = x.vault /\ y.refs = n /\ y.roots = m
      /\ y.auto => y.draining
      /\ x.draining => y.draining /\ y.auto = x.auto
  <2>1. CASE y = z
    BY <1>3, <2>1, Zenon
  <2>2. CASE ~x.draining /\ y = [z EXCEPT !.draining = TRUE, !.auto = TRUE]
    BY <1>3, <2>2, Zenon DEF Entry
  <2>3. QED
    BY <1>2, <2>1, <2>2, Zenon
<1>5. QED
  BY <1>4, Zenon DEF n, m

\* A lease or a restore is released.
LEMMA ReleaseKeeps ==
    ASSUME ProcsCount, IInv, NEW p \in Procs, Release(p)
    PROVE  IInv'
<1> DEFINE e == proc[p].e  x == Released(ent[e], proc[p].root)
           Next1(q) == IF x.refs = 0 /\ proc[q].e = e /\ proc[q].pc = "waitIdle"
                       THEN [proc[q] EXCEPT !.pc = "idled"] ELSE proc[q]
           mine == IF x.refs = 0 /\ x.draining THEN Closer(e) ELSE Idle
<1>1. /\ proc[p].pc \in Leased /\ proc[p] \in Call /\ e \in EntryIds /\ ent[e] \in Entry
      /\ proc[p].root \in BOOLEAN /\ UNCHANGED <<entries, byVault, closing>>
  <2>1. proc[p].pc \in Leased /\ UNCHANGED <<entries, byVault, closing>>
    BY Zenon DEF Release, Leased
  <2>2. proc[p].pc \notin {"idle", "acquire"}
    BY <2>1 DEF Leased
  <2>3. proc[p] \in Call /\ e \in EntryIds /\ ent[e] \in Entry
    BY <2>2, Zenon DEF IInv, TypeOK, CallOK
  <2>4. QED
    BY <2>1, <2>3, Zenon DEF Call
<1>2. ent[e].refs >= 1 /\ (proc[p].root => ent[e].roots >= 1) /\ (ent[e].auto => ent[e].draining)
  BY <1>1, LeaseCounted, Zenon DEF IInv, LeasesOK
<1>3. /\ x \in Entry /\ x.state = ent[e].state /\ x.user = ent[e].user /\ x.vault = ent[e].vault
      /\ x.refs = ent[e].refs - 1 /\ x.roots = IF proc[p].root THEN ent[e].roots - 1 ELSE ent[e].roots
      /\ x.auto => x.draining
      /\ ent[e].draining => x.draining /\ x.auto = ent[e].auto
  BY <1>1, <1>2, ReleasedEntry, Zenon
<1>4. ent' = [ent EXCEPT ![e] = x] /\ proc' = [q \in Procs |-> IF q = p THEN mine ELSE Next1(q)]
  BY Zenon DEF Release, Closer
<1> HIDE DEF x
<1>5. mine \in Call /\ Quiet(mine) /\ CallOK(mine, closing)
  BY <1>1, Calls, Zenon
<1>6. ASSUME NEW q \in Procs PROVE Next1(q) \in Call /\ Alike(proc[q], Next1(q))
  <2>1. proc[q] \in Call
    BY DEF IInv, TypeOK
  <2>2. \/ Next1(q) = proc[q]
        \/ proc[q].pc = "waitIdle" /\ Next1(q) = [proc[q] EXCEPT !.pc = "idled"]
    BY Zenon
  <2> HIDE DEF Next1
  <2>3. QED
    BY <2>1, <2>2, ZenonT(60) DEF Call, Alike
<1> HIDE DEF mine, Next1, e
<1>7. /\ proc' \in [Procs -> Call] /\ proc'[p] = mine /\ \A q \in Procs \ {p} : Alike(proc[q], proc'[q])
  BY <1>4, <1>5, <1>6, Zenon
<1>8. /\ ent' \in [EntryIds -> Entry] /\ ent'[e] = x /\ \A f \in EntryIds \ {e} : ent'[f] = ent[f]
  BY <1>1, <1>3, <1>4 DEF IInv, TypeOK
<1>9. /\ SameEntry(e) /\ ent'[e].state = ent[e].state /\ ent'[e].refs = ent[e].refs - 1
      /\ ent'[e].roots = IF proc[p].root THEN ent[e].roots - 1 ELSE ent[e].roots
      /\ ent'[e].auto => ent'[e].draining
      /\ ent[e].draining => ent'[e].draining /\ ent'[e].auto = ent[e].auto
      /\ Quiet(proc'[p]) /\ CallOK(proc'[p], closing)
  BY <1>3, <1>5, <1>7, <1>8, Zenon DEF SameEntry
<1>10. proc[p].e = e
  BY DEF e
<1>11. QED
  BY <1>1, <1>7, <1>9, <1>10, LoseStep, Zenon

\* An entry in the table of users is in use.
LEMMA MappedLive ==
    ASSUME IInv, NEW e \in EntryIds
    PROVE  Mapped(e) => Live(e)
<1>1. e # 0
  BY DEF EntryIds
<1>2. QED
  BY <1>1, ZenonT(60) DEF IInv, TablesOK, Mapped

\* A drained entry keeps its type.
LEMMA DrainedEntry ==
    ASSUME NEW x \in Entry
    PROVE  Drained(x) \in Entry
BY Zenon DEF Entry, Drained

\* A user is drained.
LEMMA BeginUserDrainKeeps ==
    ASSUME IInv, NEW p \in Procs, NEW u \in Users, BeginUserDrain(p, u)
    PROVE  IInv'
<1> DEFINE e == entries[u]
<1>1. /\ e \in EntryIds /\ Live(e) /\ ent[e] \in Entry /\ Quiet(proc[p]) /\ closing \in BOOLEAN
      /\ UNCHANGED <<entries, byVault, closing>>
  <2>1. e \in EntryIds \cup {0} /\ e # 0
    BY Zenon DEF BeginUserDrain, IInv, TypeOK
  <2>2. QED
    BY <2>1, Zenon DEF BeginUserDrain, IInv, TypeOK, TablesOK, Quiet, Leased
<1>2. ent' = [ent EXCEPT ![e] = Drained(ent[e])] /\ proc' = [proc EXCEPT ![p] = Drainer(e, {e})]
  BY Zenon DEF BeginUserDrain, Drainer
<1>3. {e} \in SUBSET EntryIds
  BY <1>1
<1>4. Drainer(e, {e}) \in Call /\ Quiet(Drainer(e, {e})) /\ CallOK(Drainer(e, {e}), closing)
  BY <1>1, <1>3, Calls, Zenon
<1> HIDE DEF e
<1>5. /\ proc' \in [Procs -> Call] /\ proc'[p] = Drainer(e, {e}) /\ \A q \in Procs \ {p} : proc'[q] = proc[q]
  BY <1>2, <1>4 DEF IInv, TypeOK
<1>6. /\ ent' \in [EntryIds -> Entry]
      /\ \A f \in EntryIds : ent'[f] = ent[f] \/ (Live(f) /\ ent'[f] = Drained(ent[f]))
  BY <1>1, <1>2, DrainedEntry DEF IInv, TypeOK
<1>7. Quiet(proc'[p]) /\ CallOK(proc'[p], closing')
  BY <1>1, <1>4, <1>5, Zenon
<1>8. QED
  BY <1>1, <1>5, <1>6, <1>7, DrainStep, Zenon

\* The server shuts down.
LEMMA CloseKeeps ==
    ASSUME IInv, NEW p \in Procs, Close(p)
    PROVE  IInv'
<1> DEFINE all == {e \in EntryIds : Mapped(e)}
<1>1. /\ Quiet(proc[p]) /\ proc[p].pc = "idle" /\ closing' = TRUE /\ UNCHANGED <<entries, byVault>>
      /\ ent' = [e \in EntryIds |-> IF e \in all THEN Drained(ent[e]) ELSE ent[e]]
  BY Zenon DEF Close, Quiet, Leased
<1>2. /\ ent' \in [EntryIds -> Entry]
      /\ \A f \in EntryIds : ent'[f] = ent[f] \/ (Live(f) /\ ent'[f] = Drained(ent[f]))
  BY <1>1, DrainedEntry, MappedLive, Zenon DEF IInv, TypeOK
<1>3. PICK c \in Call : proc' = [proc EXCEPT ![p] = c] /\ Quiet(c) /\ CallOK(c, TRUE)
  <2>1. CASE UNCHANGED proc
    <3>1. proc[p] \in Call /\ proc' = [proc EXCEPT ![p] = proc[p]]
      BY <2>1 DEF IInv, TypeOK
    <3>2. CallOK(proc[p], TRUE)
      BY Zenon DEF IInv, CallOK
    <3>3. QED
      BY <1>1, <3>1, <3>2, Zenon
  <2>2. ASSUME NEW e \in all, proc' = [proc EXCEPT ![p] = Drainer(e, all)]
        PROVE  \E c \in Call : proc' = [proc EXCEPT ![p] = c] /\ Quiet(c) /\ CallOK(c, TRUE)
    <3>1. e \in EntryIds /\ all \in SUBSET EntryIds /\ TRUE \in BOOLEAN
      OBVIOUS
    <3> HIDE DEF all
    <3>2. Drainer(e, all) \in Call /\ Quiet(Drainer(e, all)) /\ CallOK(Drainer(e, all), TRUE)
      BY <3>1, Calls, Zenon
    <3>3. QED
      BY <2>2, <3>2, Zenon
  <2>3. UNCHANGED proc \/ \E e \in all : proc' = [proc EXCEPT ![p] = Drainer(e, all)]
    BY Zenon DEF Close, Drainer
  <2>4. QED
    BY <2>1, <2>2, <2>3, Zenon
<1>4. /\ proc' \in [Procs -> Call] /\ proc'[p] = c /\ \A q \in Procs \ {p} : proc'[q] = proc[q]
  BY <1>3 DEF IInv, TypeOK
<1>5. /\ Quiet(proc'[p]) /\ CallOK(proc'[p], closing') /\ closing' \in BOOLEAN /\ (closing => closing')
  BY <1>1, <1>3, <1>4, Zenon
<1>6. QED
  BY <1>1, <1>2, <1>4, <1>5, DrainStep, Zenon

\* A call that closes an entry has it in hand.
LEMMA ClosingCall ==
    ASSUME IInv, NEW p \in Procs,
           proc[p].pc \in {"close", "waitOpened", "waitClosed", "waitIdle", "idled", "drained", "closing"}
    PROVE  proc[p] \in Call /\ proc[p].e \in EntryIds /\ ent[proc[p].e] \in Entry /\ CallOK(proc[p], closing)
           /\ (proc[p].pc # "closing" => Quiet(proc[p]))
<1>1. proc[p].pc \notin {"idle", "acquire"} /\ (proc[p].pc # "closing" => Quiet(proc[p]))
  BY DEF Quiet, Leased
<1>2. QED
  BY <1>1, Zenon DEF IInv, TypeOK, CallOK

\* The steps of closeEntry before it commits.
LEMMA CloseEntryKeeps ==
    ASSUME IInv, NEW p \in Procs, CloseEntry(p) \/ CloseWaits(p) \/ CloseReads(p)
    PROVE  IInv'
<1>1. CASE CloseEntry(p)
  <2> DEFINE pc == CASE ent[proc[p].e].state = "opening" -> "waitOpened"
                     [] ent[proc[p].e].state = "closing" -> "waitClosed"
                     [] OTHER -> IF ent[proc[p].e].refs = 0 THEN "idled" ELSE "waitIdle"
  <2>1. proc[p].pc = "close" /\ (Return(p) \/ Goto(p, pc)) /\ UNCHANGED <<entries, byVault, ent, closing>>
    BY <1>1, Zenon DEF CloseEntry
  <2>2. pc \in {"close", "waitOpened", "waitClosed", "waitIdle", "idled", "drained"}
    OBVIOUS
  <2> HIDE DEF pc
  <2>3. QED
    BY <2>1, <2>2, ClosingCall, ReturnStep, MoveStep, Zenon
<1>2. CASE CloseWaits(p)
  <2>1. /\ proc[p].pc \in {"waitOpened", "waitClosed"} /\ (Return(p) \/ Goto(p, "close"))
        /\ UNCHANGED <<entries, byVault, ent, closing>>
    BY <1>2, Zenon DEF CloseWaits
  <2>2. QED
    BY <2>1, ClosingCall, ReturnStep, MoveStep, Zenon
<1>3. CASE CloseReads(p)
  <2> DEFINE a == ent[proc[p].e].auto /\ ent[proc[p].e].refs = 0 /\ ent[proc[p].e].state # "closing"
             c == [proc[p] EXCEPT !.pc = "drained", !.fresh = TRUE, !.auto = a]
  <2>1. /\ proc[p].pc = "idled" /\ proc' = [proc EXCEPT ![p] = c] /\ UNCHANGED <<entries, byVault, ent, closing>>
    BY <1>3, Zenon DEF CloseReads
  <2>2. a \in BOOLEAN
    OBVIOUS
  <2> HIDE DEF a
  <2>3. proc[p] \in Call /\ CallOK(proc[p], closing) /\ Quiet(proc[p])
    BY <2>1, ClosingCall, Zenon
  <2>4. c \in Call /\ c.pc = "drained" /\ c.e = proc[p].e /\ c.todo = proc[p].todo
    BY <2>2, <2>3, Zenon DEF Call
  <2> HIDE DEF c
  <2>5. Quiet(c) /\ CallOK(c, closing)
    BY <2>1, <2>3, <2>4, Zenon DEF Quiet, CallOK, Leased
  <2>6. QED
    BY <2>1, <2>3, <2>4, <2>5, QuietStep, Zenon
<1>4. QED
  BY <1>1, <1>2, <1>3

\* The last check before the instance is taken away.
LEMMA CloseCommitsKeeps ==
    ASSUME ProcsCount, IInv, NEW p \in Procs, CloseCommits(p)
    PROVE  IInv'
<1> DEFINE e == proc[p].e
<1>1. proc[p].pc = "drained" /\ UNCHANGED <<entries, byVault, closing>>
  BY Zenon DEF CloseCommits
<1>2. proc[p] \in Call /\ e \in EntryIds /\ ent[e] \in Entry /\ CallOK(proc[p], closing) /\ Quiet(proc[p])
  BY <1>1, ClosingCall, Zenon
<1>3. CASE (Return(p) \/ Goto(p, "close")) /\ UNCHANGED ent
  BY <1>1, <1>2, <1>3, ReturnStep, MoveStep, Zenon
<1>4. CASE MayClose(e) /\ Goto(p, "closing") /\ ent' = [ent EXCEPT ![e].state = "closing"]
  <2> DEFINE c == [proc[p] EXCEPT !.pc = "closing"]  x == [ent[e] EXCEPT !.state = "closing"]
  <2>1. ent[e].state \in {"open", "failed"} /\ ent[e].refs = 0 /\ (ent[e].auto => ent[e].draining)
    BY <1>2, <1>4, Zenon DEF MayClose, IInv, LeasesOK
  <2>2. proc' = [proc EXCEPT ![p] = c] /\ ent' = [ent EXCEPT ![e] = x]
    BY <1>2, <1>4, Zenon DEF Goto, IInv, TypeOK
  <2>3. c \in Call /\ c.pc = "closing" /\ c.e = e /\ c.todo = proc[p].todo
    BY <1>2, Zenon DEF Call
  <2>4. /\ x \in Entry /\ x.state = "closing" /\ x.user = ent[e].user /\ x.vault = ent[e].vault
        /\ x.refs = ent[e].refs /\ x.roots = ent[e].roots /\ x.draining = ent[e].draining /\ x.auto = ent[e].auto
    BY <1>2, Zenon DEF Entry, EntryStates
  <2> HIDE DEF c, x
  <2>5. CallOK(c, closing)
    BY <1>1, <1>2, <2>3, Zenon DEF CallOK, Leased
  <2>6. /\ proc' \in [Procs -> Call] /\ proc'[p] = c /\ \A q \in Procs \ {p} : proc'[q] = proc[q]
        /\ ent' \in [EntryIds -> Entry] /\ ent'[e] = x /\ \A f \in EntryIds \ {e} : ent'[f] = ent[f]
    BY <1>2, <2>2, <2>3, <2>4, Zenon DEF IInv, TypeOK
  <2>7. /\ SameEntry(e) /\ ent'[e].state = "closing"
        /\ ent'[e].refs = ent[e].refs /\ ent'[e].roots = ent[e].roots /\ (ent'[e].auto => ent'[e].draining)
        /\ proc'[p].pc = "closing" /\ proc'[p].e = e /\ CallOK(proc'[p], closing)
    BY <2>1, <2>3, <2>4, <2>5, <2>6, Zenon DEF SameEntry
  <2> HIDE DEF e
  <2>8. QED
    BY <1>1, <1>2, <2>1, <2>6, <2>7, ClosingStep, Zenon
<1>5. QED
  BY <1>3, <1>4, Zenon DEF CloseCommits

\* The instance is closed.
LEMMA CloseDoneKeeps ==
    ASSUME ProcsCount, IInv, NEW p \in Procs, CloseDone(p)
    PROVE  IInv'
<1> DEFINE e == proc[p].e
<1>1. /\ proc[p].pc = "closing" /\ ent' = [ent EXCEPT ![e] = Gone] /\ Unmap(e) /\ Return(p) /\ UNCHANGED closing
  BY Zenon DEF CloseDone
<1>2. e \in EntryIds
  BY <1>1, ClosingCall, Zenon
<1>3. PICK c \in Call : proc' = [proc EXCEPT ![p] = c] /\ Quiet(c) /\ CallOK(c, closing)
  BY <1>1, <1>2, ReturnCall, Zenon
<1>4. /\ proc' \in [Procs -> Call] /\ proc'[p] = c /\ \A q \in Procs \ {p} : proc'[q] = proc[q]
  BY <1>3 DEF IInv, TypeOK
<1>5. Quiet(proc'[p]) /\ CallOK(proc'[p], closing)
  BY <1>3, <1>4, Zenon
<1>6. proc[p].pc \in {"opening", "closing"}
  BY <1>1
<1>7. QED
  BY <1>1, <1>2, <1>4, <1>5, <1>6, ForgetStep, Zenon

\* A request is cancelled.
LEMMA CancelKeeps ==
    ASSUME IInv, NEW p \in Procs, Cancel(p)
    PROVE  IInv'
<1>1. Quiet(proc[p]) /\ Leave(p) /\ UNCHANGED <<entries, byVault, ent, closing>>
  BY Zenon DEF Cancel, Quiet, Leased
<1>2. QED
  BY <1>1, LeaveStep

\* Every step keeps the invariant.
LEMMA StepKeeps ==
    ASSUME ProcsCount, EntryLeft, IInv, [Next]_vars
    PROVE  IInv'
<1>1. CASE UNCHANGED vars
  BY <1>1, ZenonT(60) DEF vars, IInv, TypeOK, TablesOK, CountsOK, LeasesOK, OwnersOK, Live
<1>2. CASE Next
  <2>1. PICK p \in Procs :
            \/ \E u \in Users, v \in Vaults, k \in Keys : StartAcquire(p, u, v, k)
            \/ \E q \in Procs : Borrow(p, q) \/ BeginRestore(p, q)
            \/ \E u \in Users : BeginUserDrain(p, u)
            \/ Progress(p) \/ Release(p) \/ Close(p) \/ Cancel(p)
    BY <1>2, Zenon DEF Next
  <2>2. CASE \E u \in Users, v \in Vaults, k \in Keys : StartAcquire(p, u, v, k)
    BY <2>2, StartAcquireKeeps, Zenon
  <2>3. CASE \E q \in Procs : Borrow(p, q) \/ BeginRestore(p, q)
    BY <2>3, BorrowKeeps, BeginRestoreKeeps, Zenon
  <2>4. CASE \E u \in Users : BeginUserDrain(p, u)
    BY <2>4, BeginUserDrainKeeps, Zenon
  <2>5. CASE Progress(p)
    BY <2>5, AcquireKeeps, RetiredGoneKeeps, OpenedByOtherKeeps, FinishOpeningKeeps, RestoreStep,
       CloseEntryKeeps, CloseCommitsKeeps, CloseDoneKeeps, Zenon DEF Progress
  <2>6. CASE Release(p) \/ Close(p) \/ Cancel(p)
    BY <2>6, ReleaseKeeps, CloseKeeps, CancelKeeps, Zenon
  <2>7. QED
    BY <2>1, <2>2, <2>3, <2>4, <2>5, <2>6, Zenon
<1>3. QED
  BY <1>1, <1>2
=============================================================================
