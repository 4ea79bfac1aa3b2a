------------------------ MODULE NPMDataPlane_proofs ------------------------
(***************************************************************************)
(* The network policy manager's IPSetManager and the threads of its data   *)
(* plane, for every set of names, IPs, pods and policies, every mode and   *)
(* every number of tries, failures and faults.                             *)
(*                                                                         *)
(* The manager.  Its maps and counts are right (NTypeOK, DirtyRight,       *)
(* CountsExact) and, when all sets belong in the kernel and no restore     *)
(* breaks off midway, the dirty cache has exactly what the kernel lacks    *)
(* (KernelInSync), so that the kernel refuses no line of a restore.  The   *)
(* theorems are about a control plane that deletes sets with the "soft"    *)
(* option only; a forced delete of a list with members leaves their counts *)
(* behind.  What holds of the cache by itself (Sound) and of each set      *)
(* against the kernel (SyncAt) is kept by every operation on one set, and  *)
(* so by every loop over sets (FoldInduction).  A restore is followed by   *)
(* the lines it has left: at every line, they lead each set from what the  *)
(* kernel has of it to what is cached (Midway), because a set is created   *)
(* before its members are added and destroyed after no list has it any     *)
(* more.                                                                   *)
(*                                                                         *)
(* The threads.  What the policy thread works on is queued until its rules *)
(* are in, a thread is in applyDataPlaneNow only where it waits for it,    *)
(* and the manager's lock is held for a restore by exactly the thread that *)
(* runs it (DTypeOK).  This argument is about control only, so that it     *)
(* holds whatever the operations do to the IP sets.  DTypeOK is not        *)
(* inductive alone: a policy tried by itself leaves the queue, which takes *)
(* none of the ones still to be tried along because it is not among them,  *)
(* and an update puts its policy back, which must still be one.            *)
(*                                                                         *)
(* The two together (RulesHaveSets), for a policy thread by itself.  A set *)
(* that a policy refers to is never to be destroyed or to lose a member,   *)
(* and what the kernel lacks of it is in the dirty cache (Fits), or in the *)
(* lines a restore has left (CoveredAt); restores may break off anywhere.  *)
(* The policy thread adds references only with nothing to destroy, which   *)
(* is what the flag of a failed removal is for (CacheInv), and a policy's  *)
(* rules go in only when nothing is dirty (PolicyInv).                     *)
(***************************************************************************)
EXTENDS NPMDataPlane, FiniteSetTheorems, WellFoundedInduction, TLAPS

-----------------------------------------------------------------------------
(* The manager's maps *)

\* The functions on a part of D with values in V.
Maps(D, V) == UNION {[X -> V] : X \in SUBSET D}

Elements == IPs \cup HashSets

SetRecord ==
    [ipPodKey : Maps(IPs, PodKeys), memberIPSets : SUBSET HashSets, refs : SUBSET References,
     ipsetReferCount : Nat, kernelReferCount : Nat]

Manager ==
    [mode : Modes, setMap : Maps(Sets, SetRecord),
     toCreate : Maps(Sets, Diffs), toUpdate : Maps(Sets, Diffs), toDestroy : Maps(Sets, Diffs)]

\* What a map is.
LEMMA MapFacts ==
    ASSUME NEW D, NEW V, NEW f \in Maps(D, V)
    PROVE  /\ f \in [DOMAIN f -> V] /\ DOMAIN f \in SUBSET D
           /\ \A x \in DOMAIN f : f[x] \in V /\ x \in D
  BY DEF Maps

\* A function on a part of D is a map.
LEMMA MapIs ==
    ASSUME NEW D, NEW V, NEW X \in SUBSET D, NEW f \in [X -> V]
    PROVE  f \in Maps(D, V)
  BY DEF Maps

\* The empty map.
LEMMA EmptyMap ==
    ASSUME NEW D, NEW V
    PROVE  << >> \in Maps(D, V) /\ DOMAIN << >> = {}
<1>1. << >> \in [{} -> V]
  OBVIOUS
<1> QED BY <1>1, MapIs

\* g is f with v for x, and g is f without x.
IsWith(g, f, x, v) == /\ DOMAIN g = DOMAIN f \cup {x} /\ g[x] = v
                      /\ \A y \in DOMAIN f : y # x => g[y] = f[y]
IsWithout(g, f, x) == /\ DOMAIN g = DOMAIN f \ {x}
                      /\ \A y \in DOMAIN f : y # x => g[y] = f[y]

\* A map with one more entry, or another value for one.
LEMMA ExtendedFacts ==
    ASSUME NEW D, NEW V, NEW f \in Maps(D, V), NEW x \in D, NEW v \in V
    PROVE  Extended(f, x, v) \in Maps(D, V) /\ IsWith(Extended(f, x, v), f, x, v)
<1>1. Extended(f, x, v) \in [{x} \cup DOMAIN f -> V] /\ {x} \cup DOMAIN f \in SUBSET D
  BY MapFacts DEF Extended
<1>2. IsWith(Extended(f, x, v), f, x, v)
  BY DEF Extended, IsWith
<1> QED BY <1>1, <1>2, MapIs

\* A map without one entry.
LEMMA WithoutFacts ==
    ASSUME NEW D, NEW V, NEW f \in Maps(D, V), NEW x
    PROVE  Without(f, {x}) \in Maps(D, V) /\ IsWithout(Without(f, {x}), f, x)
<1>1. Without(f, {x}) \in [DOMAIN f \ {x} -> V] /\ DOMAIN f \ {x} \in SUBSET D
  BY MapFacts DEF Without, Restrict
<1>2. IsWithout(Without(f, {x}), f, x)
  BY DEF Without, Restrict, IsWithout
<1> QED BY <1>1, <1>2, MapIs

\* A map with another value for one entry.
LEMMA ExceptFacts ==
    ASSUME NEW D, NEW V, NEW f \in Maps(D, V), NEW x \in DOMAIN f, NEW v \in V
    PROVE  [f EXCEPT ![x] = v] \in Maps(D, V) /\ IsWith([f EXCEPT ![x] = v], f, x, v)
<1>1. [f EXCEPT ![x] = v] \in [DOMAIN f -> V] /\ DOMAIN f \in SUBSET D
  BY MapFacts
<1>2. IsWith([f EXCEPT ![x] = v], f, x, v)
  BY <1>1 DEF IsWith
<1> QED BY <1>1, <1>2, MapIs

-----------------------------------------------------------------------------
(* Loops: Go's range over a map or a slice, as FoldSet takes it *)

Ch(s) == CHOOSE x \in s : TRUE

(* Every natural number is in a set that has 0 and each successor of its     *)
(* members.                                                                 *)
LEMMA NatIsInductive ==
  ASSUME NEW T, 0 \in T, \A n \in Nat : n \in T => n + 1 \in T
  PROVE  Nat \subseteq T
<1> DEFINE R == Nat \ T
<1>1. SUFFICES ASSUME R # {} PROVE FALSE
  OBVIOUS
<1>2. PICK x \in R : \A y \in R : ~ (<<y, x>> \in OpToRel(<, Nat))
  <2>1. R \subseteq Nat
    OBVIOUS
  <2> HIDE DEF R
  <2> QED BY <1>1, <2>1, NatLessThanWellFounded, WFMin
<1>3. x \in Nat /\ x # 0 /\ x - 1 \in Nat /\ x - 1 < x
  OBVIOUS
<1>4. <<x - 1, x>> \in OpToRel(<, Nat)
  BY <1>3 DEF OpToRel
<1>5. x - 1 \in T
  BY <1>2, <1>3, <1>4
<1>6. (x - 1) + 1 = x
  BY <1>3
<1> QED BY <1>3, <1>5, <1>6

\* f has for every part of S what the loop over it, with the body G, makes of b.
IsFold(f, S, b, G) ==
    \A s \in SUBSET S : f[s] = IF s = {} THEN b ELSE G[<<Ch(s), f[s \ {Ch(s)}]>>]

(* A loop over the elements of a finite set S, which FoldSet writes as a      *)
(* recursion over the parts of S, has a value for every part.                *)
LEMMA FoldExists ==
  ASSUME NEW S, IsFiniteSet(S), NEW M, NEW b \in M, NEW G \in [S \X M -> M]
  PROVE  \E f \in [SUBSET S -> M] : IsFold(f, S, b, G)
<1> DEFINE D(n) == {s \in SUBSET S : Cardinality(s) <= n}
           V(f, s) == IF s = {} THEN b ELSE G[<<Ch(s), f[s \ {Ch(s)}]>>]
           T == {n \in Nat : \E f \in [D(n) -> M] : \A s \in D(n) : f[s] = V(f, s)}
<1>1. \A s \in SUBSET S : IsFiniteSet(s) /\ Cardinality(s) \in Nat /\ Cardinality(s) <= Cardinality(S)
  BY FS_Subset, FS_CardinalityType
<1>2. \A s \in SUBSET S : s # {} => /\ Ch(s) \in s /\ s \ {Ch(s)} \in SUBSET S
                                    /\ Cardinality(s \ {Ch(s)}) = Cardinality(s) - 1
  <2> SUFFICES ASSUME NEW s \in SUBSET S, s # {}
               PROVE  Ch(s) \in s /\ Cardinality(s \ {Ch(s)}) = Cardinality(s) - 1
    OBVIOUS
  <2>1. Ch(s) \in s
    BY DEF Ch
  <2> QED BY <1>1, <2>1, FS_RemoveElement
<1>3. 0 \in T
  <2> DEFINE f == [s \in D(0) |-> b]
  <2>1. \A s \in D(0) : s = {}
    BY <1>1, FS_EmptySet
  <2>2. f \in [D(0) -> M] /\ \A s \in D(0) : f[s] = V(f, s)
    BY <2>1
  <2> HIDE DEF D, V, f
  <2> QED BY <2>2
<1>4. ASSUME NEW n \in Nat, n \in T PROVE n + 1 \in T
  <2>1. PICK g \in [D(n) -> M] : \A s \in D(n) : g[s] = V(g, s)
    BY <1>4
  <2> DEFINE f == [s \in D(n + 1) |-> V(g, s)]
  <2>2. \A s \in D(n + 1) : s # {} => Ch(s) \in S /\ s \ {Ch(s)} \in D(n)
    BY <1>1, <1>2
  <2>3. f \in [D(n + 1) -> M]
    BY <2>1, <2>2
  <2>4. \A s \in D(n) : s \in D(n + 1)
    BY <1>1
  <2>5. \A s \in D(n) : f[s] = g[s]
    BY <2>1, <2>4
  <2>6. \A s \in D(n + 1) : f[s] = V(f, s)
    BY <2>2, <2>5
  <2> HIDE DEF D, V, f
  <2> QED BY <2>3, <2>6
<1>5. Cardinality(S) \in T
  <2>1. Nat \subseteq T
    <3> HIDE DEF T
    <3> QED BY <1>3, <1>4, NatIsInductive
  <2> QED BY <1>1, <2>1
<1>6. D(Cardinality(S)) = SUBSET S
  BY <1>1
<1> QED BY <1>5, <1>6 DEF IsFold

(* What holds before the loop and is kept by a round holds after the loop;   *)
(* J[s] is what holds once the elements of s are done.                       *)
LEMMA FoldInduction ==
  ASSUME NEW S, IsFiniteSet(S), NEW f, NEW J,
         f[{}] \in J[{}],
         \A s \in SUBSET S : \A x \in S \ s : f[s] \in J[s] /\ x = Ch(s \cup {x}) => f[s \cup {x}] \in J[s \cup {x}]
  PROVE  f[S] \in J[S]
<1> DEFINE T == {n \in Nat : \A s \in SUBSET S : Cardinality(s) = n => f[s] \in J[s]}
<1>1. \A s \in SUBSET S : IsFiniteSet(s) /\ Cardinality(s) \in Nat
  BY FS_Subset, FS_CardinalityType
<1>2. 0 \in T
  BY <1>1, FS_EmptySet
<1>3. ASSUME NEW n \in Nat, n \in T PROVE n + 1 \in T
  <2> SUFFICES ASSUME NEW s \in SUBSET S, Cardinality(s) = n + 1 PROVE f[s] \in J[s]
    <3>1. n + 1 \in Nat
      OBVIOUS
    <3> QED BY <3>1
  <2>1. s # {}
    BY FS_EmptySet
  <2>2. Ch(s) \in s
    BY <2>1 DEF Ch
  <2> DEFINE x == Ch(s)
             r == s \ {x}
  <2>3. r \in SUBSET S /\ x \in S \ r /\ r \cup {x} = s
    BY <2>2
  <2>4. Cardinality(r) = n
    <3>1. IsFiniteSet(s)
      BY <1>1
    <3>2. Cardinality(s \ {Ch(s)}) = Cardinality(s) - 1
      BY <2>2, <3>1, FS_RemoveElement
    <3> QED BY <3>2
  <2>5. f[r] \in J[r]
    BY <1>3, <2>3, <2>4
  <2>6. x = Ch(r \cup {x})
    BY <2>3
  <2> HIDE DEF x, r
  <2>7. f[r \cup {x}] \in J[r \cup {x}]
    BY <2>3, <2>5, <2>6
  <2> QED BY <2>3, <2>7
<1>4. Nat \subseteq T
  <2> HIDE DEF T
  <2> QED BY <1>2, <1>3, NatIsInductive
<1> QED BY <1>1, <1>4

-----------------------------------------------------------------------------
(* What the operators do to the entries of one set *)

SameAt(f, g, t) == /\ t \in DOMAIN f <=> t \in DOMAIN g
                   /\ t \in DOMAIN f => g[t] = f[t]

SameDirty(m, r, t) == /\ SameAt(m.toCreate, r.toCreate, t)
                      /\ SameAt(m.toUpdate, r.toUpdate, t)
                      /\ SameAt(m.toDestroy, r.toDestroy, t)

\* r is m but for what the dirty cache has of s.
DirtyChange(m, r, s) ==
    /\ r \in Manager
    /\ r.mode = m.mode /\ r.setMap = m.setMap
    /\ \A t \in Sets \ {s} : SameDirty(m, r, t)

Creates(m, s, d) == /\ s \in DOMAIN m.toCreate /\ m.toCreate[s] = d
                    /\ s \notin DOMAIN m.toUpdate /\ s \notin DOMAIN m.toDestroy
Updates(m, s, d) == /\ s \in DOMAIN m.toUpdate /\ m.toUpdate[s] = d
                    /\ s \notin DOMAIN m.toCreate /\ s \notin DOMAIN m.toDestroy
Destroys(m, s, d) == /\ s \in DOMAIN m.toDestroy /\ m.toDestroy[s] = d
                     /\ s \notin DOMAIN m.toCreate /\ s \notin DOMAIN m.toUpdate
Clean(m, s) == s \notin Dirty(m)

\* A set is in one map of the dirty cache at most.
InOneMap(m, s) == /\ ~(s \in DOMAIN m.toCreate /\ s \in DOMAIN m.toUpdate)
                  /\ s \in toAddOrUpdate(m) => s \notin DOMAIN m.toDestroy

\* The parts of a manager.
LEMMA ManagerFacts ==
    ASSUME NEW m \in Manager
    PROVE  /\ m.mode \in Modes /\ m.setMap \in Maps(Sets, SetRecord)
           /\ m.toCreate \in Maps(Sets, Diffs) /\ m.toUpdate \in Maps(Sets, Diffs)
           /\ m.toDestroy \in Maps(Sets, Diffs)
           /\ m = [mode |-> m.mode, setMap |-> m.setMap, toCreate |-> m.toCreate,
                   toUpdate |-> m.toUpdate, toDestroy |-> m.toDestroy]
  BY DEF Manager

\* The parts of a cached set.
LEMMA SetFacts ==
    ASSUME NEW m \in Manager, NEW s \in DOMAIN m.setMap
    PROVE  /\ s \in Sets /\ m.setMap[s] \in SetRecord
           /\ m.setMap[s].ipPodKey \in Maps(IPs, PodKeys)
           /\ m.setMap[s].memberIPSets \in SUBSET HashSets
           /\ m.setMap[s].refs \in SUBSET References
           /\ m.setMap[s].ipsetReferCount \in Nat /\ m.setMap[s].kernelReferCount \in Nat
           /\ Members(m, s) \in SUBSET Elements
           /\ s \in HashSets => Members(m, s) \in SUBSET IPs
           /\ s \notin HashSets => Members(m, s) \in SUBSET HashSets
<1>1. s \in Sets /\ m.setMap[s] \in SetRecord
  BY ManagerFacts, MapFacts
<1>2. /\ m.setMap[s].ipPodKey \in Maps(IPs, PodKeys)
      /\ m.setMap[s].memberIPSets \in SUBSET HashSets
      /\ m.setMap[s].refs \in SUBSET References
      /\ m.setMap[s].ipsetReferCount \in Nat /\ m.setMap[s].kernelReferCount \in Nat
  BY <1>1 DEF SetRecord
<1>3. DOMAIN m.setMap[s].ipPodKey \in SUBSET IPs
  BY <1>2, MapFacts
<1> QED BY <1>1, <1>2, <1>3 DEF Members, Elements

\* The entries of the dirty cache.
LEMMA DiffFacts ==
    ASSUME NEW m \in Manager, NEW s
    PROVE  /\ s \in DOMAIN m.toCreate => s \in Sets /\ m.toCreate[s] \in Diffs
           /\ s \in DOMAIN m.toUpdate => s \in Sets /\ m.toUpdate[s] \in Diffs
           /\ s \in DOMAIN m.toDestroy => s \in Sets /\ m.toDestroy[s] \in Diffs
           /\ memberDiff(m, s) \in Diffs
<1>1. /\ s \in DOMAIN m.toCreate => s \in Sets /\ m.toCreate[s] \in Diffs
      /\ s \in DOMAIN m.toUpdate => s \in Sets /\ m.toUpdate[s] \in Diffs
      /\ s \in DOMAIN m.toDestroy => s \in Sets /\ m.toDestroy[s] \in Diffs
  BY ManagerFacts, MapFacts
<1>2. newMemberDiff \in Diffs
  BY DEF newMemberDiff, Diffs
<1> QED BY <1>1, <1>2 DEF memberDiff

\* r is m with other maps in its dirty cache.
HasMaps(r, m, c, u, d) ==
    /\ r \in Manager /\ r.mode = m.mode /\ r.setMap = m.setMap
    /\ r.toCreate = c /\ r.toUpdate = u /\ r.toDestroy = d

\* The manager with other maps in its dirty cache.
LEMMA DirtyMapsFacts ==
    ASSUME NEW m \in Manager, NEW c \in Maps(Sets, Diffs), NEW u \in Maps(Sets, Diffs),
           NEW d \in Maps(Sets, Diffs), NEW r,
           r = [m EXCEPT !.toCreate = c, !.toUpdate = u, !.toDestroy = d]
    PROVE  HasMaps(r, m, c, u, d)
  BY ManagerFacts DEF Manager, HasMaps

\* A difference with a member added or deleted is one.
LEMMA DiffOpFacts ==
    ASSUME NEW d \in Diffs, NEW x \in Elements
    PROVE  /\ diffAddMember(d, x) \in Diffs /\ diffDeleteMember(d, x) \in Diffs
           /\ diffAddMember(d, x) = IF x \in d.del THEN [add |-> d.add, del |-> d.del \ {x}]
                                    ELSE [add |-> d.add \cup {x}, del |-> d.del]
           /\ diffDeleteMember(d, x) = IF x \in d.add THEN [add |-> d.add \ {x}, del |-> d.del]
                                       ELSE [add |-> d.add, del |-> d.del \cup {x}]
           /\ [add |-> d.add \ {x}, del |-> d.del] \in Diffs
<1>1. d = [add |-> d.add, del |-> d.del] /\ d.add \in SUBSET Elements /\ d.del \in SUBSET Elements
  BY DEF Diffs, Elements
<1>2. /\ diffAddMember(d, x) = IF x \in d.del THEN [add |-> d.add, del |-> d.del \ {x}]
                               ELSE [add |-> d.add \cup {x}, del |-> d.del]
      /\ diffDeleteMember(d, x) = IF x \in d.add THEN [add |-> d.add \ {x}, del |-> d.del]
                                  ELSE [add |-> d.add, del |-> d.del \cup {x}]
  BY <1>1 DEF diffAddMember, diffDeleteMember
<1>3. \A a, b \in SUBSET Elements : [add |-> a, del |-> b] \in Diffs
  BY DEF Diffs, Elements
<1> QED BY <1>1, <1>2, <1>3

\* dirtyCache.create.
LEMMA DirtyCreateFacts ==
    ASSUME NEW m \in Manager, NEW s \in DOMAIN m.setMap
    PROVE  /\ DirtyChange(m, dirtyCreate(m, s), s)
           /\ s \in toAddOrUpdate(m) => dirtyCreate(m, s) = m
           /\ s \notin toAddOrUpdate(m) /\ s \in DOMAIN m.toDestroy =>
                 Updates(dirtyCreate(m, s), s, m.toDestroy[s])
           /\ s \notin Dirty(m) =>
                 Creates(dirtyCreate(m, s), s, diffOnCreate(Members(m, s)))
<1>0. /\ m.toCreate \in Maps(Sets, Diffs) /\ m.toUpdate \in Maps(Sets, Diffs)
      /\ m.toDestroy \in Maps(Sets, Diffs)
  BY ManagerFacts
<1> DEFINE r == dirtyCreate(m, s)
<1>1. CASE s \in toAddOrUpdate(m)
  BY <1>1 DEF dirtyCreate, DirtyChange, SameDirty, SameAt, toAddOrUpdate, Dirty
<1>2. CASE s \notin toAddOrUpdate(m) /\ s \in DOMAIN m.toDestroy
  <2> DEFINE u == Extended(m.toUpdate, s, m.toDestroy[s])
             d == Without(m.toDestroy, {s})
  <2>1. r = [m EXCEPT !.toUpdate = u, !.toDestroy = d]
    BY <1>2 DEF dirtyCreate, toAddOrUpdate
  <2>2. r = [m EXCEPT !.toCreate = m.toCreate, !.toUpdate = u, !.toDestroy = d]
    BY <2>1, ManagerFacts
  <2>3. s \in Sets /\ m.toDestroy[s] \in Diffs
    BY <1>2, DiffFacts
  <2>4. u \in Maps(Sets, Diffs) /\ IsWith(u, m.toUpdate, s, m.toDestroy[s])
    BY <2>3, <1>0, ExtendedFacts
  <2>5. d \in Maps(Sets, Diffs) /\ IsWithout(d, m.toDestroy, s)
    BY <1>0, WithoutFacts
  <2> HIDE DEF u, d, r
  <2>6. HasMaps(r, m, m.toCreate, u, d)
    BY <2>2, <2>4, <2>5, <1>0, DirtyMapsFacts
  <2>7. DirtyChange(m, r, s) /\ Updates(r, s, m.toDestroy[s])
    BY <1>2, <2>4, <2>5, <2>6 
       DEF HasMaps, DirtyChange, SameDirty, SameAt, IsWith, IsWithout, Updates, toAddOrUpdate
  <2> QED BY <1>2, <2>7 DEF r, Dirty
<1>3. CASE s \notin Dirty(m)
  <2> DEFINE c == Extended(m.toCreate, s, diffOnCreate(Members(m, s)))
  <2>1. r = [m EXCEPT !.toCreate = c]
    BY <1>3 DEF dirtyCreate, toAddOrUpdate, Dirty
  <2>2. r = [m EXCEPT !.toCreate = c, !.toUpdate = m.toUpdate, !.toDestroy = m.toDestroy]
    BY <2>1, ManagerFacts
  <2>3. s \in Sets /\ diffOnCreate(Members(m, s)) \in Diffs
    BY SetFacts DEF diffOnCreate, Diffs, Elements
  <2>4. c \in Maps(Sets, Diffs) /\ IsWith(c, m.toCreate, s, diffOnCreate(Members(m, s)))
    BY <2>3, <1>0, ExtendedFacts
  <2> HIDE DEF c, r
  <2>6. HasMaps(r, m, c, m.toUpdate, m.toDestroy)
    BY <2>2, <2>4, <1>0, DirtyMapsFacts
  <2>7. DirtyChange(m, r, s) /\ Creates(r, s, diffOnCreate(Members(m, s)))
    BY <1>3, <2>4, <2>6 
       DEF HasMaps, DirtyChange, SameDirty, SameAt, IsWith, IsWithout, Creates, toAddOrUpdate, Dirty
  <2> QED BY <1>3, <2>7 DEF r, Dirty
<1> QED BY <1>1, <1>2, <1>3 DEF Dirty

\* dirtyCache.addMember.
LEMMA DirtyAddMemberFacts ==
    ASSUME NEW m \in Manager, NEW s \in Sets, InOneMap(m, s), NEW x \in Elements, NEW e,
           e = diffAddMember(memberDiff(m, s), x)
    PROVE  /\ DirtyChange(m, dirtyAddMember(m, s, x), s)
           /\ s \in DOMAIN m.toCreate => Creates(dirtyAddMember(m, s, x), s, e)
           /\ s \notin DOMAIN m.toCreate => Updates(dirtyAddMember(m, s, x), s, e)
<1>0. /\ m.toCreate \in Maps(Sets, Diffs) /\ m.toUpdate \in Maps(Sets, Diffs)
      /\ m.toDestroy \in Maps(Sets, Diffs)
  BY ManagerFacts
<1> DEFINE r == dirtyAddMember(m, s, x)
           d == Without(m.toDestroy, {s})
<1>1. e \in Diffs
  BY DiffFacts, DiffOpFacts
<1>2. d \in Maps(Sets, Diffs) /\ IsWithout(d, m.toDestroy, s)
  BY <1>0, WithoutFacts
<1>3. CASE s \in DOMAIN m.toCreate
  <2> DEFINE c == [m.toCreate EXCEPT ![s] = e]
  <2>1. r = [m EXCEPT !.toCreate[s] = e, !.toDestroy = d]
    BY <1>3 DEF dirtyAddMember
  <2>2. r = [m EXCEPT !.toCreate = c, !.toUpdate = m.toUpdate, !.toDestroy = d]
    <3> HIDE DEF d, r
    <3> QED BY <2>1, ManagerFacts
  <2>3. c \in Maps(Sets, Diffs) /\ IsWith(c, m.toCreate, s, e)
    BY <1>1, <1>3, <1>0, ExceptFacts
  <2> HIDE DEF c, r, d
  <2>4. HasMaps(r, m, c, m.toUpdate, d)
    BY <1>2, <2>2, <2>3, <1>0, DirtyMapsFacts
  <2>5. DirtyChange(m, r, s) /\ Creates(r, s, e)
    BY <1>2, <1>3, <2>3, <2>4 
       DEF HasMaps, DirtyChange, SameDirty, SameAt, IsWith, IsWithout, Creates, InOneMap
  <2> QED BY <1>3, <2>5 DEF r
<1>4. CASE s \notin DOMAIN m.toCreate
  <2> DEFINE u == Extended(m.toUpdate, s, e)
  <2>1. r = [m EXCEPT !.toUpdate = u, !.toDestroy = d]
    BY <1>4 DEF dirtyAddMember
  <2>2. r = [m EXCEPT !.toCreate = m.toCreate, !.toUpdate = u, !.toDestroy = d]
    <3> HIDE DEF d, r, u
    <3> QED BY <2>1, ManagerFacts
  <2>3. u \in Maps(Sets, Diffs) /\ IsWith(u, m.toUpdate, s, e)
    BY <1>1, <1>0, ExtendedFacts
  <2> HIDE DEF u, r, d
  <2>4. HasMaps(r, m, m.toCreate, u, d)
    BY <1>2, <2>2, <2>3, <1>0, DirtyMapsFacts
  <2>5. DirtyChange(m, r, s) /\ Updates(r, s, e)
    BY <1>2, <1>4, <2>3, <2>4 
       DEF HasMaps, DirtyChange, SameDirty, SameAt, IsWith, IsWithout, Updates
  <2> QED BY <1>4, <2>5 DEF r
<1> QED BY <1>3, <1>4

\* dirtyCache.deleteMember.
LEMMA DirtyDeleteMemberFacts ==
    ASSUME NEW m \in Manager, NEW s \in Sets, InOneMap(m, s), s \notin DOMAIN m.toDestroy,
           NEW x \in Elements, NEW e, e = diffDeleteMember(memberDiff(m, s), x)
    PROVE  /\ DirtyChange(m, dirtyDeleteMember(m, s, x), s)
           /\ s \in DOMAIN m.toCreate =>
                 Creates(dirtyDeleteMember(m, s, x), s,
                         [add |-> m.toCreate[s].add \ {x}, del |-> m.toCreate[s].del])
           /\ s \notin DOMAIN m.toCreate => Updates(dirtyDeleteMember(m, s, x), s, e)
<1>0. /\ m.toCreate \in Maps(Sets, Diffs) /\ m.toUpdate \in Maps(Sets, Diffs)
      /\ m.toDestroy \in Maps(Sets, Diffs)
  BY ManagerFacts
<1> DEFINE r == dirtyDeleteMember(m, s, x)
<1>1. e \in Diffs
  BY DiffFacts, DiffOpFacts
<1>3. CASE s \in DOMAIN m.toCreate
  <2> DEFINE g == [add |-> m.toCreate[s].add \ {x}, del |-> m.toCreate[s].del]
             c == [m.toCreate EXCEPT ![s] = g]
  <2>1. m.toCreate[s] \in Diffs /\ g \in Diffs
    BY <1>3, DiffFacts, DiffOpFacts
  <2>2. [m.toCreate EXCEPT ![s].add = m.toCreate[s].add \ {x}] = c
    BY <2>1 DEF Diffs
  <2>3. r = [m EXCEPT !.toCreate[s].add = m.toCreate[s].add \ {x}]
    BY <1>3 DEF dirtyDeleteMember
  <2>4. r = [m EXCEPT !.toCreate = c]
    <3> HIDE DEF c, r, g
    <3> QED BY <2>2, <2>3, ManagerFacts
  <2>5. r = [m EXCEPT !.toCreate = c, !.toUpdate = m.toUpdate, !.toDestroy = m.toDestroy]
    <3> HIDE DEF c, r, g
    <3> QED BY <2>4, ManagerFacts
  <2> HIDE DEF g
  <2>6. c \in Maps(Sets, Diffs) /\ IsWith(c, m.toCreate, s, g)
    BY <1>3, <2>1, <1>0, ExceptFacts
  <2> HIDE DEF c, r
  <2>7. HasMaps(r, m, c, m.toUpdate, m.toDestroy)
    BY <2>5, <2>6, <1>0, DirtyMapsFacts
  <2>8. DirtyChange(m, r, s) /\ Creates(r, s, g)
    BY <1>3, <2>6, <2>7 
       DEF HasMaps, DirtyChange, SameDirty, SameAt, IsWith, IsWithout, Creates, InOneMap
  <2> QED BY <1>3, <2>8 DEF r, g
<1>4. CASE s \notin DOMAIN m.toCreate
  <2> DEFINE u == Extended(m.toUpdate, s, e)
  <2>1. r = [m EXCEPT !.toUpdate = u]
    BY <1>4 DEF dirtyDeleteMember
  <2>2. r = [m EXCEPT !.toCreate = m.toCreate, !.toUpdate = u, !.toDestroy = m.toDestroy]
    <3> HIDE DEF r, u
    <3> QED BY <2>1, ManagerFacts
  <2>3. u \in Maps(Sets, Diffs) /\ IsWith(u, m.toUpdate, s, e)
    BY <1>1, <1>0, ExtendedFacts
  <2> HIDE DEF u, r
  <2>4. HasMaps(r, m, m.toCreate, u, m.toDestroy)
    BY <2>2, <2>3, <1>0, DirtyMapsFacts
  <2>5. DirtyChange(m, r, s) /\ Updates(r, s, e)
    BY <1>4, <2>3, <2>4 
       DEF HasMaps, DirtyChange, SameDirty, SameAt, IsWith, IsWithout, Updates
  <2> QED BY <1>4, <2>5 DEF r
<1> QED BY <1>3, <1>4

\* dirtyCache.destroy.
LEMMA DirtyDestroyFacts ==
    ASSUME NEW m \in Manager, NEW s \in Sets, InOneMap(m, s), NEW X \in SUBSET Elements, NEW e,
           e = diffOnDestroy(memberDiff(m, s), X)
    PROVE  /\ DirtyChange(m, dirtyDestroy(m, s, X), s)
           /\ s \in DOMAIN m.toDestroy => dirtyDestroy(m, s, X) = m
           /\ s \in DOMAIN m.toCreate => Clean(dirtyDestroy(m, s, X), s)
           /\ s \notin DOMAIN m.toCreate \cup DOMAIN m.toDestroy =>
                 Destroys(dirtyDestroy(m, s, X), s, e)
<1>0. /\ m.toCreate \in Maps(Sets, Diffs) /\ m.toUpdate \in Maps(Sets, Diffs)
      /\ m.toDestroy \in Maps(Sets, Diffs)
  BY ManagerFacts
<1> DEFINE r == dirtyDestroy(m, s, X)
           c == Without(m.toCreate, {s})
           u == Without(m.toUpdate, {s})
<1>1. e \in Diffs
  BY DiffFacts DEF diffOnDestroy, Diffs, Elements
<1>2. /\ c \in Maps(Sets, Diffs) /\ IsWithout(c, m.toCreate, s)
      /\ u \in Maps(Sets, Diffs) /\ IsWithout(u, m.toUpdate, s)
  BY <1>0, WithoutFacts
<1>3. CASE s \in DOMAIN m.toDestroy
  BY <1>3 DEF dirtyDestroy, DirtyChange, SameDirty, SameAt, InOneMap, toAddOrUpdate
<1>4. CASE s \notin DOMAIN m.toDestroy /\ s \in DOMAIN m.toCreate
  <2>1. r = [m EXCEPT !.toDestroy = m.toDestroy, !.toCreate = c, !.toUpdate = u]
    BY <1>4 DEF dirtyDestroy
  <2> HIDE DEF c, u, r
  <2>2. r = [m EXCEPT !.toCreate = c, !.toUpdate = u, !.toDestroy = m.toDestroy]
    BY <2>1, ManagerFacts
  <2>3. HasMaps(r, m, c, u, m.toDestroy)
    BY <1>2, <2>2, <1>0, DirtyMapsFacts
  <2>4. DirtyChange(m, r, s) /\ Clean(r, s)
    BY <1>2, <1>4, <2>3 
       DEF HasMaps, DirtyChange, SameDirty, SameAt, IsWith, IsWithout, Clean, Dirty, toAddOrUpdate
  <2> QED BY <1>4, <2>4 DEF r
<1>5. CASE s \notin DOMAIN m.toDestroy /\ s \notin DOMAIN m.toCreate
  <2> DEFINE d == Extended(m.toDestroy, s, e)
  <2>1. r = [m EXCEPT !.toDestroy = d, !.toCreate = c, !.toUpdate = u]
    BY <1>5 DEF dirtyDestroy
  <2>3. d \in Maps(Sets, Diffs) /\ IsWith(d, m.toDestroy, s, e)
    BY <1>1, <1>0, ExtendedFacts
  <2> HIDE DEF c, u, r, d
  <2>2. r = [m EXCEPT !.toCreate = c, !.toUpdate = u, !.toDestroy = d]
    BY <2>1, ManagerFacts
  <2>4. HasMaps(r, m, c, u, d)
    BY <1>2, <2>2, <2>3, <1>0, DirtyMapsFacts
  <2>5. DirtyChange(m, r, s) /\ Destroys(r, s, e)
    BY <1>2, <1>5, <2>3, <2>4 
       DEF HasMaps, DirtyChange, SameDirty, SameAt, IsWith, IsWithout, Destroys
  <2> QED BY <1>5, <2>5 DEF r
<1> QED BY <1>3, <1>4, <1>5

-----------------------------------------------------------------------------
(* What is kept *)

Wanted(m, s) == s \in DOMAIN m.setMap /\ shouldBeInKernel(m, s)

\* A hash set has no sets, a list no IPs as members.
KindsAt(m, s) ==
    s \in DOMAIN m.setMap => /\ s \in HashSets => m.setMap[s].memberIPSets = {}
                             /\ s \in ListSets => m.setMap[s].ipPodKey = << >>

DirtyAt(m, s) ==
    /\ InOneMap(m, s)
    /\ s \in toAddOrUpdate(m) => Wanted(m, s)
    /\ s \in DOMAIN m.toDestroy => ~Wanted(m, s)

\* Lists have only cached sets as members.
Closed(m) == \A s \in DOMAIN m.setMap : m.setMap[s].memberIPSets \in SUBSET DOMAIN m.setMap

ListsOf(m, s) == {l \in ListSets \cap DOMAIN m.setMap : s \in m.setMap[l].memberIPSets}
KernelListsOf(m, s) == {l \in ListsOf(m, s) : shouldBeInKernel(m, l)}

CountsAt(m, s) ==
    s \in DOMAIN m.setMap =>
        /\ m.setMap[s].ipsetReferCount = Cardinality(ListsOf(m, s))
        /\ m.setMap[s].kernelReferCount = Cardinality(KernelListsOf(m, s))

\* A difference that takes the members of a set from X to what is cached.
LeadsTo(m, s, X, del, add) ==
    /\ del \in SUBSET X /\ add \cap X = {}
    /\ (X \ del) \cup add = Members(m, s)

\* What is known of a difference without looking at the kernel: a set to create
\* has all its members to add, and one to destroy has none.
StaticAt(m, s) ==
    /\ s \in DOMAIN m.toCreate => m.toCreate[s] = diffOnCreate(Members(m, s))
    /\ s \in DOMAIN m.toDestroy => m.toDestroy[s].add = {}

\* A set that is not dirty is in the kernel as it is in the cache.
CleanAt(m, k, s) ==
    s \notin Dirty(m) => /\ s \in DOMAIN m.setMap <=> s \in DOMAIN k
                         /\ s \in DOMAIN k => k[s] = Members(m, s)

\* The dirty cache has exactly what the kernel k lacks of s.
SyncAt(m, k, s) ==
    /\ StaticAt(m, s) /\ CleanAt(m, k, s)
    /\ s \in DOMAIN m.toCreate => s \notin DOMAIN k
    /\ s \in DOMAIN m.toUpdate =>
          s \in DOMAIN k /\ LeadsTo(m, s, k[s], m.toUpdate[s].del, m.toUpdate[s].add)
    /\ s \in DOMAIN m.toDestroy => s \in DOMAIN k /\ m.toDestroy[s].del = k[s]

\* Where the cache and the kernel are kept in step: every set is wanted in the
\* kernel, and a restore does not break off midway.
Strict(m) == m.mode = "all" /\ ~BreaksMidway

Local(m, k, s) == KindsAt(m, s) /\ DirtyAt(m, s) /\ (Strict(m) => SyncAt(m, k, s))

Good(m, k) == /\ m \in Manager /\ Closed(m)
              /\ \A s \in Sets : Local(m, k, s) /\ CountsAt(m, s)

-----------------------------------------------------------------------------
(* Sets that an operation leaves alone, and the ones it changes *)

\* r is m but for the cached set s, which is v.
HasSet(r, m, s, v) ==
    /\ r \in Manager /\ r.mode = m.mode
    /\ r.toCreate = m.toCreate /\ r.toUpdate = m.toUpdate /\ r.toDestroy = m.toDestroy
    /\ IsWith(r.setMap, m.setMap, s, v)

\* The manager with another map of sets.
LEMMA SetMapFacts ==
    ASSUME NEW m \in Manager, NEW f \in Maps(Sets, SetRecord), NEW s, NEW v,
           IsWith(f, m.setMap, s, v)
    PROVE  HasSet([m EXCEPT !.setMap = f], m, s, v)
  BY ManagerFacts DEF Manager, HasSet

\* The fields of a set.
LEMMA RecordFacts ==
    ASSUME NEW w \in SetRecord
    PROVE  /\ \A e \in SUBSET References : [w EXCEPT !.refs = e] \in SetRecord
           /\ \A e \in SUBSET HashSets : [w EXCEPT !.memberIPSets = e] \in SetRecord
           /\ \A e \in Maps(IPs, PodKeys) : [w EXCEPT !.ipPodKey = e] \in SetRecord
           /\ \A e \in Nat : [w EXCEPT !.ipsetReferCount = e] \in SetRecord
           /\ \A e \in Nat : [w EXCEPT !.kernelReferCount = e] \in SetRecord
  BY DEF SetRecord

\* A cached set is replaced.
LEMMA SetReplaced ==
    ASSUME NEW m \in Manager, NEW s \in DOMAIN m.setMap, NEW v \in SetRecord
    PROVE  HasSet([m EXCEPT !.setMap = [m.setMap EXCEPT ![s] = v]], m, s, v)
<1> DEFINE f == [m.setMap EXCEPT ![s] = v]
<1>1. m.setMap \in Maps(Sets, SetRecord)
  BY ManagerFacts
<1>2. f \in Maps(Sets, SetRecord) /\ IsWith(f, m.setMap, s, v)
  BY <1>1, ExceptFacts
<1> QED BY <1>2, SetMapFacts

\* Its policies.
LEMMA RefsReplaced ==
    ASSUME NEW m \in Manager, NEW s \in DOMAIN m.setMap, NEW e \in SUBSET References
    PROVE  HasSet([m EXCEPT !.setMap[s].refs = e], m, s, [m.setMap[s] EXCEPT !.refs = e])
<1> DEFINE v == [m.setMap[s] EXCEPT !.refs = e]
<1>1. v \in SetRecord
  BY SetFacts, RecordFacts
<1>2. [m EXCEPT !.setMap[s].refs = e] = [m EXCEPT !.setMap = [m.setMap EXCEPT ![s] = v]]
  OBVIOUS
<1> QED BY <1>1, <1>2, SetReplaced

\* Its members.
LEMMA MemberSetsReplaced ==
    ASSUME NEW m \in Manager, NEW s \in DOMAIN m.setMap, NEW e \in SUBSET HashSets
    PROVE  HasSet([m EXCEPT !.setMap[s].memberIPSets = e], m, s,
                  [m.setMap[s] EXCEPT !.memberIPSets = e])
<1> DEFINE v == [m.setMap[s] EXCEPT !.memberIPSets = e]
<1>1. v \in SetRecord
  BY SetFacts, RecordFacts
<1>2. [m EXCEPT !.setMap[s].memberIPSets = e] = [m EXCEPT !.setMap = [m.setMap EXCEPT ![s] = v]]
  OBVIOUS
<1> QED BY <1>1, <1>2, SetReplaced

\* Its IPs.
LEMMA PodKeysReplaced ==
    ASSUME NEW m \in Manager, NEW s \in DOMAIN m.setMap, NEW e \in Maps(IPs, PodKeys)
    PROVE  HasSet([m EXCEPT !.setMap[s].ipPodKey = e], m, s, [m.setMap[s] EXCEPT !.ipPodKey = e])
<1> DEFINE v == [m.setMap[s] EXCEPT !.ipPodKey = e]
<1>1. v \in SetRecord
  BY SetFacts, RecordFacts
<1>2. [m EXCEPT !.setMap[s].ipPodKey = e] = [m EXCEPT !.setMap = [m.setMap EXCEPT ![s] = v]]
  OBVIOUS
<1> QED BY <1>1, <1>2, SetReplaced

\* The number of lists it is in.
LEMMA ReferCountReplaced ==
    ASSUME NEW m \in Manager, NEW s \in DOMAIN m.setMap, NEW e \in Nat
    PROVE  HasSet([m EXCEPT !.setMap[s].ipsetReferCount = e], m, s,
                  [m.setMap[s] EXCEPT !.ipsetReferCount = e])
<1> DEFINE v == [m.setMap[s] EXCEPT !.ipsetReferCount = e]
<1>1. v \in SetRecord
  BY SetFacts, RecordFacts
<1>2. [m EXCEPT !.setMap[s].ipsetReferCount = e] = [m EXCEPT !.setMap = [m.setMap EXCEPT ![s] = v]]
  OBVIOUS
<1> QED BY <1>1, <1>2, SetReplaced

\* The number of lists of the kernel it is in.
LEMMA KernelCountReplaced ==
    ASSUME NEW m \in Manager, NEW s \in DOMAIN m.setMap, NEW e \in Nat
    PROVE  HasSet([m EXCEPT !.setMap[s].kernelReferCount = e], m, s,
                  [m.setMap[s] EXCEPT !.kernelReferCount = e])
<1> DEFINE v == [m.setMap[s] EXCEPT !.kernelReferCount = e]
<1>1. v \in SetRecord
  BY SetFacts, RecordFacts
<1>2. [m EXCEPT !.setMap[s].kernelReferCount = e] = [m EXCEPT !.setMap = [m.setMap EXCEPT ![s] = v]]
  OBVIOUS
<1> QED BY <1>1, <1>2, SetReplaced

\* What Local looks at of a set's record.
SameView(m, r, t) ==
    /\ t \in DOMAIN m.setMap <=> t \in DOMAIN r.setMap
    /\ Wanted(m, t) <=> Wanted(r, t)
    /\ t \in DOMAIN m.setMap => Members(r, t) = Members(m, t)
    /\ KindsAt(m, t) => KindsAt(r, t)

\* A set of which nothing changes that Local looks at keeps it.
LEMMA LocalKept ==
    ASSUME NEW m, NEW r, NEW k, NEW t, r.mode = m.mode, SameView(m, r, t), SameDirty(m, r, t),
           Local(m, k, t)
    PROVE  Local(r, k, t)
<1>1. KindsAt(r, t)
  BY DEF Local, SameView
<1>2. DirtyAt(r, t)
  BY DEF Local, DirtyAt, SameView, SameDirty, SameAt, InOneMap, toAddOrUpdate
<1>3. t \in DOMAIN m.setMap => Members(r, t) = Members(m, t)
  BY DEF SameView
<1>4. ASSUME Strict(m) PROVE SyncAt(r, k, t)
  <2>1. SyncAt(m, k, t) /\ DirtyAt(m, t)
    BY <1>4 DEF Local
  <2>2. t \notin DOMAIN m.setMap => t \notin toAddOrUpdate(m)
    BY <2>1 DEF DirtyAt, Wanted
  <2>3. StaticAt(r, t)
    BY <1>3, <2>1, <2>2 DEF SyncAt, StaticAt, SameDirty, SameAt, toAddOrUpdate
  <2>4. CleanAt(r, k, t)
    BY <1>3, <2>1 DEF SyncAt, CleanAt, SameView, SameDirty, SameAt, toAddOrUpdate, Dirty
  <2>5. t \in DOMAIN r.toUpdate =>
          t \in DOMAIN k /\ LeadsTo(r, t, k[t], r.toUpdate[t].del, r.toUpdate[t].add)
    BY <1>3, <2>1, <2>2 DEF SyncAt, LeadsTo, SameDirty, SameAt, toAddOrUpdate
  <2> QED BY <2>1, <2>3, <2>4, <2>5 DEF SyncAt, SameDirty, SameAt
<1> QED BY <1>1, <1>2, <1>4 DEF Local, Strict

\* The record stays.
LEMMA ViewOfSame ==
    ASSUME NEW m, NEW r, NEW t, r.mode = m.mode, SameAt(m.setMap, r.setMap, t)
    PROVE  SameView(m, r, t)
  BY DEF SameAt, SameView, Wanted, shouldBeInKernel, Members, KindsAt

\* The counts of a set stay right when no list changes for it.
LEMMA CountsKept ==
    ASSUME NEW m, NEW r, NEW t, CountsAt(m, t), t \in DOMAIN m.setMap,
           r.setMap[t].ipsetReferCount = m.setMap[t].ipsetReferCount,
           r.setMap[t].kernelReferCount = m.setMap[t].kernelReferCount,
           ListsOf(r, t) = ListsOf(m, t), KernelListsOf(r, t) = KernelListsOf(m, t)
    PROVE  CountsAt(r, t)
  BY DEF CountsAt

\* The lists a set is in are finitely many.
LEMMA ListsFacts ==
    ASSUME NEW m, NEW s
    PROVE  /\ IsFiniteSet(ListsOf(m, s)) /\ IsFiniteSet(KernelListsOf(m, s))
           /\ Cardinality(ListsOf(m, s)) \in 0 .. Cardinality(ListSets)
           /\ Cardinality(KernelListsOf(m, s)) \in 0 .. Cardinality(ListSets)
           /\ Cardinality(KernelListsOf(m, s)) <= Cardinality(ListsOf(m, s))
<1>1. IsFiniteSet(ListSets)
  BY NPMAssumption
<1>2. ListsOf(m, s) \in SUBSET ListSets /\ KernelListsOf(m, s) \in SUBSET ListsOf(m, s)
  BY DEF ListsOf, KernelListsOf
<1>3. /\ IsFiniteSet(ListsOf(m, s))
      /\ Cardinality(ListsOf(m, s)) <= Cardinality(ListSets)
  BY <1>1, <1>2, FS_Subset
<1>4. /\ IsFiniteSet(KernelListsOf(m, s))
      /\ Cardinality(KernelListsOf(m, s)) <= Cardinality(ListsOf(m, s))
  BY <1>2, <1>3, FS_Subset
<1>5. /\ Cardinality(ListSets) \in Nat /\ Cardinality(ListsOf(m, s)) \in Nat
      /\ Cardinality(KernelListsOf(m, s)) \in Nat
  BY <1>1, <1>3, <1>4, FS_CardinalityType
<1> QED BY <1>3, <1>4, <1>5

\* A list is in no list.
LEMMA ListInNone ==
    ASSUME NEW m \in Manager, NEW l \in ListSets
    PROVE  ListsOf(m, l) = {} /\ KernelListsOf(m, l) = {}
<1>1. l \notin HashSets
  BY NPMAssumption
<1>2. ASSUME NEW x \in ListsOf(m, l) PROVE FALSE
  BY <1>1, <1>2, SetFacts DEF ListsOf
<1> QED BY <1>2 DEF KernelListsOf

-----------------------------------------------------------------------------
(* Sets are created *)

\* r is m with s cached.
Made(m, r, k, s) == /\ Good(r, k) /\ r.mode = m.mode
                    /\ s \in DOMAIN r.setMap /\ DOMAIN m.setMap \in SUBSET DOMAIN r.setMap

\* A new set is empty.
LEMMA NewIPSetFacts ==
    /\ NewIPSet \in SetRecord /\ NewIPSet.refs = {} /\ NewIPSet.memberIPSets = {}
    /\ NewIPSet.ipPodKey = << >> /\ NewIPSet.ipsetReferCount = 0 /\ NewIPSet.kernelReferCount = 0
<1>1. << >> \in Maps(IPs, PodKeys)
  BY EmptyMap
<1>2. {} \in SUBSET HashSets /\ {} \in SUBSET References /\ 0 \in Nat
  OBVIOUS
<1>3. NewIPSet \in SetRecord
  <2> DEFINE e == << >>
  <2>1. NewIPSet = [ipPodKey |-> e, memberIPSets |-> {}, refs |-> {},
                    ipsetReferCount |-> 0, kernelReferCount |-> 0]
    BY DEF NewIPSet
  <2>2. e \in Maps(IPs, PodKeys)
    BY <1>1
  <2> HIDE DEF e
  <2> QED BY <1>2, <2>1, <2>2 DEF SetRecord
<1> QED BY <1>3 DEF NewIPSet

\* A set that is made new in m, whatever the dirty cache then says of it.
LEMMA NewSetFacts ==
    ASSUME NEW m, NEW k, Good(m, k), NEW s \in Sets, s \notin DOMAIN m.setMap,
           NEW n, HasSet(n, m, s, NewIPSet), NEW r, DirtyChange(n, r, s)
    PROVE  /\ r \in Manager /\ r.mode = m.mode /\ Closed(r)
           /\ s \in DOMAIN r.setMap /\ DOMAIN m.setMap \in SUBSET DOMAIN r.setMap
           /\ \A t \in Sets : CountsAt(r, t)
           /\ \A t \in Sets \ {s} : Local(r, k, t)
<1>1. /\ r \in Manager /\ r.mode = m.mode
      /\ DOMAIN r.setMap = DOMAIN m.setMap \cup {s} /\ r.setMap[s] = NewIPSet
      /\ \A t \in DOMAIN m.setMap : t # s => r.setMap[t] = m.setMap[t]
      /\ \A t \in Sets \ {s} : SameDirty(m, r, t)
  BY DEF HasSet, IsWith, DirtyChange, SameDirty
<1>2. m \in Manager /\ Closed(m) /\ \A t \in Sets : Local(m, k, t) /\ CountsAt(m, t)
  BY DEF Good
<1>3. Closed(r)
  BY <1>1, <1>2, NewIPSetFacts DEF Closed
<1>4. ASSUME NEW t \in Sets \ {s} PROVE Local(r, k, t)
  <2>1. SameAt(m.setMap, r.setMap, t)
    BY <1>1 DEF SameAt
  <2>2. SameView(m, r, t)
    BY <1>1, <2>1, ViewOfSame
  <2>3. SameDirty(m, r, t) /\ Local(m, k, t)
    BY <1>1, <1>2
  <2> QED BY <1>1, <2>2, <2>3, LocalKept
<1>5. ASSUME NEW t PROVE ListsOf(r, t) = ListsOf(m, t) /\ KernelListsOf(r, t) = KernelListsOf(m, t)
  <2>1. ListsOf(r, t) = ListsOf(m, t)
    BY <1>1, NewIPSetFacts DEF ListsOf
  <2>2. \A l \in ListsOf(m, t) : shouldBeInKernel(r, l) <=> shouldBeInKernel(m, l)
    BY <1>1 DEF ListsOf, shouldBeInKernel
  <2> QED BY <2>1, <2>2 DEF KernelListsOf
<1>6. ASSUME NEW t \in Sets PROVE CountsAt(r, t)
  <2>1. CASE t \in DOMAIN m.setMap
    BY <1>1, <1>2, <1>5, <2>1, CountsKept
  <2>2. CASE t = s
    <3>1. ListsOf(m, s) = {} /\ KernelListsOf(m, s) = {}
      BY <1>2 DEF Closed, ListsOf, KernelListsOf
    <3>2. Cardinality(ListsOf(r, s)) = 0 /\ Cardinality(KernelListsOf(r, s)) = 0
      BY <1>5, <3>1, FS_EmptySet
    <3> QED BY <1>1, <2>2, <3>2, NewIPSetFacts DEF CountsAt
  <2>3. CASE t \notin DOMAIN m.setMap /\ t # s
    BY <1>1, <2>3 DEF CountsAt
  <2> QED BY <2>1, <2>2, <2>3
<1> QED BY <1>1, <1>3, <1>4, <1>6

\* createAndGetIPSet caches the set and keeps everything in order; with
\* ApplyAllIPSets it is to be created, or updated when it was to be destroyed.
LEMMA CreateKeepsGood ==
    ASSUME NEW m, NEW k, Good(m, k), NEW s \in Sets
    PROVE  Made(m, createAndGetIPSet(m, s), k, s)
<1>1. CASE s \in DOMAIN m.setMap
  BY <1>1 DEF createAndGetIPSet, Made
<1>2. CASE s \notin DOMAIN m.setMap
  <2> DEFINE f == Extended(m.setMap, s, NewIPSet)
             n == [m EXCEPT !.setMap = f]
             r == createAndGetIPSet(m, s)
  <2>1. m \in Manager /\ Local(m, k, s)
    BY DEF Good
  <2>2. f \in Maps(Sets, SetRecord) /\ IsWith(f, m.setMap, s, NewIPSet)
    BY <2>1, ManagerFacts, NewIPSetFacts, ExtendedFacts
  <2>3. HasSet(n, m, s, NewIPSet)
    <3> HIDE DEF f
    <3> QED BY <2>1, <2>2, SetMapFacts
  <2>4. r = IF m.mode = "all" THEN dirtyCreate(n, s) ELSE n
    BY <1>2 DEF createAndGetIPSet
  <2> HIDE DEF f, n, r
  <2>5. /\ n \in Manager /\ n.mode = m.mode /\ s \in DOMAIN n.setMap /\ n.setMap[s] = NewIPSet
        /\ n.toCreate = m.toCreate /\ n.toUpdate = m.toUpdate /\ n.toDestroy = m.toDestroy
    BY <2>3 DEF HasSet, IsWith
  <2>6. Members(n, s) = {}
    BY <2>5, NewIPSetFacts, EmptyMap DEF Members
  <2>7. InOneMap(m, s) /\ s \notin toAddOrUpdate(m)
    BY <1>2, <2>1 DEF Local, DirtyAt, Wanted
  <2>8. DirtyChange(n, r, s) /\ Local(r, k, s)
    <3>1. CASE m.mode = "all"
      <4>1. r = dirtyCreate(n, s)
        BY <2>4, <3>1
      <4>2. /\ DirtyChange(n, r, s)
            /\ s \in DOMAIN m.toDestroy => Updates(r, s, m.toDestroy[s])
            /\ s \notin DOMAIN m.toDestroy => Creates(r, s, diffOnCreate({}))
        BY <2>5, <2>6, <2>7, <4>1, DirtyCreateFacts DEF toAddOrUpdate, Dirty
      <4>3. r.setMap = n.setMap /\ r.mode = m.mode /\ Members(r, s) = {} /\ Wanted(r, s)
        BY <2>5, <2>6, <3>1, <4>2 DEF DirtyChange, Members, Wanted, shouldBeInKernel
      <4>4. KindsAt(r, s)
        BY <2>5, <4>3, NewIPSetFacts DEF KindsAt
      <4>5. DirtyAt(r, s)
        BY <4>2, <4>3 DEF DirtyAt, InOneMap, toAddOrUpdate, Updates, Creates
      <4>6. ASSUME Strict(m) PROVE SyncAt(r, k, s)
        <5>1. SyncAt(m, k, s)
          BY <2>1, <4>6 DEF Local
        <5>2. CASE s \in DOMAIN m.toDestroy
          <6>1. s \in DOMAIN k /\ m.toDestroy[s].del = k[s] /\ m.toDestroy[s].add = {}
            BY <5>1, <5>2 DEF SyncAt, StaticAt
          <6>2. LeadsTo(r, s, k[s], m.toDestroy[s].del, m.toDestroy[s].add)
            BY <4>3, <6>1 DEF LeadsTo
          <6> QED BY <4>2, <5>2, <6>1, <6>2
                  DEF SyncAt, StaticAt, CleanAt, Updates, Dirty, toAddOrUpdate
        <5>3. CASE s \notin DOMAIN m.toDestroy
          <6>1. s \notin DOMAIN k
            BY <1>2, <2>7, <5>1, <5>3 DEF SyncAt, CleanAt, Dirty
          <6> QED BY <4>2, <4>3, <5>3, <6>1
                  DEF SyncAt, StaticAt, CleanAt, Creates, Dirty, toAddOrUpdate
        <5> QED BY <5>2, <5>3
      <4> QED BY <4>2, <4>3, <4>4, <4>5, <4>6 DEF Local, Strict
    <3>2. CASE m.mode # "all"
      <4>1. r = n
        BY <2>4, <3>2
      <4>2. DirtyChange(n, r, s)
        BY <2>5, <4>1 DEF DirtyChange, SameDirty, SameAt
      <4>3. ~Wanted(r, s)
        BY <2>5, <3>2, <4>1, NewIPSetFacts DEF Wanted, shouldBeInKernel
      <4>4. KindsAt(r, s)
        BY <2>5, <4>1, NewIPSetFacts DEF KindsAt
      <4>5. DirtyAt(r, s)
        BY <2>5, <2>7, <4>1, <4>3 DEF DirtyAt, InOneMap, toAddOrUpdate
      <4> QED BY <2>5, <3>2, <4>1, <4>2, <4>4, <4>5 DEF Local, Strict
    <3> QED BY <3>1, <3>2
  <2>9. /\ r \in Manager /\ r.mode = m.mode /\ Closed(r)
        /\ s \in DOMAIN r.setMap /\ DOMAIN m.setMap \in SUBSET DOMAIN r.setMap
        /\ \A t \in Sets : CountsAt(r, t)
        /\ \A t \in Sets \ {s} : Local(r, k, t)
    BY <1>2, <2>3, <2>8, NewSetFacts
  <2>10. Made(m, r, k, s)
    BY <2>8, <2>9 DEF Made, Good
  <2> QED BY <2>10 DEF r
<1> QED BY <1>1, <1>2

-----------------------------------------------------------------------------
(* Members are added and removed *)

\* One cached set changes, but neither for the lists nor in whether it belongs
\* in the kernel.
LEMMA OneSetChanged ==
    ASSUME NEW m, NEW k, Good(m, k), NEW s \in DOMAIN m.setMap, NEW a, DirtyChange(m, a, s),
           NEW v, NEW r, HasSet(r, a, s, v),
           v.memberIPSets = m.setMap[s].memberIPSets,
           v.ipsetReferCount = m.setMap[s].ipsetReferCount,
           v.kernelReferCount = m.setMap[s].kernelReferCount,
           Wanted(r, s) <=> Wanted(m, s), Local(r, k, s)
    PROVE  Good(r, k)
<1>1. /\ r \in Manager /\ r.mode = m.mode
      /\ DOMAIN r.setMap = DOMAIN m.setMap /\ r.setMap[s] = v
      /\ \A t \in DOMAIN m.setMap : t # s => r.setMap[t] = m.setMap[t]
      /\ \A t \in Sets \ {s} : SameDirty(m, r, t)
  BY DEF HasSet, IsWith, DirtyChange, SameDirty
<1>2. m \in Manager /\ Closed(m) /\ \A t \in Sets : Local(m, k, t) /\ CountsAt(m, t)
  BY DEF Good
<1>3. Closed(r)
  BY <1>1, <1>2 DEF Closed
<1>4. ASSUME NEW t \in Sets PROVE Local(r, k, t)
  <2>1. CASE t = s
    BY <2>1
  <2>2. CASE t # s
    <3>1. SameAt(m.setMap, r.setMap, t)
      BY <1>1, <2>2 DEF SameAt
    <3>2. SameView(m, r, t)
      BY <1>1, <3>1, ViewOfSame
    <3>3. SameDirty(m, r, t) /\ Local(m, k, t)
      BY <1>1, <1>2, <2>2
    <3> QED BY <1>1, <3>2, <3>3, LocalKept
  <2> QED BY <2>1, <2>2
<1>5. ASSUME NEW t PROVE ListsOf(r, t) = ListsOf(m, t) /\ KernelListsOf(r, t) = KernelListsOf(m, t)
  <2>1. ListsOf(r, t) = ListsOf(m, t)
    BY <1>1 DEF ListsOf
  <2>2. ASSUME NEW l \in ListsOf(m, t) PROVE shouldBeInKernel(r, l) <=> shouldBeInKernel(m, l)
    <3>1. CASE l = s
      BY <1>1, <3>1 DEF Wanted
    <3>2. CASE l # s
      BY <1>1, <3>2 DEF ListsOf, shouldBeInKernel
    <3> QED BY <3>1, <3>2
  <2> QED BY <2>1, <2>2 DEF KernelListsOf
<1>6. ASSUME NEW t \in Sets PROVE CountsAt(r, t)
  <2>1. CASE t \in DOMAIN m.setMap
    <3>1. /\ r.setMap[t].ipsetReferCount = m.setMap[t].ipsetReferCount
          /\ r.setMap[t].kernelReferCount = m.setMap[t].kernelReferCount
      BY <1>1, <2>1
    <3> QED BY <1>2, <1>5, <2>1, <3>1, CountsKept
  <2>2. CASE t \notin DOMAIN m.setMap
    BY <1>1, <2>2 DEF CountsAt
  <2> QED BY <2>1, <2>2
<1> QED BY <1>1, <1>3, <1>4, <1>6 DEF Good

\* A difference that leads to the members leads to one more with it added.
LEMMA LeadsToAdd ==
    ASSUME NEW m, NEW r, NEW s, NEW X, NEW d \in Diffs, NEW x \in Elements,
           LeadsTo(m, s, X, d.del, d.add), x \notin Members(m, s),
           Members(r, s) = Members(m, s) \cup {x}, NEW e, e = diffAddMember(d, x)
    PROVE  LeadsTo(r, s, X, e.del, e.add)
<1>1. CASE x \in d.del
  <2>1. e.add = d.add /\ e.del = d.del \ {x}
    BY <1>1 DEF diffAddMember, Diffs
  <2> QED BY <1>1, <2>1 DEF LeadsTo
<1>2. CASE x \notin d.del
  <2>1. e.add = d.add \cup {x} /\ e.del = d.del
    BY <1>2 DEF diffAddMember, Diffs
  <2> QED BY <1>2, <2>1 DEF LeadsTo
<1> QED BY <1>1, <1>2

\* The same for one less.
LEMMA LeadsToDelete ==
    ASSUME NEW m, NEW r, NEW s, NEW X, NEW d \in Diffs, NEW x \in Elements,
           LeadsTo(m, s, X, d.del, d.add), x \in Members(m, s),
           Members(r, s) = Members(m, s) \ {x}, NEW e, e = diffDeleteMember(d, x)
    PROVE  LeadsTo(r, s, X, e.del, e.add)
<1>1. CASE x \in d.add
  <2>1. e.add = d.add \ {x} /\ e.del = d.del
    BY <1>1 DEF diffDeleteMember, Diffs
  <2> QED BY <1>1, <2>1 DEF LeadsTo
<1>2. CASE x \notin d.add
  <2>1. e.add = d.add /\ e.del = d.del \cup {x}
    BY <1>2 DEF diffDeleteMember, Diffs
  <2> QED BY <1>2, <2>1 DEF LeadsTo
<1> QED BY <1>1, <1>2

\* What is known of a set in the kernel that is not new there: its difference
\* leads from the kernel to the cache.
LEMMA DiffLeads ==
    ASSUME NEW m, NEW k, NEW s \in DOMAIN m.setMap, SyncAt(m, k, s),
           s \notin DOMAIN m.toCreate, s \notin DOMAIN m.toDestroy
    PROVE  s \in DOMAIN k /\ LeadsTo(m, s, k[s], memberDiff(m, s).del, memberDiff(m, s).add)
<1>1. CASE s \in DOMAIN m.toUpdate
  BY <1>1 DEF SyncAt, memberDiff
<1>2. CASE s \notin DOMAIN m.toUpdate
  <2>1. s \in DOMAIN k /\ k[s] = Members(m, s)
    BY <1>2 DEF SyncAt, CleanAt, Dirty, toAddOrUpdate
  <2>2. memberDiff(m, s) = newMemberDiff
    BY <1>2 DEF memberDiff
  <2>3. newMemberDiff.del = {} /\ newMemberDiff.add = {}
    BY DEF newMemberDiff
  <2> QED BY <2>1, <2>2, <2>3 DEF LeadsTo
<1> QED BY <1>1, <1>2

\* Outside of the mode that keeps all sets in the kernel, a set that does not
\* belong there changes as it likes.
LEMMA QuietLocal ==
    ASSUME NEW m, NEW k, NEW r, NEW s, Local(m, k, s), r.mode = m.mode, r.mode # "all",
           SameDirty(m, r, s), Wanted(r, s) <=> Wanted(m, s), KindsAt(r, s)
    PROVE  Local(r, k, s)
<1>1. DirtyAt(r, s)
  BY DEF Local, DirtyAt, InOneMap, toAddOrUpdate, SameDirty, SameAt
<1> QED BY <1>1 DEF Local, Strict

\* A member is added to s in the cache, and to its difference where s belongs in
\* the kernel.
LEMMA AddMemberLocal ==
    ASSUME NEW m \in Manager, NEW k, NEW s \in DOMAIN m.setMap, Local(m, k, s),
           NEW x \in Elements, x \notin Members(m, s),
           NEW r, r.mode = m.mode, SameDirty(KernelMemberAdd(m, s, x), r, s),
           s \in DOMAIN r.setMap, Wanted(r, s) <=> Wanted(m, s),
           Members(r, s) = Members(m, s) \cup {x}, KindsAt(r, s)
    PROVE  Local(r, k, s)
<1>1. CASE ~shouldBeInKernel(m, s)
  <2>1. SameDirty(m, r, s) /\ m.mode # "all"
    BY <1>1 DEF KernelMemberAdd, shouldBeInKernel
  <2> QED BY <2>1, QuietLocal
<1>2. CASE shouldBeInKernel(m, s)
  <2> DEFINE a == dirtyAddMember(m, s, x)
             d == memberDiff(m, s)
             e == diffAddMember(d, x)
  <2>1. SameDirty(a, r, s)
    BY <1>2 DEF KernelMemberAdd
  <2>2. Wanted(m, s) /\ Wanted(r, s)
    BY <1>2 DEF Wanted
  <2>3. InOneMap(m, s) /\ s \notin DOMAIN m.toDestroy
    BY <2>2 DEF Local, DirtyAt
  <2>4. s \in Sets /\ d \in Diffs
    BY SetFacts, DiffFacts
  <2>5. /\ s \in DOMAIN m.toCreate => Creates(a, s, e)
        /\ s \notin DOMAIN m.toCreate => Updates(a, s, e)
    BY <2>3, <2>4, DirtyAddMemberFacts
  <2> HIDE DEF a, d, e
  <2>6. /\ s \in DOMAIN m.toCreate => Creates(r, s, e)
        /\ s \notin DOMAIN m.toCreate => Updates(r, s, e)
    BY <2>1, <2>5 DEF Creates, Updates, SameDirty, SameAt
  <2>7. DirtyAt(r, s)
    BY <2>2, <2>6 DEF DirtyAt, InOneMap, toAddOrUpdate, Creates, Updates
  <2>8. ASSUME Strict(m) PROVE SyncAt(r, k, s)
    <3>1. SyncAt(m, k, s)
      BY <2>8 DEF Local
    <3>2. CASE s \in DOMAIN m.toCreate
      <4>1. d = [add |-> Members(m, s), del |-> {}] /\ s \notin DOMAIN k
        BY <3>1, <3>2 DEF d, memberDiff, SyncAt, StaticAt, diffOnCreate
      <4>2. e = [add |-> Members(m, s) \cup {x}, del |-> {}]
        BY <2>4, <4>1, DiffOpFacts DEF e
      <4>3. e = diffOnCreate(Members(r, s))
        BY <4>2 DEF diffOnCreate
      <4> QED BY <2>6, <3>2, <4>1, <4>3 DEF SyncAt, StaticAt, CleanAt, Creates, Dirty, toAddOrUpdate
    <3>3. CASE s \notin DOMAIN m.toCreate
      <4>1. s \in DOMAIN k /\ LeadsTo(m, s, k[s], d.del, d.add)
        BY <2>3, <3>1, <3>3, DiffLeads DEF d
      <4>2. LeadsTo(r, s, k[s], e.del, e.add)
        BY <2>4, <4>1, LeadsToAdd DEF e
      <4> QED BY <2>6, <3>3, <4>1, <4>2 DEF SyncAt, StaticAt, CleanAt, Updates, Dirty, toAddOrUpdate
    <3> QED BY <3>2, <3>3
  <2> QED BY <2>7, <2>8 DEF Local, Strict
<1> QED BY <1>1, <1>2

\* A member is removed from s.
LEMMA DeleteMemberLocal ==
    ASSUME NEW m \in Manager, NEW k, NEW s \in DOMAIN m.setMap, Local(m, k, s),
           NEW x \in Elements, x \in Members(m, s),
           NEW r, r.mode = m.mode, SameDirty(KernelMemberDelete(m, s, x), r, s),
           s \in DOMAIN r.setMap, Wanted(r, s) <=> Wanted(m, s),
           Members(r, s) = Members(m, s) \ {x}, KindsAt(r, s)
    PROVE  Local(r, k, s)
<1>1. CASE ~shouldBeInKernel(m, s)
  <2>1. SameDirty(m, r, s) /\ m.mode # "all"
    BY <1>1 DEF KernelMemberDelete, shouldBeInKernel
  <2> QED BY <2>1, QuietLocal
<1>2. CASE shouldBeInKernel(m, s)
  <2> DEFINE a == dirtyDeleteMember(m, s, x)
             d == memberDiff(m, s)
             e == diffDeleteMember(d, x)
             c == [add |-> m.toCreate[s].add \ {x}, del |-> m.toCreate[s].del]
  <2>1. SameDirty(a, r, s)
    BY <1>2 DEF KernelMemberDelete
  <2>2. Wanted(m, s) /\ Wanted(r, s)
    BY <1>2 DEF Wanted
  <2>3. InOneMap(m, s) /\ s \notin DOMAIN m.toDestroy
    BY <2>2 DEF Local, DirtyAt
  <2>4. s \in Sets /\ d \in Diffs
    BY SetFacts, DiffFacts
  <2>5. /\ s \in DOMAIN m.toCreate => Creates(a, s, c)
        /\ s \notin DOMAIN m.toCreate => Updates(a, s, e)
    BY <2>3, <2>4, DirtyDeleteMemberFacts
  <2> HIDE DEF a, d, e, c
  <2>6. /\ s \in DOMAIN m.toCreate => Creates(r, s, c)
        /\ s \notin DOMAIN m.toCreate => Updates(r, s, e)
    BY <2>1, <2>5 DEF Creates, Updates, SameDirty, SameAt
  <2>7. DirtyAt(r, s)
    BY <2>2, <2>6 DEF DirtyAt, InOneMap, toAddOrUpdate, Creates, Updates
  <2>8. ASSUME Strict(m) PROVE SyncAt(r, k, s)
    <3>1. SyncAt(m, k, s)
      BY <2>8 DEF Local
    <3>2. CASE s \in DOMAIN m.toCreate
      <4>1. m.toCreate[s] = [add |-> Members(m, s), del |-> {}] /\ s \notin DOMAIN k
        BY <3>1, <3>2 DEF SyncAt, StaticAt, diffOnCreate
      <4>2. c = [add |-> Members(m, s) \ {x}, del |-> {}]
        BY <4>1 DEF c
      <4>3. c = diffOnCreate(Members(r, s))
        BY <4>2 DEF diffOnCreate
      <4> QED BY <2>6, <3>2, <4>1, <4>3 DEF SyncAt, StaticAt, CleanAt, Creates, Dirty, toAddOrUpdate
    <3>3. CASE s \notin DOMAIN m.toCreate
      <4>1. s \in DOMAIN k /\ LeadsTo(m, s, k[s], d.del, d.add)
        BY <2>3, <3>1, <3>3, DiffLeads DEF d
      <4>2. LeadsTo(r, s, k[s], e.del, e.add)
        BY <2>4, <4>1, LeadsToDelete DEF e
      <4> QED BY <2>6, <3>3, <4>1, <4>2 DEF SyncAt, StaticAt, CleanAt, Updates, Dirty, toAddOrUpdate
    <3> QED BY <3>2, <3>3
  <2> QED BY <2>7, <2>8 DEF Local, Strict
<1> QED BY <1>1, <1>2

\* Of the dirty cache only what it has of s changes with a member of s.
LEMMA KernelMemberFacts ==
    ASSUME NEW m \in Manager, NEW s \in DOMAIN m.setMap, NEW k, Local(m, k, s), NEW x \in Elements
    PROVE  /\ DirtyChange(m, KernelMemberAdd(m, s, x), s)
           /\ DirtyChange(m, KernelMemberDelete(m, s, x), s)
<1>1. DirtyChange(m, m, s)
  BY DEF DirtyChange, SameDirty, SameAt
<1>2. s \in Sets /\ InOneMap(m, s) /\ (shouldBeInKernel(m, s) => s \notin DOMAIN m.toDestroy)
  BY SetFacts DEF Local, DirtyAt, Wanted
<1>3. DirtyChange(m, dirtyAddMember(m, s, x), s)
  BY <1>2, DirtyAddMemberFacts
<1>4. shouldBeInKernel(m, s) => DirtyChange(m, dirtyDeleteMember(m, s, x), s)
  BY <1>2, DirtyDeleteMemberFacts
<1> QED BY <1>1, <1>3, <1>4 DEF KernelMemberAdd, KernelMemberDelete

\* The pod keys of s are e in r, and of s alone the dirty cache has changed.
KeysChanged(m, a, r, k, s, e) ==
    /\ SameDirty(a, r, s) /\ r.mode = m.mode /\ s \in DOMAIN r.setMap
    /\ Wanted(r, s) <=> Wanted(m, s)
    /\ Members(r, s) = DOMAIN e /\ KindsAt(r, s)
    /\ Local(r, k, s) => Good(r, k)

\* The keys of a hash set change: what is true of r where they are e.
LEMMA PodKeysFacts ==
    ASSUME NEW m, NEW k, Good(m, k), NEW s \in HashSets, s \in DOMAIN m.setMap,
           NEW a, DirtyChange(m, a, s), NEW e \in Maps(IPs, PodKeys),
           NEW r, r = [a EXCEPT !.setMap[s].ipPodKey = e]
    PROVE  KeysChanged(m, a, r, k, s, e)
<1> DEFINE v == [a.setMap[s] EXCEPT !.ipPodKey = e]
<1>1. a \in Manager /\ a.mode = m.mode /\ a.setMap = m.setMap
  BY DEF DirtyChange
<1>2. HasSet(r, a, s, v)
  BY <1>1, PodKeysReplaced
<1>3. m \in Manager /\ Local(m, k, s)
  BY DEF Good, Sets
<1>4. m.setMap[s] \in SetRecord
  BY <1>3, SetFacts
<1>5. /\ v.memberIPSets = m.setMap[s].memberIPSets
      /\ v.ipsetReferCount = m.setMap[s].ipsetReferCount
      /\ v.kernelReferCount = m.setMap[s].kernelReferCount
      /\ v.refs = m.setMap[s].refs /\ v.ipPodKey = e
  BY <1>1, <1>4 DEF SetRecord
<1> HIDE DEF v
<1>6. /\ SameDirty(a, r, s) /\ r.mode = m.mode /\ s \in DOMAIN r.setMap
      /\ r.setMap[s] = v
  BY <1>1, <1>2 DEF HasSet, IsWith, SameDirty, SameAt
<1>7. Wanted(r, s) <=> Wanted(m, s)
  BY <1>5, <1>6 DEF Wanted, shouldBeInKernel
<1>8. Members(r, s) = DOMAIN e
  BY <1>5, <1>6 DEF Members
<1>9. KindsAt(r, s)
  BY <1>3, <1>5, <1>6, NPMAssumption DEF Local, KindsAt
<1>10. Local(r, k, s) => Good(r, k)
  BY <1>2, <1>5, <1>7, OneSetChanged
<1> QED BY <1>6, <1>7, <1>8, <1>9, <1>10 DEF KeysChanged

\* AddToSets, for one set: a member that is there already only changes its owner.
LEMMA AddToSetKeepsGood ==
    ASSUME NEW m, NEW k, Good(m, k), NEW s \in HashSets, NEW ip \in IPs, NEW key \in PodKeys
    PROVE  Good(AddToSet(m, s, ip, key), k)
<1> DEFINE a == createAndGetIPSet(m, s)
           b == IF ip \in Members(a, s) THEN a ELSE KernelMemberAdd(a, s, ip)
           e == Extended(b.setMap[s].ipPodKey, ip, key)
           r == AddToSet(m, s, ip, key)
<1>1. Good(a, k) /\ s \in DOMAIN a.setMap
  BY CreateKeepsGood DEF Sets, Made
<1>2. r = [b EXCEPT !.setMap[s].ipPodKey = e]
  BY DEF AddToSet
<1>3. a \in Manager /\ Local(a, k, s)
  BY <1>1 DEF Good, Sets
<1>4. ip \in Elements
  BY DEF Elements
<1>5. DirtyChange(a, b, s)
  <2>1. DirtyChange(a, a, s)
    BY <1>3 DEF DirtyChange, SameDirty, SameAt
  <2> HIDE DEF a
  <2>2. DirtyChange(a, KernelMemberAdd(a, s, ip), s)
    BY <1>1, <1>3, <1>4, KernelMemberFacts
  <2> QED BY <2>1, <2>2
<1> HIDE DEF a, r
<1>6. b.setMap = a.setMap
  BY <1>5 DEF DirtyChange
<1>7. a.setMap[s].ipPodKey \in Maps(IPs, PodKeys) /\ Members(a, s) = DOMAIN a.setMap[s].ipPodKey
  BY <1>1, <1>3, SetFacts DEF Members
<1>8. e \in Maps(IPs, PodKeys) /\ DOMAIN e = Members(a, s) \cup {ip}
  <2>1. e = Extended(a.setMap[s].ipPodKey, ip, key)
    BY <1>6
  <2> HIDE DEF e
  <2>2. e \in Maps(IPs, PodKeys) /\ IsWith(e, a.setMap[s].ipPodKey, ip, key)
    BY <1>7, <2>1, ExtendedFacts
  <2> QED BY <1>7, <2>2 DEF IsWith
<1> HIDE DEF e
<1>11. KeysChanged(a, b, r, k, s, e)
  <2> HIDE DEF b
  <2> QED BY <1>1, <1>2, <1>5, <1>8, PodKeysFacts
<1>9. /\ SameDirty(b, r, s) /\ r.mode = a.mode /\ s \in DOMAIN r.setMap
      /\ Wanted(r, s) <=> Wanted(a, s)
      /\ Members(r, s) = DOMAIN e /\ KindsAt(r, s)
      /\ Local(r, k, s) => Good(r, k)
  BY <1>11 DEF KeysChanged
<1>10. Local(r, k, s)
  <2>1. CASE ip \in Members(a, s)
    <3>1. SameDirty(a, r, s) /\ Members(r, s) = Members(a, s)
      BY <1>8, <1>9, <2>1
    <3>2. SameView(a, r, s)
      BY <1>1, <1>9, <3>1 DEF SameView
    <3> QED BY <1>3, <1>9, <3>1, <3>2, LocalKept
  <2>2. CASE ip \notin Members(a, s)
    <3>1. SameDirty(KernelMemberAdd(a, s, ip), r, s) /\ Members(r, s) = Members(a, s) \cup {ip}
      BY <1>8, <1>9, <2>2
    <3> QED BY <1>1, <1>3, <1>4, <1>9, <2>2, <3>1, AddMemberLocal
  <2> QED BY <2>1, <2>2
<1> QED BY <1>9, <1>10 DEF r

\* RemoveFromSets, for one set.
LEMMA RemoveFromSetKeepsGood ==
    ASSUME NEW m, NEW k, Good(m, k), NEW s \in HashSets, NEW ip \in IPs, NEW key
    PROVE  Good(RemoveFromSet(m, s, ip, key), k)
<1> DEFINE r == RemoveFromSet(m, s, ip, key)
           b == KernelMemberDelete(m, s, ip)
           e == Without(b.setMap[s].ipPodKey, {ip})
<1>1. CASE r = m
  BY <1>1
<1>2. CASE r # m
  <2>1. s \in DOMAIN m.setMap /\ ip \in Members(m, s) /\ r = [b EXCEPT !.setMap[s].ipPodKey = e]
    BY <1>2 DEF RemoveFromSet
  <2>3. m \in Manager /\ Local(m, k, s)
    BY DEF Good, Sets
  <2>4. ip \in Elements
    BY DEF Elements
  <2>5. DirtyChange(m, b, s)
    BY <2>1, <2>3, <2>4, KernelMemberFacts
  <2>6. b.setMap = m.setMap
    BY <2>5 DEF DirtyChange
  <2>7. m.setMap[s].ipPodKey \in Maps(IPs, PodKeys) /\ Members(m, s) = DOMAIN m.setMap[s].ipPodKey
    BY <2>1, <2>3, SetFacts DEF Members
  <2>8. e \in Maps(IPs, PodKeys) /\ DOMAIN e = Members(m, s) \ {ip}
    <3>1. e = Without(m.setMap[s].ipPodKey, {ip})
      BY <2>6
    <3> HIDE DEF e
    <3>2. e \in Maps(IPs, PodKeys) /\ IsWithout(e, m.setMap[s].ipPodKey, ip)
      BY <2>7, <3>1, WithoutFacts
    <3> QED BY <2>7, <3>2 DEF IsWithout
  <2> HIDE DEF e, r, b
  <2>9. /\ SameDirty(b, r, s) /\ r.mode = m.mode /\ s \in DOMAIN r.setMap
        /\ Wanted(r, s) <=> Wanted(m, s)
        /\ Members(r, s) = DOMAIN e /\ KindsAt(r, s)
        /\ Local(r, k, s) => Good(r, k)
    <3>1. KeysChanged(m, b, r, k, s, e)
      BY <2>1, <2>5, <2>8, PodKeysFacts
    <3> QED BY <3>1 DEF KeysChanged
  <2>10. SameDirty(KernelMemberDelete(m, s, ip), r, s) /\ Members(r, s) = Members(m, s) \ {ip}
    BY <2>8, <2>9 DEF b
  <2>11. Local(r, k, s)
    BY <2>1, <2>3, <2>4, <2>9, <2>10, DeleteMemberLocal
  <2>12. Good(r, k)
    BY <2>9, <2>11
  <2> QED BY <2>12 DEF r
<1> QED BY <1>1, <1>2

-----------------------------------------------------------------------------
(* Sets enter the kernel and leave it *)

LocalAll(m, k) == \A t \in Sets : Local(m, k, t)

\* The set s is v in r, and every set is as it should be.
Becomes(m, r, k, s, v) == /\ r \in Manager /\ r.mode = m.mode
                          /\ IsWith(r.setMap, m.setMap, s, v)
                          /\ LocalAll(r, k)

\* The record of one set changes, and only of this set the dirty cache.
LEMMA OneBecomes ==
    ASSUME NEW m \in Manager, NEW k, LocalAll(m, k), NEW s \in DOMAIN m.setMap, NEW v,
           NEW n, HasSet(n, m, s, v), NEW r, DirtyChange(n, r, s), Local(r, k, s)
    PROVE  Becomes(m, r, k, s, v)
<1>1. /\ r \in Manager /\ r.mode = m.mode /\ IsWith(r.setMap, m.setMap, s, v)
      /\ \A t \in Sets \ {s} : SameDirty(m, r, t)
  BY DEF HasSet, DirtyChange, SameDirty
<1>2. ASSUME NEW t \in Sets, t # s PROVE Local(r, k, t)
  <2>1. SameAt(m.setMap, r.setMap, t)
    BY <1>1, <1>2 DEF SameAt, IsWith
  <2>2. SameView(m, r, t)
    BY <1>1, <2>1, ViewOfSame
  <2>3. SameDirty(m, r, t) /\ Local(m, k, t)
    BY <1>1, <1>2 DEF LocalAll
  <2> QED BY <1>1, <2>2, <2>3, LocalKept
<1>3. LocalAll(r, k)
  BY <1>2 DEF LocalAll
<1> QED BY <1>1, <1>3 DEF Becomes

\* The record of s becomes v, which does not change whether s belongs in the
\* kernel and what its members are: the dirty cache stays.
LEMMA StaysWanted ==
    ASSUME NEW m \in Manager, NEW k, LocalAll(m, k), NEW s \in DOMAIN m.setMap, NEW v \in SetRecord,
           v.ipPodKey = m.setMap[s].ipPodKey, v.memberIPSets = m.setMap[s].memberIPSets,
           NEW r, HasSet(r, m, s, v), Wanted(r, s) <=> Wanted(m, s)
    PROVE  Becomes(m, r, k, s, v)
<1>1. /\ r \in Manager /\ r.mode = m.mode /\ s \in DOMAIN r.setMap /\ r.setMap[s] = v
      /\ SameDirty(m, r, s)
  BY DEF HasSet, IsWith, SameDirty, SameAt
<1>2. SameView(m, r, s)
  BY <1>1 DEF SameView, Members, KindsAt
<1>3. s \in Sets
  BY SetFacts
<1>4. Local(r, k, s)
  BY <1>1, <1>2, <1>3, LocalKept DEF LocalAll
<1>5. DirtyChange(r, r, s)
  BY <1>1 DEF DirtyChange, SameDirty, SameAt
<1> QED BY <1>4, <1>5, OneBecomes

\* With ApplyOnNeed: s comes to belong in the kernel.
LEMMA EntersKernel ==
    ASSUME NEW m \in Manager, NEW k, LocalAll(m, k), m.mode # "all", NEW s \in DOMAIN m.setMap,
           NEW v \in SetRecord,
           v.ipPodKey = m.setMap[s].ipPodKey, v.memberIPSets = m.setMap[s].memberIPSets,
           NEW n, HasSet(n, m, s, v), ~Wanted(m, s), Wanted(n, s)
    PROVE  Becomes(m, dirtyCreate(n, s), k, s, v)
<1> DEFINE r == dirtyCreate(n, s)
<1>1. /\ n \in Manager /\ n.mode = m.mode /\ s \in DOMAIN n.setMap /\ n.setMap[s] = v
      /\ n.toCreate = m.toCreate /\ n.toUpdate = m.toUpdate /\ n.toDestroy = m.toDestroy
  BY DEF HasSet, IsWith
<1>2. s \in Sets /\ Local(m, k, s)
  BY SetFacts DEF LocalAll
<1>3. s \notin toAddOrUpdate(n)
  BY <1>1, <1>2 DEF Local, DirtyAt, toAddOrUpdate
<1>4. /\ DirtyChange(n, r, s)
      /\ s \in DOMAIN n.toDestroy => Updates(r, s, n.toDestroy[s])
      /\ s \notin DOMAIN n.toDestroy => Creates(r, s, diffOnCreate(Members(n, s)))
  BY <1>1, <1>3, DirtyCreateFacts DEF Dirty
<1> HIDE DEF r
<1>5. r.setMap = n.setMap /\ r.mode = n.mode
  BY <1>4 DEF DirtyChange
<1>6. Wanted(r, s)
  BY <1>5 DEF Wanted, shouldBeInKernel
<1>7. DirtyAt(r, s)
  BY <1>4, <1>6 DEF DirtyAt, InOneMap, toAddOrUpdate, Updates, Creates
<1>8. KindsAt(r, s)
  BY <1>1, <1>2, <1>5 DEF Local, KindsAt
<1>9. Local(r, k, s)
  BY <1>1, <1>5, <1>7, <1>8 DEF Local, Strict
<1>10. Becomes(m, r, k, s, v)
  BY <1>4, <1>9, OneBecomes
<1> QED BY <1>10 DEF r

\* With ApplyOnNeed: s no longer belongs in the kernel.
LEMMA LeavesKernel ==
    ASSUME NEW m \in Manager, NEW k, LocalAll(m, k), m.mode # "all", NEW s \in DOMAIN m.setMap,
           NEW v \in SetRecord,
           v.ipPodKey = m.setMap[s].ipPodKey, v.memberIPSets = m.setMap[s].memberIPSets,
           NEW n, HasSet(n, m, s, v), ~Wanted(n, s)
    PROVE  Becomes(m, dirtyDestroy(n, s, Members(m, s)), k, s, v)
<1> DEFINE r == dirtyDestroy(n, s, Members(m, s))
<1>1. /\ n \in Manager /\ n.mode = m.mode /\ s \in DOMAIN n.setMap /\ n.setMap[s] = v
      /\ n.toCreate = m.toCreate /\ n.toUpdate = m.toUpdate /\ n.toDestroy = m.toDestroy
  BY DEF HasSet, IsWith
<1>2. s \in Sets /\ Local(m, k, s) /\ Members(m, s) \in SUBSET Elements
  BY SetFacts DEF LocalAll
<1>3. InOneMap(n, s)
  BY <1>1, <1>2 DEF Local, DirtyAt, InOneMap, toAddOrUpdate
<1>4. /\ DirtyChange(n, r, s)
      /\ s \in DOMAIN n.toDestroy => r = n
      /\ s \in DOMAIN n.toCreate => Clean(r, s)
      /\ s \notin DOMAIN n.toCreate \cup DOMAIN n.toDestroy =>
            Destroys(r, s, diffOnDestroy(memberDiff(n, s), Members(m, s)))
  BY <1>1, <1>2, <1>3, DirtyDestroyFacts
<1> HIDE DEF r
<1>5. r.setMap = n.setMap /\ r.mode = n.mode
  BY <1>4 DEF DirtyChange
<1>6. ~Wanted(r, s)
  BY <1>5 DEF Wanted, shouldBeInKernel
<1>7. InOneMap(r, s) /\ s \notin toAddOrUpdate(r)
  <2>1. CASE s \in DOMAIN n.toDestroy
    BY <1>3, <1>4, <2>1 DEF InOneMap
  <2>2. CASE s \in DOMAIN n.toCreate
    BY <1>4, <2>2 DEF Clean, Dirty, InOneMap, toAddOrUpdate
  <2>3. CASE s \notin DOMAIN n.toCreate \cup DOMAIN n.toDestroy
    BY <1>4, <2>3 DEF Destroys, InOneMap, toAddOrUpdate
  <2> QED BY <2>1, <2>2, <2>3
<1>8. DirtyAt(r, s)
  BY <1>6, <1>7 DEF DirtyAt
<1>9. KindsAt(r, s)
  BY <1>1, <1>2, <1>5 DEF Local, KindsAt
<1>10. Local(r, k, s)
  BY <1>1, <1>5, <1>8, <1>9 DEF Local, Strict
<1>11. Becomes(m, r, k, s, v)
  BY <1>4, <1>10, OneBecomes
<1> QED BY <1>11 DEF r

\* The fields of a set with another count.
LEMMA CountedFacts ==
    ASSUME NEW w \in SetRecord, NEW n \in Nat, NEW v, v = [w EXCEPT !.kernelReferCount = n]
    PROVE  /\ v \in SetRecord /\ v.ipPodKey = w.ipPodKey /\ v.memberIPSets = w.memberIPSets
           /\ v.refs = w.refs /\ v.ipsetReferCount = w.ipsetReferCount /\ v.kernelReferCount = n
  BY DEF SetRecord

\* incKernelReferCountAndModifyCache: a set that enters the kernel with it is to
\* be created.
LEMMA IncFacts ==
    ASSUME NEW m \in Manager, NEW k, LocalAll(m, k), NEW s \in DOMAIN m.setMap
    PROVE  Becomes(m, incKernelReferCountAndModifyCache(m, s), k, s,
                   [m.setMap[s] EXCEPT !.kernelReferCount = m.setMap[s].kernelReferCount + 1])
<1> DEFINE c == m.setMap[s].kernelReferCount + 1
           v == [m.setMap[s] EXCEPT !.kernelReferCount = c]
           n == [m EXCEPT !.setMap[s].kernelReferCount = c]
<1>1. m.setMap[s] \in SetRecord /\ m.setMap[s].kernelReferCount \in Nat
  BY SetFacts
<1>2. c \in Nat /\ c > 0
  BY <1>1
<1> HIDE DEF c
<1>3. HasSet(n, m, s, v)
  BY <1>2, KernelCountReplaced
<1>4. /\ v \in SetRecord /\ v.ipPodKey = m.setMap[s].ipPodKey
      /\ v.memberIPSets = m.setMap[s].memberIPSets
      /\ v.refs = m.setMap[s].refs /\ v.kernelReferCount = c
  BY <1>1, <1>2, CountedFacts
<1>5. incKernelReferCountAndModifyCache(m, s) =
          IF shouldBeInKernel(m, s) THEN n ELSE dirtyCreate(n, s)
  BY DEF incKernelReferCountAndModifyCache, c
<1> HIDE DEF v, n
<1>6. Wanted(n, s)
  BY <1>2, <1>3, <1>4 DEF HasSet, IsWith, Wanted, shouldBeInKernel
<1>7. CASE shouldBeInKernel(m, s)
  <2>1. Wanted(m, s)
    BY <1>7 DEF Wanted
  <2>2. Becomes(m, n, k, s, v)
    BY <1>3, <1>4, <1>6, <2>1, StaysWanted
  <2> QED BY <1>5, <1>7, <2>2 DEF v, c
<1>8. CASE ~shouldBeInKernel(m, s)
  <2>1. ~Wanted(m, s) /\ m.mode # "all"
    BY <1>8 DEF Wanted, shouldBeInKernel
  <2>2. Becomes(m, dirtyCreate(n, s), k, s, v)
    BY <1>3, <1>4, <1>6, <2>1, EntersKernel
  <2> QED BY <1>5, <1>8, <2>2 DEF v, c
<1> QED BY <1>7, <1>8

\* decKernelReferCountAndModifyCache: a set that leaves the kernel with it is to
\* be destroyed.
LEMMA DecFacts ==
    ASSUME NEW m \in Manager, NEW k, LocalAll(m, k), NEW s \in DOMAIN m.setMap
    PROVE  Becomes(m, decKernelReferCountAndModifyCache(m, s), k, s,
                   [m.setMap[s] EXCEPT !.kernelReferCount = Dec(m.setMap[s].kernelReferCount)])
<1> DEFINE c == Dec(m.setMap[s].kernelReferCount)
           v == [m.setMap[s] EXCEPT !.kernelReferCount = c]
           n == [m EXCEPT !.setMap[s].kernelReferCount = c]
<1>1. m.setMap[s] \in SetRecord /\ m.setMap[s].kernelReferCount \in Nat
  BY SetFacts
<1>2. c \in Nat /\ (c > 0 => m.setMap[s].kernelReferCount > 0)
  BY <1>1 DEF Dec
<1> HIDE DEF c
<1>3. HasSet(n, m, s, v)
  BY <1>2, KernelCountReplaced
<1>4. /\ v \in SetRecord /\ v.ipPodKey = m.setMap[s].ipPodKey
      /\ v.memberIPSets = m.setMap[s].memberIPSets
      /\ v.refs = m.setMap[s].refs /\ v.kernelReferCount = c
  BY <1>1, <1>2, CountedFacts
<1>5. decKernelReferCountAndModifyCache(m, s) =
          IF shouldBeInKernel(n, s) THEN n ELSE dirtyDestroy(n, s, Members(m, s))
  BY DEF decKernelReferCountAndModifyCache, c
<1> HIDE DEF v, n
<1>6. s \in DOMAIN n.setMap /\ n.setMap[s] = v /\ n.mode = m.mode
  BY <1>3 DEF HasSet, IsWith
<1>7. CASE shouldBeInKernel(n, s)
  <2>1. Wanted(n, s) /\ Wanted(m, s)
    BY <1>2, <1>4, <1>6, <1>7 DEF Wanted, shouldBeInKernel
  <2>2. Becomes(m, n, k, s, v)
    BY <1>3, <1>4, <2>1, StaysWanted
  <2> QED BY <1>5, <1>7, <2>2 DEF v, c
<1>8. CASE ~shouldBeInKernel(n, s)
  <2>1. ~Wanted(n, s) /\ m.mode # "all"
    BY <1>6, <1>8 DEF Wanted, shouldBeInKernel
  <2>2. Becomes(m, dirtyDestroy(n, s, Members(m, s)), k, s, v)
    BY <1>3, <1>4, <2>1, LeavesKernel
  <2> QED BY <1>5, <1>8, <2>2 DEF v, c
<1> QED BY <1>7, <1>8

-----------------------------------------------------------------------------
(* Members of lists *)

\* In r the list l has the members X and s the counts n and c; the rest of the
\* cached sets are as in m, and everything but the counts is in order.
Listed(m, r, k, l, s, X, n, c) ==
    /\ r \in Manager /\ r.mode = m.mode /\ DOMAIN r.setMap = DOMAIN m.setMap
    /\ \A t \in DOMAIN m.setMap :
          /\ r.setMap[t].refs = m.setMap[t].refs
          /\ t # l => r.setMap[t].memberIPSets = m.setMap[t].memberIPSets
          /\ t # s => /\ r.setMap[t].ipsetReferCount = m.setMap[t].ipsetReferCount
                      /\ r.setMap[t].kernelReferCount = m.setMap[t].kernelReferCount
    /\ r.setMap[l].memberIPSets = X
    /\ r.setMap[s].ipsetReferCount = n /\ r.setMap[s].kernelReferCount = c
    /\ LocalAll(r, k)

\* The list l and its member s are written, once the dirty cache is that of a.
ListChange(m, a, b, k, l, s, X, n) ==
    /\ SameDirty(a, b, l) /\ b.mode = m.mode /\ l \in DOMAIN b.setMap
    /\ Wanted(b, l) <=> Wanted(m, l)
    /\ Members(b, l) = X /\ KindsAt(b, l)
    /\ Local(b, k, l) => Listed(m, b, k, l, s, X, n, m.setMap[s].kernelReferCount)

\* AddToLists and RemoveFromList write the list's members and the count of the
\* member in one go, after the dirty cache.
LEMMA ListWritten ==
    ASSUME NEW m, NEW k, Good(m, k), NEW l \in ListSets, NEW s \in HashSets,
           l \in DOMAIN m.setMap, s \in DOMAIN m.setMap, NEW a, DirtyChange(m, a, l),
           NEW X \in SUBSET HashSets, NEW n \in Nat,
           NEW b, b = [a EXCEPT !.setMap[l].memberIPSets = X, !.setMap[s].ipsetReferCount = n]
    PROVE  ListChange(m, a, b, k, l, s, X, n)
<1> DEFINE w == [m.setMap[l] EXCEPT !.memberIPSets = X]
           v == [m.setMap[s] EXCEPT !.ipsetReferCount = n]
           c == [a EXCEPT !.setMap[l].memberIPSets = X]
<1>1. l # s /\ l \notin HashSets /\ s \notin ListSets /\ l \in Sets /\ s \in Sets
  BY NPMAssumption DEF Sets
<1>2. /\ a \in Manager /\ a.mode = m.mode /\ a.setMap = m.setMap
      /\ \A t \in Sets \ {l} : SameDirty(m, a, t)
  BY DEF DirtyChange
<1>3. m \in Manager /\ \A t \in Sets : Local(m, k, t)
  BY DEF Good
<1>4. HasSet(c, a, l, w)
  BY <1>2, MemberSetsReplaced
<1>5. /\ c \in Manager /\ DOMAIN c.setMap = DOMAIN m.setMap
      /\ c.setMap[l] = w /\ \A t \in DOMAIN m.setMap \ {l} : c.setMap[t] = m.setMap[t]
  BY <1>2, <1>4 DEF HasSet, IsWith
<1>6. b = [c EXCEPT !.setMap[s].ipsetReferCount = n]
  BY <1>1
<1> HIDE DEF c
<1>7. HasSet(b, c, s, v)
  <2>1. c \in Manager /\ s \in DOMAIN c.setMap /\ c.setMap[s] = m.setMap[s]
    BY <1>1, <1>5
  <2>2. HasSet([c EXCEPT !.setMap[s].ipsetReferCount = n], c, s,
               [c.setMap[s] EXCEPT !.ipsetReferCount = n])
    BY <2>1, ReferCountReplaced
  <2> QED BY <1>6, <2>1, <2>2
<1>8. m.setMap[l] \in SetRecord /\ m.setMap[s] \in SetRecord
  BY <1>3, SetFacts
<1>9. /\ w.memberIPSets = X /\ w.refs = m.setMap[l].refs /\ w.ipPodKey = m.setMap[l].ipPodKey
      /\ w.ipsetReferCount = m.setMap[l].ipsetReferCount
      /\ w.kernelReferCount = m.setMap[l].kernelReferCount
      /\ v.ipsetReferCount = n /\ v.refs = m.setMap[s].refs /\ v.ipPodKey = m.setMap[s].ipPodKey
      /\ v.memberIPSets = m.setMap[s].memberIPSets
      /\ v.kernelReferCount = m.setMap[s].kernelReferCount
  BY <1>8 DEF SetRecord
<1> HIDE DEF w, v
<1>10. /\ b \in Manager /\ b.mode = m.mode /\ DOMAIN b.setMap = DOMAIN m.setMap
       /\ b.setMap[l] = w /\ b.setMap[s] = v
       /\ \A t \in DOMAIN m.setMap \ {l, s} : b.setMap[t] = m.setMap[t]
  BY <1>1, <1>2, <1>4, <1>5, <1>7 DEF HasSet, IsWith
<1>11. b.toCreate = a.toCreate /\ b.toUpdate = a.toUpdate /\ b.toDestroy = a.toDestroy
  BY <1>4, <1>7 DEF HasSet
<1>12. SameDirty(a, b, l) /\ \A t \in Sets \ {l} : SameDirty(m, b, t)
  BY <1>2, <1>11 DEF SameDirty, SameAt
<1>13. ASSUME NEW t PROVE Wanted(b, t) <=> Wanted(m, t)
  <2>1. t \in DOMAIN m.setMap =>
          b.setMap[t].refs = m.setMap[t].refs
          /\ b.setMap[t].kernelReferCount = m.setMap[t].kernelReferCount
    BY <1>9, <1>10
  <2> QED BY <1>10, <2>1 DEF Wanted, shouldBeInKernel
<1>14. Members(b, l) = X /\ KindsAt(b, l)
  BY <1>1, <1>3, <1>9, <1>10 DEF Members, KindsAt, Local
<1>15. ASSUME NEW t \in Sets \ {l} PROVE Local(b, k, t)
  <2>1. SameView(m, b, t)
    <3>1. t \in DOMAIN m.setMap => /\ b.setMap[t].ipPodKey = m.setMap[t].ipPodKey
                                   /\ b.setMap[t].memberIPSets = m.setMap[t].memberIPSets
      BY <1>9, <1>10
    <3> QED BY <1>10, <1>13, <3>1 DEF SameView, Members, KindsAt
  <2> QED BY <1>3, <1>10, <1>12, <2>1, LocalKept
<1>16. Local(b, k, l) => Listed(m, b, k, l, s, X, n, m.setMap[s].kernelReferCount)
  BY <1>1, <1>9, <1>10, <1>15 DEF Listed, LocalAll
<1> QED BY <1>1, <1>10, <1>12, <1>13, <1>14, <1>16 DEF ListChange

\* Then the count of the member for the kernel follows.
LEMMA ListCounted ==
    ASSUME NEW m, NEW b, NEW k, NEW l \in DOMAIN m.setMap, NEW s \in DOMAIN m.setMap, NEW X, NEW n, NEW c, NEW r,
           NEW d \in Nat, Listed(m, b, k, l, s, X, n, c), l # s,
           Becomes(b, r, k, s, [b.setMap[s] EXCEPT !.kernelReferCount = d])
    PROVE  Listed(m, r, k, l, s, X, n, d)
<1> DEFINE v == [b.setMap[s] EXCEPT !.kernelReferCount = d]
<1>1. b \in Manager /\ DOMAIN b.setMap = DOMAIN m.setMap
  BY DEF Listed
<1>2. b.setMap[s] \in SetRecord
  BY <1>1, SetFacts
<1>3. /\ v.memberIPSets = b.setMap[s].memberIPSets /\ v.refs = b.setMap[s].refs
      /\ v.ipsetReferCount = b.setMap[s].ipsetReferCount /\ v.kernelReferCount = d
  BY <1>2, CountedFacts
<1>4. /\ r \in Manager /\ r.mode = b.mode /\ LocalAll(r, k)
      /\ DOMAIN r.setMap = DOMAIN m.setMap /\ r.setMap[s] = v
      /\ \A t \in DOMAIN m.setMap : t # s => r.setMap[t] = b.setMap[t]
  BY <1>1 DEF Becomes, IsWith
<1> HIDE DEF v
<1> QED BY <1>3, <1>4 DEF Listed

\* With the counts right for s, everything is in order.
LEMMA ListedIsGood ==
    ASSUME NEW m, NEW k, Good(m, k), NEW l \in ListSets, NEW s \in HashSets,
           l \in DOMAIN m.setMap, s \in DOMAIN m.setMap,
           NEW X \in SUBSET DOMAIN m.setMap, NEW n, NEW c, NEW r, Listed(m, r, k, l, s, X, n, c),
           X \ {s} = m.setMap[l].memberIPSets \ {s},
           LET L == IF s \in X THEN {l} ELSE {}
               K == IF s \in X /\ shouldBeInKernel(m, l) THEN {l} ELSE {}
           IN  /\ n = Cardinality((ListsOf(m, s) \ {l}) \cup L)
               /\ c = Cardinality((KernelListsOf(m, s) \ {l}) \cup K)
    PROVE  Good(r, k)
<1>1. /\ r \in Manager /\ r.mode = m.mode /\ DOMAIN r.setMap = DOMAIN m.setMap
      /\ \A t \in DOMAIN m.setMap :
            /\ r.setMap[t].refs = m.setMap[t].refs
            /\ t # l => r.setMap[t].memberIPSets = m.setMap[t].memberIPSets
            /\ t # s => /\ r.setMap[t].ipsetReferCount = m.setMap[t].ipsetReferCount
                        /\ r.setMap[t].kernelReferCount = m.setMap[t].kernelReferCount
      /\ r.setMap[l].memberIPSets = X
      /\ r.setMap[s].ipsetReferCount = n /\ r.setMap[s].kernelReferCount = c
      /\ LocalAll(r, k)
  BY DEF Listed
<1>2. m \in Manager /\ Closed(m) /\ \A t \in Sets : CountsAt(m, t)
  BY DEF Good
<1>3. Closed(r)
  BY <1>1, <1>2 DEF Closed
<1>4. s \notin ListSets
  BY NPMAssumption
<1>5. \A x \in ListSets \cap DOMAIN m.setMap : shouldBeInKernel(r, x) <=> shouldBeInKernel(m, x)
  BY <1>1, <1>4 DEF shouldBeInKernel
<1>6. ASSUME NEW t \in Sets PROVE CountsAt(r, t)
  <2>1. CASE t \notin DOMAIN m.setMap
    BY <1>1, <2>1 DEF CountsAt
  <2>2. CASE t \in DOMAIN m.setMap /\ t # s
    <3>1. ListsOf(r, t) = ListsOf(m, t)
      BY <1>1, <2>2 DEF ListsOf
    <3>2. KernelListsOf(r, t) = KernelListsOf(m, t)
      BY <1>5, <3>1 DEF KernelListsOf, ListsOf
    <3> QED BY <1>1, <1>2, <2>2, <3>1, <3>2, CountsKept
  <2>3. CASE t = s
    <3> DEFINE L == IF s \in X THEN {l} ELSE {}
               K == IF s \in X /\ shouldBeInKernel(m, l) THEN {l} ELSE {}
    <3>1. ListsOf(r, s) = (ListsOf(m, s) \ {l}) \cup L
      BY <1>1 DEF ListsOf
    <3>2. KernelListsOf(r, s) = (KernelListsOf(m, s) \ {l}) \cup K
      <4>1. KernelListsOf(r, s) = {x \in ListsOf(r, s) : shouldBeInKernel(m, x)}
        BY <1>1, <1>5 DEF KernelListsOf, ListsOf
      <4> QED BY <3>1, <4>1 DEF KernelListsOf
    <3> HIDE DEF L, K
    <3>3. n = Cardinality(ListsOf(r, s)) /\ c = Cardinality(KernelListsOf(r, s))
      BY <3>1, <3>2 DEF L, K
    <3> QED BY <1>1, <2>3, <3>3 DEF CountsAt
  <2> QED BY <2>1, <2>2, <2>3
<1> QED BY <1>1, <1>3, <1>6 DEF Good, LocalAll

\* What the counts of s become when l becomes one of its lists, or is one no more.
CountsMove(m, l, s) ==
    /\ l \notin ListsOf(m, s) =>
          m.setMap[s].ipsetReferCount + 1 = Cardinality((ListsOf(m, s) \ {l}) \cup {l})
    /\ l \notin KernelListsOf(m, s) =>
          /\ m.setMap[s].kernelReferCount + 1 =
                 Cardinality((KernelListsOf(m, s) \ {l}) \cup {l})
          /\ m.setMap[s].kernelReferCount = Cardinality((KernelListsOf(m, s) \ {l}) \cup {})
    /\ l \in ListsOf(m, s) =>
          Dec(m.setMap[s].ipsetReferCount) = Cardinality((ListsOf(m, s) \ {l}) \cup {})
    /\ l \in KernelListsOf(m, s) =>
          Dec(m.setMap[s].kernelReferCount) = Cardinality((KernelListsOf(m, s) \ {l}) \cup {})

\* Lists one more or one less.
LEMMA OneListMore ==
    ASSUME NEW m, NEW k, Good(m, k), NEW l, NEW s \in DOMAIN m.setMap
    PROVE  CountsMove(m, l, s)
<1>1. m \in Manager /\ CountsAt(m, s)
  BY SetFacts DEF Good
<1>2. /\ m.setMap[s].ipsetReferCount = Cardinality(ListsOf(m, s))
      /\ m.setMap[s].kernelReferCount = Cardinality(KernelListsOf(m, s))
  BY <1>1 DEF CountsAt
<1>3. IsFiniteSet(ListsOf(m, s)) /\ IsFiniteSet(KernelListsOf(m, s))
  BY ListsFacts
<1>4. ASSUME NEW S, IsFiniteSet(S)
      PROVE  /\ l \notin S => /\ Cardinality(S) + 1 = Cardinality((S \ {l}) \cup {l})
                              /\ Cardinality(S) = Cardinality((S \ {l}) \cup {})
             /\ l \in S => Dec(Cardinality(S)) = Cardinality((S \ {l}) \cup {})
  <2>1. CASE l \notin S
    <3>1. (S \ {l}) \cup {l} = S \cup {l} /\ (S \ {l}) \cup {} = S
      BY <2>1
    <3>2. Cardinality(S \cup {l}) = Cardinality(S) + 1
      BY <1>4, <2>1, FS_AddElement
    <3> QED BY <2>1, <3>1, <3>2
  <2>2. CASE l \in S
    <3>1. (S \ {l}) \cup {} = S \ {l}
      OBVIOUS
    <3>2. Cardinality(S \ {l}) = Cardinality(S) - 1
      BY <1>4, <2>2, FS_RemoveElement
    <3>3. Cardinality(S) \in Nat /\ Cardinality(S \ {l}) \in Nat
      BY <1>4, FS_CardinalityType, FS_RemoveElement
    <3> QED BY <2>2, <3>1, <3>2, <3>3 DEF Dec
  <2> QED BY <2>1, <2>2
<1>5. /\ l \notin ListsOf(m, s) =>
            Cardinality(ListsOf(m, s)) + 1 = Cardinality((ListsOf(m, s) \ {l}) \cup {l})
      /\ l \in ListsOf(m, s) =>
            Dec(Cardinality(ListsOf(m, s))) = Cardinality((ListsOf(m, s) \ {l}) \cup {})
  BY <1>3, <1>4
<1>6. /\ l \notin KernelListsOf(m, s) =>
            /\ Cardinality(KernelListsOf(m, s)) + 1 = Cardinality((KernelListsOf(m, s) \ {l}) \cup {l})
            /\ Cardinality(KernelListsOf(m, s)) = Cardinality((KernelListsOf(m, s) \ {l}) \cup {})
      /\ l \in KernelListsOf(m, s) =>
            Dec(Cardinality(KernelListsOf(m, s))) = Cardinality((KernelListsOf(m, s) \ {l}) \cup {})
  BY <1>3, <1>4
<1> QED BY <1>2, <1>5, <1>6 DEF CountsMove

\* AddToLists, for one list and one member: the member of a list of the kernel
\* enters the kernel with it.
LEMMA AddToListKeepsGood ==
    ASSUME NEW m, NEW k, Good(m, k), NEW l \in ListSets, NEW s \in HashSets
    PROVE  Good(AddToList(m, l, s), k)
<1> DEFINE h == createAndGetIPSet(m, s)
           g == createAndGetIPSet(h, l)
           a == KernelMemberAdd(g, l, s)
           X == g.setMap[l].memberIPSets \cup {s}
           n == g.setMap[s].ipsetReferCount + 1
           b == [a EXCEPT !.setMap[l].memberIPSets = X, !.setMap[s].ipsetReferCount = n]
           r == AddToList(m, l, s)
<1>1. l # s /\ l \notin HashSets /\ s \notin ListSets /\ l \in Sets /\ s \in Sets /\ s \in Elements
  BY NPMAssumption DEF Sets, Elements
<1>2. Good(h, k) /\ s \in DOMAIN h.setMap
  BY <1>1, CreateKeepsGood DEF Made
<1>3. Good(g, k) /\ l \in DOMAIN g.setMap /\ s \in DOMAIN g.setMap
  <2> HIDE DEF h
  <2> QED BY <1>1, <1>2, CreateKeepsGood DEF Made
<1> HIDE DEF h, g
<1>4. g \in Manager /\ Closed(g) /\ Local(g, k, l)
  BY <1>1, <1>3 DEF Good
<1>5. /\ X \in SUBSET HashSets /\ n \in Nat /\ g.setMap[s].kernelReferCount \in Nat
      /\ g.setMap[l].memberIPSets \in SUBSET DOMAIN g.setMap
  BY <1>3, <1>4, SetFacts DEF Closed
<1>6. DirtyChange(g, a, l)
  BY <1>1, <1>3, <1>4, KernelMemberFacts
<1>7. Members(g, l) = g.setMap[l].memberIPSets
  BY <1>1 DEF Members
<1>8. CASE s \in Members(g, l)
  <2>1. r = g
    BY <1>8 DEF AddToList, g, h
  <2> QED BY <1>3, <2>1
<1>9. CASE s \notin Members(g, l)
  <2>1. a.setMap = g.setMap
    BY <1>6 DEF DirtyChange
  <2>2. r = IF shouldBeInKernel(b, l) THEN incKernelReferCountAndModifyCache(b, s) ELSE b
    <3>1. b = [KernelMemberAdd(g, l, s) EXCEPT !.setMap[l].memberIPSets = @ \cup {s},
                                               !.setMap[s].ipsetReferCount = @ + 1]
      <4> HIDE DEF a
      <4>1. b = [a EXCEPT !.setMap[l].memberIPSets = @ \cup {s},
                          !.setMap[s].ipsetReferCount = @ + 1]
        BY <1>1, <2>1
      <4> HIDE DEF b
      <4> QED BY <4>1 DEF a
    <3> HIDE DEF b, a
    <3> QED BY <1>9, <3>1 DEF AddToList, g, h
  <2> HIDE DEF a, r
  <2>3. ListChange(g, a, b, k, l, s, X, n)
    <3> HIDE DEF X, n
    <3> QED BY <1>3, <1>5, <1>6, ListWritten
  <2>4. /\ SameDirty(a, b, l) /\ b.mode = g.mode /\ l \in DOMAIN b.setMap
        /\ Wanted(b, l) <=> Wanted(g, l)
        /\ Members(b, l) = X /\ KindsAt(b, l)
        /\ Local(b, k, l) => Listed(g, b, k, l, s, X, n, g.setMap[s].kernelReferCount)
    <3> HIDE DEF X, n, b
    <3> QED BY <2>3 DEF ListChange
  <2> HIDE DEF b, n
  <2>5. Members(b, l) = Members(g, l) \cup {s} /\ SameDirty(KernelMemberAdd(g, l, s), b, l)
    BY <1>7, <2>4 DEF a
  <2>6. Local(b, k, l)
    BY <1>1, <1>3, <1>4, <1>9, <2>4, <2>5, AddMemberLocal
  <2>7. Listed(g, b, k, l, s, X, n, g.setMap[s].kernelReferCount)
    BY <2>4, <2>6
  <2>8. /\ l \notin ListsOf(g, s) /\ l \notin KernelListsOf(g, s)
        /\ shouldBeInKernel(b, l) <=> shouldBeInKernel(g, l)
        /\ X \in SUBSET DOMAIN g.setMap /\ X \ {s} = g.setMap[l].memberIPSets \ {s} /\ s \in X
    BY <1>3, <1>5, <1>7, <1>9, <2>4 DEF ListsOf, KernelListsOf, Wanted
  <2> HIDE DEF X
  <2>12. CountsMove(g, l, s)
    BY <1>3, OneListMore
  <2>9. n = Cardinality((ListsOf(g, s) \ {l}) \cup {l})
    BY <2>8, <2>12 DEF n, CountsMove
  <2>10. CASE shouldBeInKernel(g, l)
    <3> DEFINE d == g.setMap[s].kernelReferCount + 1
    <3>1. b \in Manager /\ LocalAll(b, k) /\ s \in DOMAIN b.setMap
          /\ b.setMap[s].kernelReferCount = g.setMap[s].kernelReferCount
      BY <1>3, <2>7 DEF Listed
    <3>2. Becomes(b, r, k, s, [b.setMap[s] EXCEPT !.kernelReferCount = b.setMap[s].kernelReferCount + 1])
      BY <2>2, <2>8, <2>10, <3>1, IncFacts
    <3>3. Becomes(b, r, k, s, [b.setMap[s] EXCEPT !.kernelReferCount = d]) /\ d \in Nat
      BY <1>5, <3>1, <3>2
    <3>4. d = Cardinality((KernelListsOf(g, s) \ {l}) \cup {l})
      BY <2>8, <2>12 DEF CountsMove
    <3> HIDE DEF d
    <3>5. Listed(g, r, k, l, s, X, n, d)
      BY <1>1, <1>3, <2>7, <3>3, ListCounted
    <3>6. Good(r, k)
      BY <1>3, <2>8, <2>9, <2>10, <3>4, <3>5, ListedIsGood
    <3> QED BY <3>6 DEF r
  <2>11. CASE ~shouldBeInKernel(g, l)
    <3> DEFINE d == g.setMap[s].kernelReferCount
    <3>1. Listed(g, r, k, l, s, X, n, d)
      BY <2>2, <2>7, <2>8, <2>11
    <3>2. d = Cardinality((KernelListsOf(g, s) \ {l}) \cup {})
      BY <2>8, <2>12 DEF CountsMove
    <3> HIDE DEF d
    <3>3. Good(r, k)
      BY <1>3, <2>8, <2>9, <2>11, <3>1, <3>2, ListedIsGood
    <3> QED BY <3>3 DEF r
  <2> QED BY <2>10, <2>11
<1> QED BY <1>8, <1>9

\* RemoveFromList, for one member.
LEMMA RemoveMemberKeepsGood ==
    ASSUME NEW m, NEW k, Good(m, k), NEW l \in ListSets, NEW s \in HashSets
    PROVE  Good(RemoveMember(m, l, s), k)
<1> DEFINE a == KernelMemberDelete(m, l, s)
           X == m.setMap[l].memberIPSets \ {s}
           n == Dec(m.setMap[s].ipsetReferCount)
           b == [a EXCEPT !.setMap[l].memberIPSets = X, !.setMap[s].ipsetReferCount = n]
           r == RemoveMember(m, l, s)
<1>1. l # s /\ l \notin HashSets /\ s \notin ListSets /\ l \in Sets /\ s \in Sets /\ s \in Elements
  BY NPMAssumption DEF Sets, Elements
<1>2. Members(m, l) = m.setMap[l].memberIPSets
  BY <1>1 DEF Members
<1>3. CASE ~({l, s} \subseteq DOMAIN m.setMap /\ s \in Members(m, l))
  BY <1>3 DEF RemoveMember
<1>4. CASE {l, s} \subseteq DOMAIN m.setMap /\ s \in Members(m, l)
  <2>1. l \in DOMAIN m.setMap /\ s \in DOMAIN m.setMap /\ s \in Members(m, l)
    BY <1>4
  <2>2. m \in Manager /\ Closed(m) /\ Local(m, k, l)
    BY <1>1 DEF Good
  <2>3. /\ X \in SUBSET HashSets /\ n \in Nat /\ m.setMap[s].kernelReferCount \in Nat
        /\ m.setMap[l].memberIPSets \in SUBSET DOMAIN m.setMap
    BY <2>1, <2>2, SetFacts DEF Closed, Dec
  <2>4. DirtyChange(m, a, l)
    BY <1>1, <2>1, <2>2, KernelMemberFacts
  <2>5. a.setMap = m.setMap
    BY <2>4 DEF DirtyChange
  <2>6. r = IF shouldBeInKernel(b, l) THEN decKernelReferCountAndModifyCache(b, s) ELSE b
    <3>1. b = [KernelMemberDelete(m, l, s) EXCEPT !.setMap[l].memberIPSets = @ \ {s},
                                                  !.setMap[s].ipsetReferCount = Dec(@)]
      <4> HIDE DEF a
      <4>1. b = [a EXCEPT !.setMap[l].memberIPSets = @ \ {s},
                          !.setMap[s].ipsetReferCount = Dec(@)]
        BY <1>1, <2>5
      <4> HIDE DEF b
      <4> QED BY <4>1 DEF a
    <3> HIDE DEF b, a
    <3> QED BY <1>4, <3>1 DEF RemoveMember
  <2> HIDE DEF a, r
  <2>7. ListChange(m, a, b, k, l, s, X, n)
    <3> HIDE DEF X, n
    <3> QED BY <2>1, <2>3, <2>4, ListWritten
  <2>8. /\ SameDirty(a, b, l) /\ b.mode = m.mode /\ l \in DOMAIN b.setMap
        /\ Wanted(b, l) <=> Wanted(m, l)
        /\ Members(b, l) = X /\ KindsAt(b, l)
        /\ Local(b, k, l) => Listed(m, b, k, l, s, X, n, m.setMap[s].kernelReferCount)
    <3> HIDE DEF X, n, b
    <3> QED BY <2>7 DEF ListChange
  <2> HIDE DEF b, n
  <2>9. Members(b, l) = Members(m, l) \ {s} /\ SameDirty(KernelMemberDelete(m, l, s), b, l)
    BY <1>2, <2>8 DEF a
  <2>10. Local(b, k, l)
    BY <1>1, <2>1, <2>2, <2>8, <2>9, DeleteMemberLocal
  <2>11. Listed(m, b, k, l, s, X, n, m.setMap[s].kernelReferCount)
    BY <2>8, <2>10
  <2>12. /\ l \in ListsOf(m, s) /\ (l \in KernelListsOf(m, s) <=> shouldBeInKernel(m, l))
         /\ shouldBeInKernel(b, l) <=> shouldBeInKernel(m, l)
         /\ X \in SUBSET DOMAIN m.setMap /\ X \ {s} = m.setMap[l].memberIPSets \ {s} /\ s \notin X
    BY <1>2, <2>1, <2>3, <2>8 DEF ListsOf, KernelListsOf, Wanted
  <2> HIDE DEF X
  <2>16. CountsMove(m, l, s)
    BY <2>1, OneListMore
  <2>13. n = Cardinality((ListsOf(m, s) \ {l}) \cup {})
    BY <2>12, <2>16 DEF n, CountsMove
  <2>14. CASE shouldBeInKernel(m, l)
    <3> DEFINE d == Dec(m.setMap[s].kernelReferCount)
    <3>1. b \in Manager /\ LocalAll(b, k) /\ s \in DOMAIN b.setMap
          /\ b.setMap[s].kernelReferCount = m.setMap[s].kernelReferCount
      BY <2>1, <2>11 DEF Listed
    <3>2. Becomes(b, r, k, s, [b.setMap[s] EXCEPT !.kernelReferCount = Dec(b.setMap[s].kernelReferCount)])
      BY <2>6, <2>12, <2>14, <3>1, DecFacts
    <3>3. Becomes(b, r, k, s, [b.setMap[s] EXCEPT !.kernelReferCount = d]) /\ d \in Nat
      BY <2>3, <3>1, <3>2 DEF Dec
    <3>4. d = Cardinality((KernelListsOf(m, s) \ {l}) \cup {})
      BY <2>12, <2>14, <2>16 DEF CountsMove
    <3> HIDE DEF d
    <3>5. Listed(m, r, k, l, s, X, n, d)
      BY <1>1, <2>1, <2>11, <3>3, ListCounted
    <3>6. Good(r, k)
      BY <2>1, <2>12, <2>13, <2>14, <3>4, <3>5, ListedIsGood
    <3> QED BY <3>6 DEF r
  <2>15. CASE ~shouldBeInKernel(m, l)
    <3> DEFINE d == m.setMap[s].kernelReferCount
    <3>1. Listed(m, r, k, l, s, X, n, d)
      BY <2>6, <2>11, <2>12, <2>15
    <3>2. d = Cardinality((KernelListsOf(m, s) \ {l}) \cup {})
      BY <2>12, <2>15, <2>16 DEF CountsMove
    <3> HIDE DEF d
    <3>3. Good(r, k)
      BY <2>1, <2>12, <2>13, <2>15, <3>1, <3>2, ListedIsGood
    <3> QED BY <3>3 DEF r
  <2> QED BY <2>14, <2>15
<1> QED BY <1>3, <1>4

-----------------------------------------------------------------------------
(* Sets are deleted *)

\* modifyCacheForCacheDeletion without force: only an empty set that no policy and
\* no list refers to is deleted; with ApplyAllIPSets it is then to be destroyed,
\* unless the kernel has never had it.
LEMMA DeletionKeepsGood ==
    ASSUME NEW m, NEW k, Good(m, k), NEW s \in Sets
    PROVE  Good(modifyCacheForCacheDeletion(m, s, "soft"), k)
<1> DEFINE r == modifyCacheForCacheDeletion(m, s, "soft")
<1>1. CASE s \notin DOMAIN m.setMap \/ ~canBeDeleted(m, s, "soft")
  BY <1>1 DEF modifyCacheForCacheDeletion
<1>2. CASE s \in DOMAIN m.setMap /\ canBeDeleted(m, s, "soft")
  <2> DEFINE f == Without(m.setMap, {s})
             n == [m EXCEPT !.setMap = f]
  <2>1. m \in Manager /\ Closed(m) /\ \A t \in Sets : Local(m, k, t) /\ CountsAt(m, t)
    BY DEF Good
  <2>2. s \in DOMAIN m.setMap /\ m.setMap[s].refs = {} /\ m.setMap[s].ipsetReferCount = 0
        /\ Members(m, s) = {}
    BY <1>2 DEF canBeDeleted
  <2>3. f \in Maps(Sets, SetRecord) /\ IsWithout(f, m.setMap, s)
    BY <2>1, ManagerFacts, WithoutFacts
  <2>4. r = IF m.mode = "all" THEN dirtyDestroy(n, s, {}) ELSE n
    <3> HIDE DEF f
    <3>1. r = IF m.mode = "all" THEN dirtyDestroy(n, s, Members(m, s)) ELSE n
      BY <1>2 DEF modifyCacheForCacheDeletion, f
    <3> QED BY <2>2, <3>1
  <2> HIDE DEF f, r
  <2>5. /\ n \in Manager /\ n.mode = m.mode /\ n.setMap = f
        /\ n.toCreate = m.toCreate /\ n.toUpdate = m.toUpdate /\ n.toDestroy = m.toDestroy
    BY <2>1, <2>3, ManagerFacts DEF Manager
  <2> HIDE DEF n
  <2>6. ListsOf(m, s) = {} /\ KernelListsOf(m, s) = {} /\ m.setMap[s].kernelReferCount = 0
    <3>1. Cardinality(ListsOf(m, s)) = 0 /\ IsFiniteSet(ListsOf(m, s))
      BY <2>1, <2>2, ListsFacts DEF CountsAt
    <3>2. ListsOf(m, s) = {}
      BY <3>1, FS_EmptySet
    <3>3. KernelListsOf(m, s) = {} /\ Cardinality({}) = 0
      BY <3>2, FS_EmptySet DEF KernelListsOf
    <3> QED BY <2>1, <2>2, <3>2, <3>3 DEF CountsAt
  <2>7. InOneMap(m, s) /\ InOneMap(n, s)
    BY <2>1, <2>5 DEF Local, DirtyAt, InOneMap, toAddOrUpdate
  <2>8. /\ DirtyChange(n, r, s)
        /\ m.mode = "all" => /\ s \in DOMAIN m.toDestroy => r = n
                             /\ s \in DOMAIN m.toCreate => Clean(r, s)
                             /\ s \notin DOMAIN m.toCreate \cup DOMAIN m.toDestroy =>
                                   Destroys(r, s, diffOnDestroy(memberDiff(n, s), {}))
        /\ m.mode # "all" => r = n
    <3>1. CASE m.mode = "all"
      <4>1. r = dirtyDestroy(n, s, {}) /\ {} \in SUBSET Elements
        BY <2>4, <3>1
      <4> QED BY <2>5, <2>7, <3>1, <4>1, DirtyDestroyFacts
    <3>2. CASE m.mode # "all"
      BY <2>4, <2>5, <3>2 DEF DirtyChange, SameDirty, SameAt
    <3> QED BY <3>1, <3>2
  <2>9. /\ r \in Manager /\ r.mode = m.mode /\ DOMAIN r.setMap = DOMAIN m.setMap \ {s}
        /\ \A t \in DOMAIN r.setMap : r.setMap[t] = m.setMap[t]
        /\ \A t \in Sets \ {s} : SameDirty(m, r, t)
    BY <2>3, <2>5, <2>8 DEF DirtyChange, IsWithout, SameDirty, SameAt
  <2>10. Closed(r)
    <3> SUFFICES ASSUME NEW t \in DOMAIN r.setMap
                 PROVE  r.setMap[t].memberIPSets \in SUBSET DOMAIN r.setMap
      BY DEF Closed
    <3>1. /\ t \in DOMAIN m.setMap /\ t \in Sets /\ r.setMap[t] = m.setMap[t]
          /\ m.setMap[t].memberIPSets \in SUBSET DOMAIN m.setMap
      BY <2>1, <2>9, SetFacts DEF Closed
    <3>2. CASE t \in ListSets
      BY <2>6, <2>9, <3>1, <3>2 DEF ListsOf
    <3>3. CASE t \in HashSets
      BY <2>1, <3>1, <3>3 DEF Local, KindsAt
    <3> QED BY <3>1, <3>2, <3>3 DEF Sets
  <2>11. ASSUME NEW t \in Sets PROVE CountsAt(r, t)
    <3>1. CASE t \notin DOMAIN r.setMap
      BY <3>1 DEF CountsAt
    <3>2. CASE t \in DOMAIN r.setMap
      <4>1. s \in ListSets => m.setMap[s].memberIPSets = {}
        BY <2>2, NPMAssumption DEF Members
      <4>2. ListsOf(r, t) = ListsOf(m, t)
        BY <2>9, <4>1 DEF ListsOf
      <4>3. \A x \in ListsOf(r, t) : shouldBeInKernel(r, x) <=> shouldBeInKernel(m, x)
        BY <2>9 DEF ListsOf, shouldBeInKernel
      <4>4. KernelListsOf(r, t) = KernelListsOf(m, t)
        BY <4>2, <4>3 DEF KernelListsOf
      <4> QED BY <2>1, <2>9, <3>2, <4>2, <4>4, CountsKept
    <3> QED BY <3>1, <3>2
  <2>12. ASSUME NEW t \in Sets, t # s PROVE Local(r, k, t)
    <3>1. SameAt(m.setMap, r.setMap, t)
      BY <2>9, <2>12 DEF SameAt
    <3>2. SameView(m, r, t)
      BY <2>9, <3>1, ViewOfSame
    <3> QED BY <2>1, <2>9, <2>12, <3>2, LocalKept
  <2>13. Local(r, k, s)
    <3>1. ~Wanted(r, s) /\ KindsAt(r, s) /\ s \notin DOMAIN r.setMap
      BY <2>9 DEF Wanted, KindsAt
    <3>2. CASE m.mode = "all"
      <4>1. s \notin DOMAIN m.toDestroy
        BY <2>1, <2>2, <3>2 DEF Local, DirtyAt, Wanted, shouldBeInKernel
      <4>2. CASE s \in DOMAIN m.toCreate
        <5>1. Clean(r, s)
          BY <2>8, <3>2, <4>2
        <5>2. DirtyAt(r, s)
          BY <5>1 DEF DirtyAt, InOneMap, Clean, Dirty, toAddOrUpdate
        <5>3. Strict(m) => s \notin DOMAIN k
          BY <2>1, <4>2 DEF Local, SyncAt
        <5>4. Strict(m) => SyncAt(r, k, s)
          BY <3>1, <5>1, <5>3 DEF SyncAt, StaticAt, CleanAt, Clean, Dirty, toAddOrUpdate
        <5> QED BY <2>9, <3>1, <5>2, <5>4 DEF Local, Strict
      <4>3. CASE s \notin DOMAIN m.toCreate
        <5> DEFINE d == memberDiff(m, s)
                   e == diffOnDestroy(d, {})
        <5>1. Destroys(r, s, e)
          <6>1. memberDiff(n, s) = d
            BY <2>5 DEF memberDiff
          <6> QED BY <2>8, <3>2, <4>1, <4>3, <6>1
        <5>2. DirtyAt(r, s)
          BY <3>1, <5>1 DEF DirtyAt, InOneMap, Destroys, toAddOrUpdate
        <5>3. ASSUME Strict(m) PROVE SyncAt(r, k, s)
          <6>1. SyncAt(m, k, s)
            BY <2>1, <5>3 DEF Local
          <6>2. s \in DOMAIN k /\ LeadsTo(m, s, k[s], d.del, d.add)
            BY <2>2, <4>1, <4>3, <6>1, DiffLeads
          <6>3. e.add = {} /\ e.del = d.del
            BY DEF diffOnDestroy
          <6> HIDE DEF d, e
          <6>4. d.del = k[s]
            BY <2>2, <6>2 DEF LeadsTo
          <6> QED BY <5>1, <6>2, <6>3, <6>4
                  DEF SyncAt, StaticAt, CleanAt, Destroys, Dirty, toAddOrUpdate
        <5> QED BY <2>9, <3>1, <5>2, <5>3 DEF Local, Strict
      <4> QED BY <4>2, <4>3
    <3>3. CASE m.mode # "all"
      <4>1. ~Wanted(m, s)
        BY <2>2, <2>6, <3>3 DEF Wanted, shouldBeInKernel
      <4>2. s \notin toAddOrUpdate(m)
        BY <2>1, <4>1 DEF Local, DirtyAt
      <4>3. r.toCreate = m.toCreate /\ r.toUpdate = m.toUpdate /\ r.toDestroy = m.toDestroy
        BY <2>5, <2>8, <3>3
      <4>4. DirtyAt(r, s)
        BY <2>7, <3>1, <4>2, <4>3 DEF DirtyAt, InOneMap, toAddOrUpdate
      <4> QED BY <2>9, <3>1, <3>3, <4>4 DEF Local, Strict
    <3> QED BY <3>2, <3>3
  <2>14. Good(r, k)
    BY <2>9, <2>10, <2>11, <2>12, <2>13 DEF Good
  <2> QED BY <2>14 DEF r
<1> QED BY <1>1, <1>2

-----------------------------------------------------------------------------
(* Policies refer to sets *)

\* The managers whose sets are those of b, in order but for the counts.
Likes(b, k) == {n \in Manager : DOMAIN n.setMap = DOMAIN b.setMap /\ LocalAll(n, k)}

\* The set t of b with the count up(t) for the kernel.
WithCount(b, t, c) == [b.setMap[t] EXCEPT !.kernelReferCount = c]

\* Of the managers like b, those in which the sets of P have the counts c.
CountedTo(b, k, P, c) ==
    {n \in Likes(b, k) :
        /\ n.mode = b.mode
        /\ \A t \in DOMAIN b.setMap :
              n.setMap[t] = IF t \in P THEN WithCount(b, t, c[t]) ELSE b.setMap[t]}

\* One more set has its count.
LEMMA OneMoreCounted ==
    ASSUME NEW b, NEW k, NEW P, NEW c, NEW x \in DOMAIN b.setMap, x \notin P,
           NEW n \in CountedTo(b, k, P, c), NEW r,
           Becomes(n, r, k, x, [n.setMap[x] EXCEPT !.kernelReferCount = c[x]])
    PROVE  r \in CountedTo(b, k, P \cup {x}, c)
<1>1. /\ n \in Manager /\ DOMAIN n.setMap = DOMAIN b.setMap /\ n.mode = b.mode
      /\ \A t \in DOMAIN b.setMap :
            n.setMap[t] = IF t \in P THEN WithCount(b, t, c[t]) ELSE b.setMap[t]
  BY DEF CountedTo, Likes
<1>2. n.setMap[x] = b.setMap[x]
  BY <1>1
<1>3. /\ r \in Manager /\ r.mode = b.mode /\ LocalAll(r, k)
      /\ DOMAIN r.setMap = DOMAIN b.setMap /\ r.setMap[x] = WithCount(b, x, c[x])
      /\ \A t \in DOMAIN b.setMap : t # x => r.setMap[t] = n.setMap[t]
  BY <1>1, <1>2 DEF Becomes, IsWith, WithCount
<1>4. \A t \in DOMAIN b.setMap :
          r.setMap[t] = IF t \in P \cup {x} THEN WithCount(b, t, c[t]) ELSE b.setMap[t]
  BY <1>1, <1>3
<1> QED BY <1>3, <1>4 DEF CountedTo, Likes

\* The members of a list that enters the kernel are counted up.
LEMMA MembersCountedUp ==
    ASSUME NEW b \in Manager, NEW k, LocalAll(b, k), NEW P \in SUBSET DOMAIN b.setMap, IsFiniteSet(P),
           NEW c, c = [t \in DOMAIN b.setMap |-> b.setMap[t].kernelReferCount + 1]
    PROVE  FoldSet(LAMBDA x, n : incKernelReferCountAndModifyCache(n, x), b, P)
             \in CountedTo(b, k, P, c)
<1> DEFINE E(f) == [s \in SUBSET P |->
                      IF s = {} THEN b
                      ELSE incKernelReferCountAndModifyCache(f[s \ {Ch(s)}], Ch(s))]
           it == CHOOSE f : f = E(f)
           M == Likes(b, k)
           G == [p \in P \X M |-> incKernelReferCountAndModifyCache(p[2], p[1])]
           J == [s \in SUBSET P |-> CountedTo(b, k, s, c)]
<1>1. FoldSet(LAMBDA x, n : incKernelReferCountAndModifyCache(n, x), b, P) = it[P]
  BY DEF FoldSet, MapThenFoldSet, Ch
<1>2. b \in M
  BY DEF Likes
<1>3. ASSUME NEW x \in P, NEW n \in M PROVE incKernelReferCountAndModifyCache(n, x) \in M
  <2>1. n \in Manager /\ LocalAll(n, k) /\ x \in DOMAIN n.setMap /\ DOMAIN n.setMap = DOMAIN b.setMap
    BY DEF Likes
  <2>2. Becomes(n, incKernelReferCountAndModifyCache(n, x), k, x,
                [n.setMap[x] EXCEPT !.kernelReferCount = n.setMap[x].kernelReferCount + 1])
    BY <2>1, IncFacts
  <2> QED BY <2>1, <2>2 DEF Becomes, IsWith, Likes
<1>4. G \in [P \X M -> M]
  BY <1>3
<1>5. PICK f \in [SUBSET P -> M] : IsFold(f, P, b, G)
  <2> HIDE DEF G, M
  <2> QED BY <1>2, <1>4, FoldExists
<1>6. f = E(f)
  <2>1. \A s \in SUBSET P : s # {} => Ch(s) \in P /\ s \ {Ch(s)} \in SUBSET P
    BY DEF Ch
  <2>2. \A s \in SUBSET P : f[s] = E(f)[s]
    BY <1>5, <2>1 DEF IsFold
  <2> QED BY <1>5, <2>2
<1>7. it = E(it)
  <2> HIDE DEF E
  <2> QED BY <1>6
<1> HIDE DEF it
<1>8. it[{}] = b
  BY <1>7
<1>9. ASSUME NEW s \in SUBSET P, NEW x \in P \ s, x = Ch(s \cup {x})
      PROVE  it[s \cup {x}] = incKernelReferCountAndModifyCache(it[s], x)
  <2>1. s \cup {x} \in SUBSET P /\ s \cup {x} # {} /\ (s \cup {x}) \ {x} = s
    OBVIOUS
  <2>2. E(it)[s \cup {x}] =
          incKernelReferCountAndModifyCache(it[(s \cup {x}) \ {Ch(s \cup {x})}], Ch(s \cup {x}))
    BY <2>1
  <2> QED BY <1>7, <1>9, <2>1, <2>2
<1>10. it[{}] \in J[{}]
  BY <1>2, <1>8 DEF CountedTo
<1>11. ASSUME NEW s \in SUBSET P, NEW x \in P \ s, it[s] \in J[s], x = Ch(s \cup {x})
       PROVE  it[s \cup {x}] \in J[s \cup {x}]
  <2> DEFINE n == it[s]
  <2>1. n \in CountedTo(b, k, s, c)
    BY <1>11
  <2> HIDE DEF n
  <2>2. /\ n \in Manager /\ LocalAll(n, k) /\ x \in DOMAIN n.setMap /\ n.setMap[x] = b.setMap[x]
    BY <2>1 DEF CountedTo, Likes
  <2>3. Becomes(n, incKernelReferCountAndModifyCache(n, x), k, x,
                [n.setMap[x] EXCEPT !.kernelReferCount = n.setMap[x].kernelReferCount + 1])
    BY <2>2, IncFacts
  <2>4. c[x] = n.setMap[x].kernelReferCount + 1
    BY <2>2
  <2>5. incKernelReferCountAndModifyCache(n, x) \in CountedTo(b, k, s \cup {x}, c)
    BY <2>1, <2>3, <2>4, OneMoreCounted
  <2>6. it[s \cup {x}] \in CountedTo(b, k, s \cup {x}, c)
    BY <1>9, <1>11, <2>5 DEF n
  <2> QED BY <2>6
<1>12. it[P] \in J[P]
  <2> HIDE DEF J
  <2> QED BY <1>10, <1>11, FoldInduction
<1> QED BY <1>1, <1>12

\* The members of a list that leaves the kernel are counted down.
LEMMA MembersCountedDown ==
    ASSUME NEW b \in Manager, NEW k, LocalAll(b, k), NEW P \in SUBSET DOMAIN b.setMap, IsFiniteSet(P),
           NEW c, c = [t \in DOMAIN b.setMap |-> Dec(b.setMap[t].kernelReferCount)]
    PROVE  FoldSet(LAMBDA x, n : decKernelReferCountAndModifyCache(n, x), b, P)
             \in CountedTo(b, k, P, c)
<1> DEFINE E(f) == [s \in SUBSET P |->
                      IF s = {} THEN b
                      ELSE decKernelReferCountAndModifyCache(f[s \ {Ch(s)}], Ch(s))]
           it == CHOOSE f : f = E(f)
           M == Likes(b, k)
           G == [p \in P \X M |-> decKernelReferCountAndModifyCache(p[2], p[1])]
           J == [s \in SUBSET P |-> CountedTo(b, k, s, c)]
<1>1. FoldSet(LAMBDA x, n : decKernelReferCountAndModifyCache(n, x), b, P) = it[P]
  BY DEF FoldSet, MapThenFoldSet, Ch
<1>2. b \in M
  BY DEF Likes
<1>3. ASSUME NEW x \in P, NEW n \in M PROVE decKernelReferCountAndModifyCache(n, x) \in M
  <2>1. n \in Manager /\ LocalAll(n, k) /\ x \in DOMAIN n.setMap /\ DOMAIN n.setMap = DOMAIN b.setMap
    BY DEF Likes
  <2>2. Becomes(n, decKernelReferCountAndModifyCache(n, x), k, x,
                [n.setMap[x] EXCEPT !.kernelReferCount = Dec(n.setMap[x].kernelReferCount)])
    BY <2>1, DecFacts
  <2> QED BY <2>1, <2>2 DEF Becomes, IsWith, Likes
<1>4. G \in [P \X M -> M]
  BY <1>3
<1>5. PICK f \in [SUBSET P -> M] : IsFold(f, P, b, G)
  <2> HIDE DEF G, M
  <2> QED BY <1>2, <1>4, FoldExists
<1>6. f = E(f)
  <2>1. \A s \in SUBSET P : s # {} => Ch(s) \in P /\ s \ {Ch(s)} \in SUBSET P
    BY DEF Ch
  <2>2. \A s \in SUBSET P : f[s] = E(f)[s]
    BY <1>5, <2>1 DEF IsFold
  <2> QED BY <1>5, <2>2
<1>7. it = E(it)
  <2> HIDE DEF E
  <2> QED BY <1>6
<1> HIDE DEF it
<1>8. it[{}] = b
  BY <1>7
<1>9. ASSUME NEW s \in SUBSET P, NEW x \in P \ s, x = Ch(s \cup {x})
      PROVE  it[s \cup {x}] = decKernelReferCountAndModifyCache(it[s], x)
  <2>1. s \cup {x} \in SUBSET P /\ s \cup {x} # {} /\ (s \cup {x}) \ {x} = s
    OBVIOUS
  <2>2. E(it)[s \cup {x}] =
          decKernelReferCountAndModifyCache(it[(s \cup {x}) \ {Ch(s \cup {x})}], Ch(s \cup {x}))
    BY <2>1
  <2> QED BY <1>7, <1>9, <2>1, <2>2
<1>10. it[{}] \in J[{}]
  BY <1>2, <1>8 DEF CountedTo
<1>11. ASSUME NEW s \in SUBSET P, NEW x \in P \ s, it[s] \in J[s], x = Ch(s \cup {x})
       PROVE  it[s \cup {x}] \in J[s \cup {x}]
  <2> DEFINE n == it[s]
  <2>1. n \in CountedTo(b, k, s, c)
    BY <1>11
  <2> HIDE DEF n
  <2>2. /\ n \in Manager /\ LocalAll(n, k) /\ x \in DOMAIN n.setMap /\ n.setMap[x] = b.setMap[x]
    BY <2>1 DEF CountedTo, Likes
  <2>3. Becomes(n, decKernelReferCountAndModifyCache(n, x), k, x,
                [n.setMap[x] EXCEPT !.kernelReferCount = Dec(n.setMap[x].kernelReferCount)])
    BY <2>2, DecFacts
  <2>4. c[x] = Dec(n.setMap[x].kernelReferCount)
    BY <2>2
  <2>5. decKernelReferCountAndModifyCache(n, x) \in CountedTo(b, k, s \cup {x}, c)
    BY <2>1, <2>3, <2>4, OneMoreCounted
  <2>6. it[s \cup {x}] \in CountedTo(b, k, s \cup {x}, c)
    BY <1>9, <1>11, <2>5 DEF n
  <2> QED BY <2>6
<1>12. it[P] \in J[P]
  <2> HIDE DEF J
  <2> QED BY <1>10, <1>11, FoldInduction
<1> QED BY <1>1, <1>12

\* In r the policies R refer to s, and the members P of s have the counts c for the
\* kernel; the rest is as in m, and everything but the counts is in order.
Referred(m, r, k, s, R, P, c) ==
    /\ r \in Manager /\ r.mode = m.mode /\ DOMAIN r.setMap = DOMAIN m.setMap
    /\ \A t \in DOMAIN m.setMap :
          /\ r.setMap[t].refs = IF t = s THEN R ELSE m.setMap[t].refs
          /\ r.setMap[t].memberIPSets = m.setMap[t].memberIPSets
          /\ r.setMap[t].ipsetReferCount = m.setMap[t].ipsetReferCount
          /\ r.setMap[t].kernelReferCount =
                IF t \in P THEN c[t] ELSE m.setMap[t].kernelReferCount
    /\ LocalAll(r, k)

\* The policies of s change, and the members of s are counted.
LEMMA CountedIsReferred ==
    ASSUME NEW m \in Manager, NEW k, NEW s \in DOMAIN m.setMap, NEW R \in SUBSET References, NEW b,
           Becomes(m, b, k, s, [m.setMap[s] EXCEPT !.refs = R]),
           NEW P, NEW c \in [DOMAIN m.setMap -> Nat], NEW r \in CountedTo(b, k, P, c)
    PROVE  Referred(m, r, k, s, R, P, c)
<1> DEFINE v == [m.setMap[s] EXCEPT !.refs = R]
<1>1. m.setMap[s] \in SetRecord
  BY SetFacts
<1>2. /\ v.refs = R /\ v.memberIPSets = m.setMap[s].memberIPSets
      /\ v.ipsetReferCount = m.setMap[s].ipsetReferCount
      /\ v.kernelReferCount = m.setMap[s].kernelReferCount
  BY <1>1 DEF SetRecord
<1>3. /\ b \in Manager /\ b.mode = m.mode /\ DOMAIN b.setMap = DOMAIN m.setMap /\ b.setMap[s] = v
      /\ \A t \in DOMAIN m.setMap : t # s => b.setMap[t] = m.setMap[t]
  BY DEF Becomes, IsWith
<1> HIDE DEF v
<1>4. /\ r \in Manager /\ LocalAll(r, k) /\ r.mode = b.mode /\ DOMAIN r.setMap = DOMAIN b.setMap
      /\ \A t \in DOMAIN b.setMap :
            r.setMap[t] = IF t \in P THEN WithCount(b, t, c[t]) ELSE b.setMap[t]
  BY DEF CountedTo, Likes
<1>5. ASSUME NEW t \in DOMAIN m.setMap
      PROVE  /\ r.setMap[t].refs = IF t = s THEN R ELSE m.setMap[t].refs
             /\ r.setMap[t].memberIPSets = m.setMap[t].memberIPSets
             /\ r.setMap[t].ipsetReferCount = m.setMap[t].ipsetReferCount
             /\ r.setMap[t].kernelReferCount =
                   IF t \in P THEN c[t] ELSE m.setMap[t].kernelReferCount
  <2>1. b.setMap[t] \in SetRecord /\ c[t] \in Nat
    BY <1>3, SetFacts
  <2>2. /\ WithCount(b, t, c[t]).memberIPSets = b.setMap[t].memberIPSets
        /\ WithCount(b, t, c[t]).refs = b.setMap[t].refs
        /\ WithCount(b, t, c[t]).ipsetReferCount = b.setMap[t].ipsetReferCount
        /\ WithCount(b, t, c[t]).kernelReferCount = c[t]
    BY <2>1, CountedFacts DEF WithCount
  <2>3. /\ b.setMap[t].refs = IF t = s THEN R ELSE m.setMap[t].refs
        /\ b.setMap[t].memberIPSets = m.setMap[t].memberIPSets
        /\ b.setMap[t].ipsetReferCount = m.setMap[t].ipsetReferCount
        /\ b.setMap[t].kernelReferCount = m.setMap[t].kernelReferCount
    BY <1>2, <1>3
  <2> QED BY <1>3, <1>4, <2>2, <2>3
<1> QED BY <1>3, <1>4, <1>5 DEF Referred

\* With the right counts for the members, everything is in order.
LEMMA ReferredIsGood ==
    ASSUME NEW m, NEW k, Good(m, k), NEW s \in DOMAIN m.setMap, NEW R, NEW c, NEW r,
           Referred(m, r, k, s, R, m.setMap[s].memberIPSets, c),
           \A t \in m.setMap[s].memberIPSets :
               c[t] = Cardinality((KernelListsOf(m, t) \ {s}) \cup
                                  (IF shouldBeInKernel(r, s) THEN {s} ELSE {}))
    PROVE  Good(r, k)
<1> DEFINE P == m.setMap[s].memberIPSets
<1>1. /\ r \in Manager /\ r.mode = m.mode /\ DOMAIN r.setMap = DOMAIN m.setMap
      /\ \A t \in DOMAIN m.setMap :
            /\ r.setMap[t].refs = IF t = s THEN R ELSE m.setMap[t].refs
            /\ r.setMap[t].memberIPSets = m.setMap[t].memberIPSets
            /\ r.setMap[t].ipsetReferCount = m.setMap[t].ipsetReferCount
            /\ r.setMap[t].kernelReferCount =
                  IF t \in P THEN c[t] ELSE m.setMap[t].kernelReferCount
      /\ LocalAll(r, k)
  BY DEF Referred
<1>2. m \in Manager /\ Closed(m) /\ \A t \in Sets : Local(m, k, t) /\ CountsAt(m, t)
  BY DEF Good
<1>3. Closed(r)
  BY <1>1, <1>2 DEF Closed
<1>4. s \in Sets /\ P \in SUBSET HashSets
  BY <1>2, SetFacts
<1>5. s \notin ListSets => P = {}
  BY <1>2, <1>4 DEF Local, KindsAt, Sets
<1>6. \A x \in ListSets \cap DOMAIN m.setMap :
          x # s => (shouldBeInKernel(r, x) <=> shouldBeInKernel(m, x))
  <2>1. \A x \in ListSets : x \notin P
    BY <1>4, NPMAssumption
  <2> QED BY <1>1, <2>1 DEF shouldBeInKernel
<1>7. ASSUME NEW t \in Sets PROVE CountsAt(r, t)
  <2>1. CASE t \notin DOMAIN m.setMap
    BY <1>1, <2>1 DEF CountsAt
  <2>2. CASE t \in DOMAIN m.setMap
    <3>1. ListsOf(r, t) = ListsOf(m, t)
      BY <1>1 DEF ListsOf
    <3>2. CASE t \notin P
      <4>1. s \notin ListsOf(m, t)
        BY <3>2 DEF ListsOf
      <4>2. \A x \in ListsOf(m, t) : shouldBeInKernel(r, x) <=> shouldBeInKernel(m, x)
        BY <1>6, <4>1 DEF ListsOf
      <4>3. KernelListsOf(r, t) = KernelListsOf(m, t)
        BY <3>1, <4>2 DEF KernelListsOf
      <4> QED BY <1>1, <1>2, <2>2, <3>1, <3>2, <4>3, CountsKept
    <3>3. CASE t \in P
      <4> DEFINE S == IF shouldBeInKernel(r, s) THEN {s} ELSE {}
      <4>1. s \in ListsOf(m, t)
        BY <1>5, <3>3 DEF ListsOf
      <4>2. \A x \in ListsOf(m, t) : x # s => (shouldBeInKernel(r, x) <=> shouldBeInKernel(m, x))
        BY <1>6 DEF ListsOf
      <4>3. KernelListsOf(r, t) = (KernelListsOf(m, t) \ {s}) \cup S
        BY <3>1, <4>1, <4>2 DEF KernelListsOf
      <4>4. c[t] = Cardinality(KernelListsOf(r, t))
        BY <3>3, <4>3
      <4>5. m.setMap[t].ipsetReferCount = Cardinality(ListsOf(m, t))
        BY <1>2, <2>2 DEF CountsAt
      <4> QED BY <1>1, <2>2, <3>1, <3>3, <4>4, <4>5 DEF CountsAt
    <3> QED BY <3>2, <3>3
  <2> QED BY <2>1, <2>2
<1> QED BY <1>1, <1>3, <1>7 DEF Good, LocalAll

\* In n the set s is v, which has other policies than in m.
RefsTo(m, n, k, s, v) ==
    /\ LocalAll(m, k) /\ HasSet(n, m, s, v) /\ v \in SetRecord
    /\ v.ipPodKey = m.setMap[s].ipPodKey /\ v.memberIPSets = m.setMap[s].memberIPSets
    /\ (Wanted(n, s) <=> Wanted(m, s)) => Good(n, k)

\* The policies of a set change.  All is in order unless the set comes to belong
\* in the kernel, or does so no more.
LEMMA RefsChange ==
    ASSUME NEW m, NEW k, Good(m, k), NEW s \in DOMAIN m.setMap, NEW R \in SUBSET References,
           NEW v, v = [m.setMap[s] EXCEPT !.refs = R],
           NEW n, n = [m EXCEPT !.setMap[s].refs = R]
    PROVE  RefsTo(m, n, k, s, v)
<1>1. m \in Manager /\ LocalAll(m, k)
  BY DEF Good, LocalAll
<1>2. m.setMap[s] \in SetRecord /\ s \in Sets
  BY <1>1, SetFacts
<1>3. v \in SetRecord
  BY <1>2, RecordFacts
<1>4. /\ v.ipPodKey = m.setMap[s].ipPodKey /\ v.memberIPSets = m.setMap[s].memberIPSets
      /\ v.ipsetReferCount = m.setMap[s].ipsetReferCount
      /\ v.kernelReferCount = m.setMap[s].kernelReferCount
  BY <1>2 DEF SetRecord
<1>5. HasSet(n, m, s, v)
  BY <1>1, RefsReplaced
<1>6. ASSUME Wanted(n, s) <=> Wanted(m, s) PROVE Good(n, k)
  <2>1. Becomes(m, n, k, s, v)
    BY <1>1, <1>3, <1>4, <1>5, <1>6, StaysWanted
  <2>2. Local(n, k, s)
    BY <1>2, <2>1 DEF Becomes, LocalAll
  <2>3. DirtyChange(m, m, s)
    BY <1>1 DEF DirtyChange, SameDirty, SameAt
  <2> QED BY <1>4, <1>5, <1>6, <2>2, <2>3, OneSetChanged
<1> QED BY <1>1, <1>3, <1>4, <1>5, <1>6 DEF RefsTo

\* AddReference: with the first policy, a set of ApplyOnNeed enters the kernel,
\* and its members with it.
LEMMA AddReferenceKeepsGood ==
    ASSUME NEW m, NEW k, Good(m, k), NEW s \in Sets, NEW p \in References
    PROVE  Good(AddReferenceTo(m, s, p), k)
<1> DEFINE g == createAndGetIPSet(m, s)
           R == g.setMap[s].refs \cup {p}
           v == [g.setMap[s] EXCEPT !.refs = R]
           n == [g EXCEPT !.setMap[s].refs = R]
           P == g.setMap[s].memberIPSets
           r == AddReferenceTo(m, s, p)
<1>1. Good(g, k) /\ s \in DOMAIN g.setMap
  BY CreateKeepsGood DEF Made
<1>2. r = IF shouldBeInKernel(g, s) THEN n
          ELSE FoldSet(LAMBDA x, w : incKernelReferCountAndModifyCache(w, x), dirtyCreate(n, s), P)
  BY DEF AddReferenceTo
<1> HIDE DEF g, r
<1>3. g \in Manager /\ Closed(g)
  BY <1>1 DEF Good
<1>4. R \in SUBSET References /\ P \in SUBSET HashSets /\ P \in SUBSET DOMAIN g.setMap
  BY <1>1, <1>3, SetFacts DEF Closed
<1>5. /\ LocalAll(g, k) /\ HasSet(n, g, s, v) /\ v \in SetRecord
      /\ v.ipPodKey = g.setMap[s].ipPodKey /\ v.memberIPSets = g.setMap[s].memberIPSets
      /\ (Wanted(n, s) <=> Wanted(g, s)) => Good(n, k)
  <2> HIDE DEF R
  <2>1. RefsTo(g, n, k, s, v)
    BY <1>1, <1>4, RefsChange
  <2> HIDE DEF n, v
  <2> QED BY <2>1 DEF RefsTo
<1>6. v.refs # {} /\ v.kernelReferCount = g.setMap[s].kernelReferCount
  <2>1. g.setMap[s] \in SetRecord
    BY <1>1, <1>3, SetFacts
  <2>2. v.refs = R /\ v.kernelReferCount = g.setMap[s].kernelReferCount
    <3> HIDE DEF R
    <3> QED BY <2>1 DEF SetRecord
  <2> QED BY <2>2
<1> HIDE DEF R, n
<1>7. Wanted(n, s)
  <2> HIDE DEF v
  <2> QED BY <1>5, <1>6 DEF HasSet, IsWith, Wanted, shouldBeInKernel
<1>8. CASE shouldBeInKernel(g, s)
  <2>1. Wanted(g, s)
    BY <1>1, <1>8 DEF Wanted
  <2>2. Good(r, k)
    BY <1>2, <1>5, <1>7, <1>8, <2>1
  <2> QED BY <2>2 DEF r
<1>9. CASE ~shouldBeInKernel(g, s)
  <2> DEFINE b == dirtyCreate(n, s)
             c == [t \in DOMAIN b.setMap |-> b.setMap[t].kernelReferCount + 1]
  <2>1. ~Wanted(g, s) /\ g.mode # "all"
    BY <1>9 DEF Wanted, shouldBeInKernel
  <2>2. Becomes(g, b, k, s, v)
    <3> HIDE DEF v
    <3> QED BY <1>1, <1>3, <1>5, <1>7, <2>1, EntersKernel
  <2>3. r = FoldSet(LAMBDA x, w : incKernelReferCountAndModifyCache(w, x), b, P)
    BY <1>2, <1>9
  <2> HIDE DEF b
  <2>4. /\ b \in Manager /\ LocalAll(b, k) /\ DOMAIN b.setMap = DOMAIN g.setMap
        /\ b.setMap[s] = v /\ \A t \in DOMAIN g.setMap : t # s => b.setMap[t] = g.setMap[t]
    BY <1>1, <2>2 DEF Becomes, IsWith
  <2>5. P \in SUBSET DOMAIN b.setMap /\ IsFiniteSet(P)
    BY <1>4, <2>4, NPMAssumption, FS_Subset
  <2>6. r \in CountedTo(b, k, P, c)
    <3> HIDE DEF P
    <3> QED BY <2>3, <2>4, <2>5, MembersCountedUp
  <2>7. ASSUME NEW t \in DOMAIN g.setMap
        PROVE  c[t] = g.setMap[t].kernelReferCount + 1 /\ c[t] \in Nat
    <3>1. b.setMap[t].kernelReferCount = g.setMap[t].kernelReferCount
      <4> HIDE DEF v
      <4> QED BY <1>6, <2>4
    <3>2. g.setMap[t].kernelReferCount \in Nat
      BY <1>3, SetFacts
    <3> QED BY <2>4, <3>1, <3>2
  <2>8. c \in [DOMAIN g.setMap -> Nat]
    BY <2>4, <2>7
  <2> HIDE DEF c
  <2>9. Referred(g, r, k, s, R, P, c)
    BY <1>1, <1>3, <1>4, <2>2, <2>6, <2>8, CountedIsReferred
  <2>10. shouldBeInKernel(r, s)
    <3>1. r.setMap[s].refs = R
      BY <1>1, <2>9 DEF Referred
    <3> QED BY <3>1 DEF shouldBeInKernel, R
  <2>11. ASSUME NEW t \in P PROVE c[t] = Cardinality((KernelListsOf(g, t) \ {s}) \cup {s})
    <3>1. t \in DOMAIN g.setMap /\ s \notin KernelListsOf(g, t)
      BY <1>4, <1>9 DEF KernelListsOf
    <3>2. CountsMove(g, s, t)
      BY <1>1, <3>1, OneListMore
    <3> QED BY <2>7, <3>1, <3>2 DEF CountsMove
  <2>12. Good(r, k)
    BY <1>1, <2>9, <2>10, <2>11, ReferredIsGood
  <2> QED BY <2>12 DEF r
<1> QED BY <1>8, <1>9

\* DeleteReference: with its last policy, a set of ApplyOnNeed leaves the kernel,
\* and its members with it that nothing else keeps there.
LEMMA DeleteReferenceKeepsGood ==
    ASSUME NEW m, NEW k, Good(m, k), NEW s \in Sets, NEW p
    PROVE  Good(DeleteReferenceTo(m, s, p), k)
<1> DEFINE R == m.setMap[s].refs \ {p}
           v == [m.setMap[s] EXCEPT !.refs = R]
           n == [m EXCEPT !.setMap[s].refs = R]
           P == m.setMap[s].memberIPSets
           r == DeleteReferenceTo(m, s, p)
<1>1. CASE s \notin DOMAIN m.setMap
  BY <1>1 DEF DeleteReferenceTo
<1>2. CASE s \in DOMAIN m.setMap
  <2>1. r = IF ~shouldBeInKernel(m, s) \/ shouldBeInKernel(n, s) THEN n
            ELSE FoldSet(LAMBDA x, w : decKernelReferCountAndModifyCache(w, x),
                         dirtyDestroy(n, s, Members(m, s)), P)
    BY <1>2 DEF DeleteReferenceTo
  <2> HIDE DEF r
  <2>2. m \in Manager /\ Closed(m)
    BY DEF Good
  <2>3. R \in SUBSET References /\ P \in SUBSET HashSets /\ P \in SUBSET DOMAIN m.setMap
    BY <1>2, <2>2, SetFacts DEF Closed
  <2>4. /\ LocalAll(m, k) /\ HasSet(n, m, s, v) /\ v \in SetRecord
        /\ v.ipPodKey = m.setMap[s].ipPodKey /\ v.memberIPSets = m.setMap[s].memberIPSets
        /\ (Wanted(n, s) <=> Wanted(m, s)) => Good(n, k)
    <3> HIDE DEF R
    <3>1. RefsTo(m, n, k, s, v)
      BY <1>2, <2>3, RefsChange
    <3> HIDE DEF n, v
    <3> QED BY <3>1 DEF RefsTo
  <2>5. v.refs = R /\ v.kernelReferCount = m.setMap[s].kernelReferCount
    <3>1. m.setMap[s] \in SetRecord
      BY <1>2, <2>2, SetFacts
    <3> HIDE DEF R
    <3> QED BY <3>1 DEF SetRecord
  <2> HIDE DEF n
  <2>6. n.mode = m.mode /\ s \in DOMAIN n.setMap /\ n.setMap[s] = v
    <3> HIDE DEF v
    <3> QED BY <2>4 DEF HasSet, IsWith
  <2>7. shouldBeInKernel(n, s) => shouldBeInKernel(m, s)
    <3> HIDE DEF v
    <3> QED BY <2>5, <2>6 DEF shouldBeInKernel
  <2>8. CASE ~shouldBeInKernel(m, s) \/ shouldBeInKernel(n, s)
    <3>1. Wanted(n, s) <=> Wanted(m, s)
      BY <1>2, <2>6, <2>7, <2>8 DEF Wanted
    <3>2. Good(r, k)
      BY <2>1, <2>4, <2>8, <3>1
    <3> QED BY <3>2 DEF r
  <2>9. CASE shouldBeInKernel(m, s) /\ ~shouldBeInKernel(n, s)
    <3> DEFINE b == dirtyDestroy(n, s, Members(m, s))
               c == [t \in DOMAIN b.setMap |-> Dec(b.setMap[t].kernelReferCount)]
    <3>1. ~Wanted(n, s) /\ m.mode # "all"
      BY <2>6, <2>9 DEF Wanted, shouldBeInKernel
    <3>2. Becomes(m, b, k, s, v)
      <4> HIDE DEF v
      <4> QED BY <1>2, <2>2, <2>4, <3>1, LeavesKernel
    <3>3. r = FoldSet(LAMBDA x, w : decKernelReferCountAndModifyCache(w, x), b, P)
      BY <2>1, <2>9
    <3> HIDE DEF b
    <3>4. /\ b \in Manager /\ LocalAll(b, k) /\ DOMAIN b.setMap = DOMAIN m.setMap
          /\ b.setMap[s] = v /\ \A t \in DOMAIN m.setMap : t # s => b.setMap[t] = m.setMap[t]
      BY <1>2, <3>2 DEF Becomes, IsWith
    <3>5. P \in SUBSET DOMAIN b.setMap /\ IsFiniteSet(P)
      BY <2>3, <3>4, NPMAssumption, FS_Subset
    <3>6. r \in CountedTo(b, k, P, c)
      <4> HIDE DEF P
      <4> QED BY <3>3, <3>4, <3>5, MembersCountedDown
    <3>7. ASSUME NEW t \in DOMAIN m.setMap
          PROVE  c[t] = Dec(m.setMap[t].kernelReferCount) /\ c[t] \in Nat
      <4>1. b.setMap[t].kernelReferCount = m.setMap[t].kernelReferCount
        <5> HIDE DEF v
        <5> QED BY <2>5, <3>4
      <4>2. m.setMap[t].kernelReferCount \in Nat
        BY <2>2, SetFacts
      <4> QED BY <3>4, <4>1, <4>2 DEF Dec
    <3>8. c \in [DOMAIN m.setMap -> Nat]
      BY <3>4, <3>7
    <3> HIDE DEF c
    <3>9. Referred(m, r, k, s, R, P, c)
      <4> HIDE DEF R
      <4> QED BY <1>2, <2>2, <2>3, <3>2, <3>6, <3>8, CountedIsReferred
    <3>10. ~shouldBeInKernel(r, s)
      <4>1. s \notin P
        <5>1. s \in ListSets => s \notin HashSets
          BY NPMAssumption
        <5>2. s \in HashSets => P = {}
          BY <1>2, <2>4 DEF LocalAll, Local, KindsAt
        <5> QED BY <2>3, <5>1, <5>2 DEF Sets
      <4>2. /\ r.setMap[s].refs = R /\ r.mode = m.mode
            /\ r.setMap[s].kernelReferCount = m.setMap[s].kernelReferCount
        BY <1>2, <3>9, <4>1 DEF Referred
      <4>3. v.refs = {} /\ ~(v.kernelReferCount > 0) /\ m.mode # "all"
        <5> HIDE DEF v
        <5> QED BY <2>6, <2>9 DEF shouldBeInKernel
      <4> HIDE DEF v, R
      <4> QED BY <2>5, <4>2, <4>3 DEF shouldBeInKernel
    <3>11. ASSUME NEW t \in P PROVE c[t] = Cardinality((KernelListsOf(m, t) \ {s}) \cup {})
      <4>1. t \in DOMAIN m.setMap
        BY <2>3
      <4>2. s \in ListSets
        BY <1>2, <2>4 DEF LocalAll, Local, KindsAt, Sets
      <4>3. s \in KernelListsOf(m, t)
        BY <1>2, <2>9, <4>2 DEF KernelListsOf, ListsOf
      <4>4. CountsMove(m, s, t)
        BY <4>1, OneListMore
      <4> QED BY <3>7, <4>1, <4>3, <4>4 DEF CountsMove
    <3>12. Good(r, k)
      <4> HIDE DEF R
      <4> QED BY <1>2, <3>9, <3>10, <3>11, ReferredIsGood
    <3> QED BY <3>12 DEF r
  <2> QED BY <2>8, <2>9
<1> QED BY <1>1, <1>2

-----------------------------------------------------------------------------
(* The operations, each a loop over its sets *)

GoodOnes(k) == {m \in Manager : Good(m, k)}

\* What the loops of the operations make of a manager.
AllCreated(b, S) ==
    FoldSet(LAMBDA s, m : createAndGetIPSet(m, s), b, S)
AllAdded(b, S, ip, key) ==
    FoldSet(LAMBDA s, m : AddToSet(m, s, ip, key), b, S)
AllRemoved(b, S, ip, key) ==
    FoldSet(LAMBDA s, m : RemoveFromSet(m, s, ip, key), b, S)
AllListed(b, L, S) ==
    FoldSet(LAMBDA p, m : AddToList(m, p[1], p[2]), b, L \X S)
AllUnlisted(b, l, S) ==
    FoldSet(LAMBDA s, m : RemoveMember(m, l, s), b, S)
AllDeleted(b, S) ==
    FoldSet(LAMBDA s, m : modifyCacheForCacheDeletion(m, s, "soft"), b, S)

\* What a round of a loop keeps holds after it.
LEMMA LoopKeeps ==
    ASSUME NEW S, IsFiniteSet(S), NEW it, NEW M, it[{}] \in M,
           \A s \in SUBSET S : \A x \in S \ s :
               it[s] \in M /\ x = Ch(s \cup {x}) => it[s \cup {x}] \in M
    PROVE  it[S] \in M
<1> DEFINE J == [s \in SUBSET S |-> M]
<1>1. it[{}] \in J[{}]
  OBVIOUS
<1>2. \A s \in SUBSET S : \A x \in S \ s :
          it[s] \in J[s] /\ x = Ch(s \cup {x}) => it[s \cup {x}] \in J[s \cup {x}]
  OBVIOUS
<1> HIDE DEF J
<1>3. it[S] \in J[S]
  BY <1>1, <1>2, FoldInduction
<1> QED BY <1>3 DEF J

\* CreateIPSets.
LEMMA CreateLoop ==
    ASSUME NEW k, NEW b \in GoodOnes(k), NEW S \in SUBSET Sets
    PROVE  AllCreated(b, S) \in GoodOnes(k)
<1> DEFINE E(f) == [s \in SUBSET S |->
                      IF s = {} THEN b ELSE createAndGetIPSet(f[s \ {Ch(s)}], Ch(s))]
           it == CHOOSE f : f = E(f)
           G == [p \in S \X GoodOnes(k) |-> createAndGetIPSet(p[2], p[1])]
<1>1. AllCreated(b, S) = it[S]
  BY DEF AllCreated, FoldSet, MapThenFoldSet, Ch
<1>2. IsFiniteSet(S)
  <2>1. IsFiniteSet(Sets)
    BY NPMAssumption, FS_Union DEF Sets
  <2> QED BY <2>1, FS_Subset
<1>3. ASSUME NEW x \in S, NEW n \in GoodOnes(k) PROVE createAndGetIPSet(n, x) \in GoodOnes(k)
  BY CreateKeepsGood DEF GoodOnes, Good, Made
<1>4. G \in [S \X GoodOnes(k) -> GoodOnes(k)]
  BY <1>3
<1>5. PICK f \in [SUBSET S -> GoodOnes(k)] : IsFold(f, S, b, G)
  <2> HIDE DEF G
  <2> QED BY <1>2, <1>4, FoldExists
<1>6. f = E(f)
  <2>1. \A s \in SUBSET S : s # {} => Ch(s) \in S /\ s \ {Ch(s)} \in SUBSET S
    BY DEF Ch
  <2>2. \A s \in SUBSET S : f[s] = E(f)[s]
    BY <1>5, <2>1 DEF IsFold
  <2> QED BY <1>5, <2>2
<1>7. it = E(it)
  <2> HIDE DEF E
  <2> QED BY <1>6
<1> HIDE DEF it
<1>8. it[{}] = b
  BY <1>7
<1>9. ASSUME NEW s \in SUBSET S, NEW x \in S \ s, it[s] \in GoodOnes(k), x = Ch(s \cup {x})
      PROVE  it[s \cup {x}] \in GoodOnes(k)
  <2>1. s \cup {x} \in SUBSET S /\ s \cup {x} # {} /\ (s \cup {x}) \ {x} = s
    OBVIOUS
  <2>2. E(it)[s \cup {x}] = createAndGetIPSet(it[(s \cup {x}) \ {Ch(s \cup {x})}], Ch(s \cup {x}))
    BY <2>1
  <2>3. it[s \cup {x}] = createAndGetIPSet(it[s], x)
    BY <1>7, <1>9, <2>1, <2>2
  <2>4. createAndGetIPSet(it[s], x) \in GoodOnes(k)
    BY <1>3, <1>9
  <2> QED BY <2>3, <2>4
<1>10. it[S] \in GoodOnes(k)
  <2>1. it[{}] \in GoodOnes(k)
    BY <1>8
  <2> QED BY <1>2, <1>9, <2>1, LoopKeeps
<1> QED BY <1>1, <1>10

\* AddToSets.
LEMMA AddLoop ==
    ASSUME NEW k, NEW b \in GoodOnes(k), NEW S \in SUBSET HashSets, NEW ip \in IPs, NEW key \in PodKeys
    PROVE  AllAdded(b, S, ip, key) \in GoodOnes(k)
<1> DEFINE E(f) == [s \in SUBSET S |->
                      IF s = {} THEN b ELSE AddToSet(f[s \ {Ch(s)}], Ch(s), ip, key)]
           it == CHOOSE f : f = E(f)
           G == [p \in S \X GoodOnes(k) |-> AddToSet(p[2], p[1], ip, key)]
<1>1. AllAdded(b, S, ip, key) = it[S]
  BY DEF AllAdded, FoldSet, MapThenFoldSet, Ch
<1>2. IsFiniteSet(S)
  BY NPMAssumption, FS_Subset
<1>3. ASSUME NEW x \in S, NEW n \in GoodOnes(k) PROVE AddToSet(n, x, ip, key) \in GoodOnes(k)
  BY AddToSetKeepsGood DEF GoodOnes, Good
<1>4. G \in [S \X GoodOnes(k) -> GoodOnes(k)]
  BY <1>3
<1>5. PICK f \in [SUBSET S -> GoodOnes(k)] : IsFold(f, S, b, G)
  <2> HIDE DEF G
  <2> QED BY <1>2, <1>4, FoldExists
<1>6. f = E(f)
  <2>1. \A s \in SUBSET S : s # {} => Ch(s) \in S /\ s \ {Ch(s)} \in SUBSET S
    BY DEF Ch
  <2>2. \A s \in SUBSET S : f[s] = E(f)[s]
    BY <1>5, <2>1 DEF IsFold
  <2> QED BY <1>5, <2>2
<1>7. it = E(it)
  <2> HIDE DEF E
  <2> QED BY <1>6
<1> HIDE DEF it
<1>8. it[{}] = b
  BY <1>7
<1>9. ASSUME NEW s \in SUBSET S, NEW x \in S \ s, it[s] \in GoodOnes(k), x = Ch(s \cup {x})
      PROVE  it[s \cup {x}] \in GoodOnes(k)
  <2>1. s \cup {x} \in SUBSET S /\ s \cup {x} # {} /\ (s \cup {x}) \ {x} = s
    OBVIOUS
  <2>2. E(it)[s \cup {x}] = AddToSet(it[(s \cup {x}) \ {Ch(s \cup {x})}], Ch(s \cup {x}), ip, key)
    BY <2>1
  <2>3. it[s \cup {x}] = AddToSet(it[s], x, ip, key)
    BY <1>7, <1>9, <2>1, <2>2
  <2>4. AddToSet(it[s], x, ip, key) \in GoodOnes(k)
    BY <1>3, <1>9
  <2> QED BY <2>3, <2>4
<1>10. it[S] \in GoodOnes(k)
  <2>1. it[{}] \in GoodOnes(k)
    BY <1>8
  <2> QED BY <1>2, <1>9, <2>1, LoopKeeps
<1> QED BY <1>1, <1>10

\* RemoveFromSets.
LEMMA RemoveLoop ==
    ASSUME NEW k, NEW b \in GoodOnes(k), NEW S \in SUBSET HashSets, NEW ip \in IPs, NEW key
    PROVE  AllRemoved(b, S, ip, key) \in GoodOnes(k)
<1> DEFINE E(f) == [s \in SUBSET S |->
                      IF s = {} THEN b ELSE RemoveFromSet(f[s \ {Ch(s)}], Ch(s), ip, key)]
           it == CHOOSE f : f = E(f)
           G == [p \in S \X GoodOnes(k) |-> RemoveFromSet(p[2], p[1], ip, key)]
<1>1. AllRemoved(b, S, ip, key) = it[S]
  BY DEF AllRemoved, FoldSet, MapThenFoldSet, Ch
<1>2. IsFiniteSet(S)
  BY NPMAssumption, FS_Subset
<1>3. ASSUME NEW x \in S, NEW n \in GoodOnes(k) PROVE RemoveFromSet(n, x, ip, key) \in GoodOnes(k)
  BY RemoveFromSetKeepsGood DEF GoodOnes, Good
<1>4. G \in [S \X GoodOnes(k) -> GoodOnes(k)]
  BY <1>3
<1>5. PICK f \in [SUBSET S -> GoodOnes(k)] : IsFold(f, S, b, G)
  <2> HIDE DEF G
  <2> QED BY <1>2, <1>4, FoldExists
<1>6. f = E(f)
  <2>1. \A s \in SUBSET S : s # {} => Ch(s) \in S /\ s \ {Ch(s)} \in SUBSET S
    BY DEF Ch
  <2>2. \A s \in SUBSET S : f[s] = E(f)[s]
    BY <1>5, <2>1 DEF IsFold
  <2> QED BY <1>5, <2>2
<1>7. it = E(it)
  <2> HIDE DEF E
  <2> QED BY <1>6
<1> HIDE DEF it
<1>8. it[{}] = b
  BY <1>7
<1>9. ASSUME NEW s \in SUBSET S, NEW x \in S \ s, it[s] \in GoodOnes(k), x = Ch(s \cup {x})
      PROVE  it[s \cup {x}] \in GoodOnes(k)
  <2>1. s \cup {x} \in SUBSET S /\ s \cup {x} # {} /\ (s \cup {x}) \ {x} = s
    OBVIOUS
  <2>2. E(it)[s \cup {x}] = RemoveFromSet(it[(s \cup {x}) \ {Ch(s \cup {x})}], Ch(s \cup {x}), ip, key)
    BY <2>1
  <2>3. it[s \cup {x}] = RemoveFromSet(it[s], x, ip, key)
    BY <1>7, <1>9, <2>1, <2>2
  <2>4. RemoveFromSet(it[s], x, ip, key) \in GoodOnes(k)
    BY <1>3, <1>9
  <2> QED BY <2>3, <2>4
<1>10. it[S] \in GoodOnes(k)
  <2>1. it[{}] \in GoodOnes(k)
    BY <1>8
  <2> QED BY <1>2, <1>9, <2>1, LoopKeeps
<1> QED BY <1>1, <1>10

\* AddToLists.
LEMMA AddToListLoop ==
    ASSUME NEW k, NEW b \in GoodOnes(k), NEW l \in ListSets, NEW S \in SUBSET HashSets
    PROVE  AllListed(b, {l}, S) \in GoodOnes(k)
<1> DEFINE E(f) == [s \in SUBSET ({l} \X S) |->
                      IF s = {} THEN b ELSE AddToList(f[s \ {Ch(s)}], Ch(s)[1], Ch(s)[2])]
           it == CHOOSE f : f = E(f)
           G == [p \in ({l} \X S) \X GoodOnes(k) |-> AddToList(p[2], p[1][1], p[1][2])]
<1>1. AllListed(b, {l}, S) = it[{l} \X S]
  BY DEF AllListed, FoldSet, MapThenFoldSet, Ch
<1>2. IsFiniteSet({l} \X S)
  <2>1. IsFiniteSet(S) /\ IsFiniteSet({l})
    BY NPMAssumption, FS_Subset, FS_Singleton
  <2> QED BY <2>1, FS_Product
<1>3. ASSUME NEW x \in {l} \X S, NEW n \in GoodOnes(k) PROVE AddToList(n, x[1], x[2]) \in GoodOnes(k)
  BY AddToListKeepsGood DEF GoodOnes, Good
<1>4. G \in [({l} \X S) \X GoodOnes(k) -> GoodOnes(k)]
  BY <1>3
<1>5. PICK f \in [SUBSET ({l} \X S) -> GoodOnes(k)] : IsFold(f, {l} \X S, b, G)
  <2> HIDE DEF G
  <2> QED BY <1>2, <1>4, FoldExists
<1>6. f = E(f)
  <2>1. \A s \in SUBSET ({l} \X S) : s # {} => Ch(s) \in {l} \X S /\ s \ {Ch(s)} \in SUBSET ({l} \X S)
    BY DEF Ch
  <2>2. \A s \in SUBSET ({l} \X S) : f[s] = E(f)[s]
    BY <1>5, <2>1 DEF IsFold
  <2> QED BY <1>5, <2>2
<1>7. it = E(it)
  <2> HIDE DEF E
  <2> QED BY <1>6
<1> HIDE DEF it
<1>8. it[{}] = b
  BY <1>7
<1>9. ASSUME NEW s \in SUBSET ({l} \X S), NEW x \in ({l} \X S) \ s, it[s] \in GoodOnes(k), x = Ch(s \cup {x})
      PROVE  it[s \cup {x}] \in GoodOnes(k)
  <2>1. s \cup {x} \in SUBSET ({l} \X S) /\ s \cup {x} # {} /\ (s \cup {x}) \ {x} = s
    OBVIOUS
  <2>2. E(it)[s \cup {x}] = AddToList(it[(s \cup {x}) \ {Ch(s \cup {x})}], Ch(s \cup {x})[1], Ch(s \cup {x})[2])
    BY <2>1
  <2>3. it[s \cup {x}] = AddToList(it[s], x[1], x[2])
    BY <1>7, <1>9, <2>1, <2>2
  <2>4. AddToList(it[s], x[1], x[2]) \in GoodOnes(k)
    BY <1>3, <1>9
  <2> QED BY <2>3, <2>4
<1>10. it[{l} \X S] \in GoodOnes(k)
  <2>1. it[{}] \in GoodOnes(k)
    BY <1>8
  <2> QED BY <1>2, <1>9, <2>1, LoopKeeps
<1> QED BY <1>1, <1>10

\* RemoveFromList.
LEMMA RemoveMemberLoop ==
    ASSUME NEW k, NEW b \in GoodOnes(k), NEW l \in ListSets, NEW S \in SUBSET HashSets
    PROVE  AllUnlisted(b, l, S) \in GoodOnes(k)
<1> DEFINE E(f) == [s \in SUBSET S |->
                      IF s = {} THEN b ELSE RemoveMember(f[s \ {Ch(s)}], l, Ch(s))]
           it == CHOOSE f : f = E(f)
           G == [p \in S \X GoodOnes(k) |-> RemoveMember(p[2], l, p[1])]
<1>1. AllUnlisted(b, l, S) = it[S]
  BY DEF AllUnlisted, FoldSet, MapThenFoldSet, Ch
<1>2. IsFiniteSet(S)
  BY NPMAssumption, FS_Subset
<1>3. ASSUME NEW x \in S, NEW n \in GoodOnes(k) PROVE RemoveMember(n, l, x) \in GoodOnes(k)
  BY RemoveMemberKeepsGood DEF GoodOnes, Good
<1>4. G \in [S \X GoodOnes(k) -> GoodOnes(k)]
  BY <1>3
<1>5. PICK f \in [SUBSET S -> GoodOnes(k)] : IsFold(f, S, b, G)
  <2> HIDE DEF G
  <2> QED BY <1>2, <1>4, FoldExists
<1>6. f = E(f)
  <2>1. \A s \in SUBSET S : s # {} => Ch(s) \in S /\ s \ {Ch(s)} \in SUBSET S
    BY DEF Ch
  <2>2. \A s \in SUBSET S : f[s] = E(f)[s]
    BY <1>5, <2>1 DEF IsFold
  <2> QED BY <1>5, <2>2
<1>7. it = E(it)
  <2> HIDE DEF E
  <2> QED BY <1>6
<1> HIDE DEF it
<1>8. it[{}] = b
  BY <1>7
<1>9. ASSUME NEW s \in SUBSET S, NEW x \in S \ s, it[s] \in GoodOnes(k), x = Ch(s \cup {x})
      PROVE  it[s \cup {x}] \in GoodOnes(k)
  <2>1. s \cup {x} \in SUBSET S /\ s \cup {x} # {} /\ (s \cup {x}) \ {x} = s
    OBVIOUS
  <2>2. E(it)[s \cup {x}] = RemoveMember(it[(s \cup {x}) \ {Ch(s \cup {x})}], l, Ch(s \cup {x}))
    BY <2>1
  <2>3. it[s \cup {x}] = RemoveMember(it[s], l, x)
    BY <1>7, <1>9, <2>1, <2>2
  <2>4. RemoveMember(it[s], l, x) \in GoodOnes(k)
    BY <1>3, <1>9
  <2> QED BY <2>3, <2>4
<1>10. it[S] \in GoodOnes(k)
  <2>1. it[{}] \in GoodOnes(k)
    BY <1>8
  <2> QED BY <1>2, <1>9, <2>1, LoopKeeps
<1> QED BY <1>1, <1>10

\* Reconcile deletes what nothing needs.
LEMMA DeleteLoop ==
    ASSUME NEW k, NEW b \in GoodOnes(k), NEW S \in SUBSET Sets
    PROVE  AllDeleted(b, S) \in GoodOnes(k)
<1> DEFINE E(f) == [s \in SUBSET S |->
                      IF s = {} THEN b ELSE modifyCacheForCacheDeletion(f[s \ {Ch(s)}], Ch(s), "soft")]
           it == CHOOSE f : f = E(f)
           G == [p \in S \X GoodOnes(k) |-> modifyCacheForCacheDeletion(p[2], p[1], "soft")]
<1>1. AllDeleted(b, S) = it[S]
  BY DEF AllDeleted, FoldSet, MapThenFoldSet, Ch
<1>2. IsFiniteSet(S)
  <2>1. IsFiniteSet(Sets)
    BY NPMAssumption, FS_Union DEF Sets
  <2> QED BY <2>1, FS_Subset
<1>3. ASSUME NEW x \in S, NEW n \in GoodOnes(k) PROVE modifyCacheForCacheDeletion(n, x, "soft") \in GoodOnes(k)
  BY DeletionKeepsGood DEF GoodOnes, Good
<1>4. G \in [S \X GoodOnes(k) -> GoodOnes(k)]
  BY <1>3
<1>5. PICK f \in [SUBSET S -> GoodOnes(k)] : IsFold(f, S, b, G)
  <2> HIDE DEF G
  <2> QED BY <1>2, <1>4, FoldExists
<1>6. f = E(f)
  <2>1. \A s \in SUBSET S : s # {} => Ch(s) \in S /\ s \ {Ch(s)} \in SUBSET S
    BY DEF Ch
  <2>2. \A s \in SUBSET S : f[s] = E(f)[s]
    BY <1>5, <2>1 DEF IsFold
  <2> QED BY <1>5, <2>2
<1>7. it = E(it)
  <2> HIDE DEF E
  <2> QED BY <1>6
<1> HIDE DEF it
<1>8. it[{}] = b
  BY <1>7
<1>9. ASSUME NEW s \in SUBSET S, NEW x \in S \ s, it[s] \in GoodOnes(k), x = Ch(s \cup {x})
      PROVE  it[s \cup {x}] \in GoodOnes(k)
  <2>1. s \cup {x} \in SUBSET S /\ s \cup {x} # {} /\ (s \cup {x}) \ {x} = s
    OBVIOUS
  <2>2. E(it)[s \cup {x}] = modifyCacheForCacheDeletion(it[(s \cup {x}) \ {Ch(s \cup {x})}], Ch(s \cup {x}), "soft")
    BY <2>1
  <2>3. it[s \cup {x}] = modifyCacheForCacheDeletion(it[s], x, "soft")
    BY <1>7, <1>9, <2>1, <2>2
  <2>4. modifyCacheForCacheDeletion(it[s], x, "soft") \in GoodOnes(k)
    BY <1>3, <1>9
  <2> QED BY <2>3, <2>4
<1>10. it[S] \in GoodOnes(k)
  <2>1. it[{}] \in GoodOnes(k)
    BY <1>8
  <2> QED BY <1>2, <1>9, <2>1, LoopKeeps
<1> QED BY <1>1, <1>10

-----------------------------------------------------------------------------
(* A restore under way *)

DelLines(T, s) == {x \in Elements : Line("del", s, x) \in T}
AddLines(T, s) == {x \in Elements : Line("add", s, x) \in T}

\* The lines left lead from the members in the kernel to the cached ones.
Body(m, k, T, s) == s \in DOMAIN k /\ LeadsTo(m, s, k[s], DelLines(T, s), AddLines(T, s))

\* How far the kernel k is with s when the lines T are left.
MidAt(m, k, T, s) ==
    /\ CleanAt(m, k, s)
    /\ s \in DOMAIN m.toCreate =>
          IF Line("create", s, s) \in T THEN s \notin DOMAIN k ELSE Body(m, k, T, s)
    /\ s \in DOMAIN m.toUpdate => Body(m, k, T, s)
    /\ s \in DOMAIN m.toDestroy =>
          /\ Line("destroy", s, s) \in T <=> s \in DOMAIN k
          /\ s \in DOMAIN k =>
                k[s] = IF Line("flush", s, s) \in T THEN m.toDestroy[s].del ELSE {}

\* The lines T of the file are left and the lines D done, in the file's order.
Midway(m, k, T, D) ==
    /\ T \in SUBSET fileCreatorForApply(m) /\ D = fileCreatorForApply(m) \ T
    /\ \A j \in D, l \in T : ~Before(l, j)
    /\ \A s \in Sets : StaticAt(m, s) /\ MidAt(m, k, T, s)

Kernels == Maps(Sets, SUBSET Elements)

\* The cache by itself is in order.
Sound(m) == /\ m \in Manager /\ Closed(m)
            /\ \A s \in Sets : KindsAt(m, s) /\ DirtyAt(m, s) /\ CountsAt(m, s)

\* The lines of a restore file.
LEMMA InFile ==
    ASSUME NEW m, NEW t, NEW y
    PROVE  /\ Line("create", t, t) \in fileCreatorForApply(m) <=> t \in toAddOrUpdate(m)
           /\ Line("del", t, y) \in fileCreatorForApply(m) <=>
                 t \in toAddOrUpdate(m) /\ y \in memberDiff(m, t).del
           /\ Line("add", t, y) \in fileCreatorForApply(m) <=>
                 t \in toAddOrUpdate(m) /\ y \in memberDiff(m, t).add
           /\ Line("flush", t, t) \in fileCreatorForApply(m) <=> t \in DOMAIN m.toDestroy
           /\ Line("destroy", t, t) \in fileCreatorForApply(m) <=> t \in DOMAIN m.toDestroy
<1>1. \A o, p, s, u, x, z : Line(o, s, x) = Line(p, u, z) <=> o = p /\ s = u /\ x = z
  BY DEF Line
<1> DEFINE A == {Line("create", s, s) : s \in toAddOrUpdate(m)}
           B == UNION {{Line("del", s, x) : x \in memberDiff(m, s).del} : s \in toAddOrUpdate(m)}
           C == UNION {{Line("add", s, x) : x \in memberDiff(m, s).add} : s \in toAddOrUpdate(m)}
           F == UNION {{Line("flush", s, s), Line("destroy", s, s)} : s \in DOMAIN m.toDestroy}
<1>2. fileCreatorForApply(m) = A \cup B \cup C \cup F
  BY Zenon DEF fileCreatorForApply
<1>3. \A o, s, x : Line(o, s, x) \in A <=> o = "create" /\ x = s /\ s \in toAddOrUpdate(m)
  BY <1>1
<1>4. \A o, s, x : Line(o, s, x) \in B <=>
         o = "del" /\ s \in toAddOrUpdate(m) /\ x \in memberDiff(m, s).del
  BY <1>1
<1>5. \A o, s, x : Line(o, s, x) \in C <=>
         o = "add" /\ s \in toAddOrUpdate(m) /\ x \in memberDiff(m, s).add
  BY <1>1
<1>6. \A o, s, x : Line(o, s, x) \in F <=>
         o \in {"flush", "destroy"} /\ x = s /\ s \in DOMAIN m.toDestroy
  BY <1>1
<1> HIDE DEF A, B, C, F
<1> QED BY <1>2, <1>3, <1>4, <1>5, <1>6

\* Every line of a file is one of these.
LineKinds(m, l) ==
    \/ \E s \in toAddOrUpdate(m) : l = Line("create", s, s)
    \/ \E s \in toAddOrUpdate(m) : \E x \in memberDiff(m, s).del : l = Line("del", s, x)
    \/ \E s \in toAddOrUpdate(m) : \E x \in memberDiff(m, s).add : l = Line("add", s, x)
    \/ \E s \in DOMAIN m.toDestroy : l = Line("flush", s, s)
    \/ \E s \in DOMAIN m.toDestroy : l = Line("destroy", s, s)

\* The lines of a restore file, by their operation.
LEMMA FileKinds ==
    ASSUME NEW m, NEW l \in fileCreatorForApply(m)
    PROVE  LineKinds(m, l)
<1> DEFINE A == {Line("create", s, s) : s \in toAddOrUpdate(m)}
           B == UNION {{Line("del", s, x) : x \in memberDiff(m, s).del} : s \in toAddOrUpdate(m)}
           C == UNION {{Line("add", s, x) : x \in memberDiff(m, s).add} : s \in toAddOrUpdate(m)}
           F == UNION {{Line("flush", s, s), Line("destroy", s, s)} : s \in DOMAIN m.toDestroy}
<1>1. fileCreatorForApply(m) = A \cup B \cup C \cup F
  BY Zenon DEF fileCreatorForApply
<1>2. CASE l \in A
  BY <1>2 DEF LineKinds
<1>3. CASE l \in B
  BY <1>3 DEF LineKinds
<1>4. CASE l \in C
  BY <1>4 DEF LineKinds
<1>5. CASE l \in F
  BY <1>5 DEF LineKinds
<1> HIDE DEF A, B, C, F
<1> QED BY <1>1, <1>2, <1>3, <1>4, <1>5

\* Lines differ in their operation, their set or their member.
LEMMA LineFacts ==
    ASSUME NEW o, NEW p, NEW t, NEW u, NEW y, NEW z
    PROVE  /\ Line(o, t, y) = Line(p, u, z) <=> o = p /\ t = u /\ y = z
           /\ Line(o, t, y).op = o /\ Line(o, t, y).set = t /\ Line(o, t, y).member = y
  BY DEF Line

\* A set none of whose lines is done, and which the kernel keeps as it is, is as far
\* as it was.
LEMMA MidAtKept ==
    ASSUME NEW m, NEW k, NEW h, NEW T, NEW U, NEW t, MidAt(m, k, T, t), SameAt(k, h, t),
           \A o, x : Line(o, t, x) \in T <=> Line(o, t, x) \in U
    PROVE  MidAt(m, h, U, t)
<1>1. DelLines(U, t) = DelLines(T, t) /\ AddLines(U, t) = AddLines(T, t)
  BY DEF DelLines, AddLines
<1>2. Body(m, k, T, t) => Body(m, h, U, t)
  BY <1>1 DEF Body, SameAt
<1>3. CleanAt(m, h, t)
  BY DEF MidAt, CleanAt, SameAt
<1>4. Line("create", t, t) \in T <=> Line("create", t, t) \in U
  OBVIOUS
<1>5. Line("destroy", t, t) \in T <=> Line("destroy", t, t) \in U
  OBVIOUS
<1>6. Line("flush", t, t) \in T <=> Line("flush", t, t) \in U
  OBVIOUS
<1> QED BY <1>2, <1>3, <1>4, <1>5, <1>6 DEF MidAt, SameAt

\* With the whole file left, the kernel is where the dirty cache says.
LEMMA SyncIsMidway ==
    ASSUME NEW m \in Manager, NEW k, NEW s, StaticAt(m, s), InOneMap(m, s)
    PROVE  SyncAt(m, k, s) <=> MidAt(m, k, fileCreatorForApply(m), s)
<1> DEFINE T == fileCreatorForApply(m)
<1>1. s \in toAddOrUpdate(m) => /\ DelLines(T, s) = memberDiff(m, s).del
                                /\ AddLines(T, s) = memberDiff(m, s).add
  <2>1. memberDiff(m, s).del \in SUBSET Elements /\ memberDiff(m, s).add \in SUBSET Elements
    BY DiffFacts DEF Diffs, Elements
  <2> QED BY <2>1, InFile DEF DelLines, AddLines
<1>2. s \in DOMAIN m.toUpdate => memberDiff(m, s) = m.toUpdate[s]
  BY DEF memberDiff, InOneMap
<1>3. /\ s \in DOMAIN m.toCreate => Line("create", s, s) \in T
      /\ s \in DOMAIN m.toDestroy => Line("destroy", s, s) \in T /\ Line("flush", s, s) \in T
  BY InFile DEF toAddOrUpdate
<1> HIDE DEF T
<1>4. s \in DOMAIN m.toUpdate =>
        (Body(m, k, T, s) <=> /\ s \in DOMAIN k
                              /\ LeadsTo(m, s, k[s], m.toUpdate[s].del, m.toUpdate[s].add))
  BY <1>1, <1>2 DEF Body, toAddOrUpdate
<1>5. SyncAt(m, k, s) <=> MidAt(m, k, T, s)
  BY <1>3, <1>4 DEF SyncAt, MidAt
<1> QED BY <1>5 DEF T

\* With no line left, the kernel has what is cached.
LEMMA DoneIsClean ==
    ASSUME NEW m, NEW k, NEW s, MidAt(m, k, {}, s), DirtyAt(m, s), m.mode = "all"
    PROVE  /\ s \in DOMAIN m.setMap <=> s \in DOMAIN k
           /\ s \in DOMAIN k => k[s] = Members(m, s)
<1>1. DelLines({}, s) = {} /\ AddLines({}, s) = {}
  BY DEF DelLines, AddLines
<1>2. Body(m, k, {}, s) => s \in DOMAIN k /\ k[s] = Members(m, s)
  BY <1>1 DEF Body, LeadsTo
<1>3. CASE s \in toAddOrUpdate(m)
  BY <1>2, <1>3 DEF MidAt, DirtyAt, Wanted, toAddOrUpdate
<1>4. CASE s \in DOMAIN m.toDestroy
  BY <1>4 DEF MidAt, DirtyAt, Wanted, shouldBeInKernel
<1>5. CASE s \notin Dirty(m)
  BY <1>5 DEF MidAt, CleanAt
<1> QED BY <1>3, <1>4, <1>5 DEF Dirty

-----------------------------------------------------------------------------
(* The next line of a restore is accepted *)

\* How two lines are ordered.
LEMMA OrderFacts ==
    ASSUME NEW s, NEW x, NEW t, NEW y
    PROVE  /\ Before(Line("create", s, x), Line("del", t, y))
           /\ Before(Line("create", s, x), Line("add", t, y))
           /\ Before(Line("create", s, x), Line("flush", t, y))
           /\ Before(Line("create", s, x), Line("destroy", t, y))
           /\ Before(Line("del", s, x), Line("flush", t, y))
           /\ Before(Line("del", s, x), Line("destroy", t, y))
           /\ Before(Line("add", s, x), Line("flush", t, y))
           /\ Before(Line("add", s, x), Line("destroy", t, y))
           /\ Before(Line("flush", s, x), Line("destroy", t, y))
  BY DEF Before, Line, Rank

\* The line at s in a restore whose lines T are left; D are done.
LEMMA MidwayFacts ==
    ASSUME NEW m, NEW k, NEW T, NEW D, Midway(m, k, T, D), NEW s \in Sets
    PROVE  StaticAt(m, s) /\ MidAt(m, k, T, s)
  BY DEF Midway

\* A set that is cached and has no lines left that change it is in the kernel with
\* the cached members.
LEMMA SettledSet ==
    ASSUME NEW m, NEW k, NEW T, NEW t, MidAt(m, k, T, t), Line("create", t, t) \notin T,
           DelLines(T, t) = {}, AddLines(T, t) = {}, t \notin DOMAIN m.toDestroy,
           t \in DOMAIN k
    PROVE  k[t] = Members(m, t)
<1>1. Body(m, k, T, t) => k[t] = Members(m, t)
  BY DEF Body, LeadsTo
<1>2. CASE t \in toAddOrUpdate(m)
  BY <1>1, <1>2 DEF MidAt, toAddOrUpdate
<1>3. CASE t \notin Dirty(m)
  BY <1>3 DEF MidAt, CleanAt
<1> QED BY <1>2, <1>3 DEF Dirty

\* The sets a list has as members are in the kernel once the create lines are done.
LEMMA MembersThere ==
    ASSUME NEW m \in Manager, NEW k, NEW T, NEW t, MidAt(m, k, T, t), DirtyAt(m, t),
           m.mode = "all", t \in DOMAIN m.setMap, Line("create", t, t) \notin T
    PROVE  t \in DOMAIN k
<1>1. Wanted(m, t)
  BY DEF Wanted, shouldBeInKernel
<1>2. t \notin DOMAIN m.toDestroy
  BY <1>1 DEF DirtyAt
<1>3. CASE t \in toAddOrUpdate(m)
  BY <1>3 DEF MidAt, toAddOrUpdate, Body
<1>4. CASE t \notin Dirty(m)
  BY <1>4 DEF MidAt, CleanAt
<1> QED BY <1>2, <1>3, <1>4 DEF Dirty

\* A restore under way in an intact kernel.
InRestore == /\ Sound(mgr) /\ mgr.mode = "all" /\ kernel \in Kernels
             /\ Midway(mgr, kernel, restore.todo, restore.done)

\* "del" asks for a set and a member that the kernel has.
LEMMA DelAccepted ==
    ASSUME InRestore, NEW s \in toAddOrUpdate(mgr), NEW x \in memberDiff(mgr, s).del,
           Next1(Line("del", s, x))
    PROVE  Body(mgr, kernel, restore.todo, s) /\ x \in kernel[s] /\ s \in DOMAIN kernel
<1> DEFINE T == restore.todo
<1>1. Line("create", s, s) \notin T
  BY OrderFacts DEF Next1
<1>2. mgr \in Manager
  BY DEF InRestore, Sound
<1>3. s \in Sets
  BY <1>2, DiffFacts DEF toAddOrUpdate
<1>4. MidAt(mgr, kernel, T, s)
  BY <1>3, MidwayFacts DEF InRestore
<1>5. Body(mgr, kernel, T, s)
  BY <1>1, <1>4 DEF MidAt, toAddOrUpdate
<1>6. x \in DelLines(T, s)
  <2>1. x \in Elements
    BY <1>2, DiffFacts DEF Diffs, Elements
  <2> QED BY <2>1 DEF Next1, DelLines
<1> QED BY <1>5, <1>6 DEF Body, LeadsTo

\* "add" asks for a set that has not the member yet and, for a list, for a member
\* that exists.
LEMMA AddAccepted ==
    ASSUME InRestore, NEW s \in toAddOrUpdate(mgr), NEW x \in memberDiff(mgr, s).add,
           Next1(Line("add", s, x))
    PROVE  /\ Body(mgr, kernel, restore.todo, s) /\ x \notin kernel[s] /\ s \in DOMAIN kernel
           /\ x \in IPs \cup DOMAIN kernel
<1> DEFINE T == restore.todo
<1>1. \A t : Line("create", t, t) \notin T
  BY OrderFacts DEF Next1
<1>2. mgr \in Manager
  BY DEF InRestore, Sound
<1>3. s \in Sets
  BY <1>2, DiffFacts DEF toAddOrUpdate
<1>4. MidAt(mgr, kernel, T, s)
  BY <1>3, MidwayFacts DEF InRestore
<1>5. Body(mgr, kernel, T, s)
  BY <1>1, <1>4 DEF MidAt, toAddOrUpdate
<1>6. x \in AddLines(T, s)
  <2>1. x \in Elements
    BY <1>2, DiffFacts DEF Diffs, Elements
  <2> QED BY <2>1 DEF Next1, AddLines
<1>7. x \in Members(mgr, s) /\ x \notin kernel[s] /\ s \in DOMAIN kernel
  BY <1>5, <1>6 DEF Body, LeadsTo
<1>8. x \in IPs \cup DOMAIN kernel
  <2>1. s \in DOMAIN mgr.setMap
    BY <1>3 DEF InRestore, Sound, DirtyAt, Wanted
  <2>2. CASE s \in HashSets
    BY <1>2, <1>7, <2>1, <2>2, SetFacts
  <2>3. CASE s \notin HashSets
    <3>1. x \in mgr.setMap[s].memberIPSets
      BY <1>7, <2>3 DEF Members
    <3>2. x \in DOMAIN mgr.setMap
      BY <2>1, <3>1 DEF InRestore, Sound, Closed
    <3>3. x \in Sets
      BY <1>2, <3>2, SetFacts
    <3>4. MidAt(mgr, kernel, T, x) /\ DirtyAt(mgr, x)
      BY <3>3, MidwayFacts DEF InRestore, Sound
    <3>5. mgr.mode = "all"
      BY DEF InRestore
    <3>6. x \in DOMAIN kernel
      BY <1>1, <1>2, <3>2, <3>4, <3>5, MembersThere
    <3> QED BY <3>6
  <2> QED BY <2>2, <2>3
<1> QED BY <1>5, <1>7, <1>8

\* "flush" asks for a set that exists.
LEMMA FlushAccepted ==
    ASSUME InRestore, NEW s \in DOMAIN mgr.toDestroy, Next1(Line("flush", s, s))
    PROVE  s \in DOMAIN kernel /\ Line("destroy", s, s) \in restore.todo
<1> DEFINE T == restore.todo
           F == fileCreatorForApply(mgr)
<1>1. Line("destroy", s, s) \in F
  BY InFile
<1>2. restore.done = F \ T
  BY DEF InRestore, Midway
<1>3. Line("destroy", s, s) \in T
  BY <1>1, <1>2, OrderFacts DEF InRestore, Midway, Next1
<1>4. s \in Sets
  BY DiffFacts DEF InRestore, Sound
<1> QED BY <1>3, <1>4, MidwayFacts DEF InRestore, MidAt

\* "destroy" asks for a set that no list has as a member.
LEMMA DestroyAccepted ==
    ASSUME InRestore, NEW s \in DOMAIN mgr.toDestroy, Next1(Line("destroy", s, s))
    PROVE  /\ s \in DOMAIN kernel /\ Line("flush", s, s) \notin restore.todo
           /\ \A t \in DOMAIN kernel : s \notin kernel[t]
<1> DEFINE T == restore.todo
<1>1. mgr \in Manager /\ mgr.mode = "all" /\ kernel \in Kernels
  BY DEF InRestore, Sound
<1>2. s \in Sets
  BY <1>1, DiffFacts
<1>3. s \in DOMAIN kernel
  BY <1>2, MidwayFacts DEF InRestore, MidAt, Next1
<1>4. \A t, y : /\ Line("create", t, y) \notin T /\ Line("flush", t, y) \notin T
                /\ Line("del", t, y) \notin T /\ Line("add", t, y) \notin T
  BY OrderFacts DEF Next1
<1>5. \A t : DelLines(T, t) = {} /\ AddLines(T, t) = {}
  BY <1>4 DEF DelLines, AddLines
<1>6. ASSUME NEW t \in DOMAIN kernel, s \in kernel[t] PROVE FALSE
  <2>1. t \in Sets
    BY <1>1, MapFacts DEF Kernels
  <2>2. MidAt(mgr, kernel, T, t) /\ DirtyAt(mgr, t)
    BY <2>1, MidwayFacts DEF InRestore, Sound
  <2>3. t \notin DOMAIN mgr.toDestroy
    BY <1>4, <1>6, <2>2 DEF MidAt
  <2>4. s \in Members(mgr, t)
    BY <1>4, <1>5, <1>6, <2>2, <2>3, SettledSet
  <2>5. t \in DOMAIN mgr.setMap
    <3>1. CASE t \in toAddOrUpdate(mgr)
      BY <2>2, <3>1 DEF DirtyAt, Wanted
    <3>2. CASE t \notin Dirty(mgr)
      BY <2>2, <3>2 DEF MidAt, CleanAt
    <3> QED BY <2>3, <3>1, <3>2 DEF Dirty
  <2>6. CASE t \in HashSets
    BY <1>1, <1>2, <2>4, <2>5, <2>6, SetFacts, NPMAssumption
  <2>7. CASE t \notin HashSets
    <3>1. s \in DOMAIN mgr.setMap
      BY <2>4, <2>5, <2>7 DEF InRestore, Sound, Closed, Members
    <3>2. Wanted(mgr, s)
      BY <1>1, <3>1 DEF Wanted, shouldBeInKernel
    <3> QED BY <1>2, <3>2 DEF InRestore, Sound, DirtyAt
  <2> QED BY <2>6, <2>7
<1> QED BY <1>3, <1>4, <1>6

\* The kernel takes every line of a restore.
LEMMA EveryLineAccepted ==
    ASSUME InRestore, NEW l, Next1(l)
    PROVE  Accepted(l)
<1>1. l \in fileCreatorForApply(mgr)
  BY DEF InRestore, Midway, Next1
<1>2. LineKinds(mgr, l)
  BY <1>1, FileKinds
<1>3. CASE \E s \in toAddOrUpdate(mgr) : l = Line("create", s, s)
  BY <1>3 DEF Accepted, Line
<1>4. CASE \E s \in toAddOrUpdate(mgr) : \E x \in memberDiff(mgr, s).del : l = Line("del", s, x)
  <2>1. PICK s \in toAddOrUpdate(mgr) : \E x \in memberDiff(mgr, s).del : l = Line("del", s, x)
    BY <1>4
  <2>2. PICK x \in memberDiff(mgr, s).del : l = Line("del", s, x)
    BY <2>1
  <2>3. x \in kernel[s] /\ s \in DOMAIN kernel
    BY <2>2, DelAccepted
  <2> QED BY <2>2, <2>3 DEF Accepted, Line
<1>5. CASE \E s \in toAddOrUpdate(mgr) : \E x \in memberDiff(mgr, s).add : l = Line("add", s, x)
  <2>1. PICK s \in toAddOrUpdate(mgr) : \E x \in memberDiff(mgr, s).add : l = Line("add", s, x)
    BY <1>5
  <2>2. PICK x \in memberDiff(mgr, s).add : l = Line("add", s, x)
    BY <2>1
  <2>3. x \notin kernel[s] /\ s \in DOMAIN kernel /\ x \in IPs \cup DOMAIN kernel
    BY <2>2, AddAccepted
  <2> QED BY <2>2, <2>3 DEF Accepted, Line
<1>6. CASE \E s \in DOMAIN mgr.toDestroy : l = Line("flush", s, s)
  <2>1. PICK s \in DOMAIN mgr.toDestroy : l = Line("flush", s, s)
    BY <1>6
  <2>2. s \in DOMAIN kernel
    BY <2>1, FlushAccepted
  <2> QED BY <2>1, <2>2 DEF Accepted, Line
<1>7. CASE \E s \in DOMAIN mgr.toDestroy : l = Line("destroy", s, s)
  <2>1. PICK s \in DOMAIN mgr.toDestroy : l = Line("destroy", s, s)
    BY <1>7
  <2>2. s \in DOMAIN kernel /\ \A t \in DOMAIN kernel : s \notin kernel[t]
    BY <2>1, DestroyAccepted
  <2> QED BY <2>1, <2>2 DEF Accepted, Line
<1> QED BY <1>2, <1>3, <1>4, <1>5, <1>6, <1>7 DEF LineKinds

-----------------------------------------------------------------------------
(* A line is done *)

\* What the kernel has of a set after "create": nothing if it was not there, and what
\* it had if it was.
LEMMA CreateRuns ==
    ASSUME NEW m \in Manager, NEW k, NEW h, NEW T, NEW s \in toAddOrUpdate(m),
           StaticAt(m, s), InOneMap(m, s), MidAt(m, k, T, s), Line("create", s, s) \in T,
           \A x : Line("add", s, x) \in fileCreatorForApply(m) => Line("add", s, x) \in T,
           T \in SUBSET fileCreatorForApply(m),
           h = IF s \in DOMAIN k THEN k ELSE Extended(k, s, {}), k \in Kernels, s \in Sets
    PROVE  MidAt(m, h, T \ {Line("create", s, s)}, s)
<1> DEFINE U == T \ {Line("create", s, s)}
<1>1. DelLines(U, s) = DelLines(T, s) /\ AddLines(U, s) = AddLines(T, s)
  BY LineFacts DEF DelLines, AddLines
<1>2. Line("create", s, s) \notin U /\ s \notin DOMAIN m.toDestroy /\ s \in Dirty(m)
  BY DEF InOneMap, Dirty
<1>3. CASE s \in DOMAIN m.toUpdate
  <2>1. Body(m, k, T, s)
    BY <1>3 DEF MidAt
  <2>2. Body(m, h, U, s) /\ s \notin DOMAIN m.toCreate
    BY <1>1, <1>3, <2>1 DEF Body, InOneMap
  <2> QED BY <1>2, <2>2 DEF MidAt, CleanAt
<1>4. CASE s \in DOMAIN m.toCreate
  <2>1. memberDiff(m, s) = m.toCreate[s] /\ s \notin DOMAIN m.toUpdate
    BY <1>4 DEF memberDiff, InOneMap
  <2>2. memberDiff(m, s) = diffOnCreate(Members(m, s))
    BY <1>4, <2>1 DEF StaticAt
  <2>3. memberDiff(m, s).del = {} /\ memberDiff(m, s).add = Members(m, s)
    BY <2>2 DEF diffOnCreate
  <2>4. Members(m, s) \in SUBSET Elements
    BY <2>3, DiffFacts DEF Diffs, Elements
  <2>5. DelLines(T, s) = {}
    BY <2>3, InFile DEF DelLines
  <2>6. AddLines(T, s) = Members(m, s)
    BY <2>3, <2>4, InFile DEF AddLines
  <2>7. s \notin DOMAIN k
    BY <1>4 DEF MidAt
  <2>8. IsWith(h, k, s, {})
    <3>1. {} \in SUBSET Elements
      OBVIOUS
    <3>2. h = Extended(k, s, {})
      BY <2>7
    <3> QED BY <3>1, <3>2, ExtendedFacts DEF Kernels
  <2>9. s \in DOMAIN h /\ h[s] = {}
    BY <2>8 DEF IsWith
  <2>10. Body(m, h, U, s)
    BY <1>1, <2>5, <2>6, <2>9 DEF Body, LeadsTo
  <2> QED BY <1>2, <1>4, <2>1, <2>10 DEF MidAt, CleanAt
<1> QED BY <1>3, <1>4 DEF toAddOrUpdate

\* "del" takes the member out of the set and its line off the lines left.
LEMMA DelRuns ==
    ASSUME NEW m, NEW k, NEW h, NEW T, NEW s \in toAddOrUpdate(m), NEW x,
           InOneMap(m, s), Body(m, k, T, s), MidAt(m, k, T, s), x \in DelLines(T, s),
           IsWith(h, k, s, k[s] \ {x}), Line("create", s, s) \notin T
    PROVE  MidAt(m, h, T \ {Line("del", s, x)}, s)
<1> DEFINE U == T \ {Line("del", s, x)}
<1>1. DelLines(U, s) = DelLines(T, s) \ {x} /\ AddLines(U, s) = AddLines(T, s)
  BY LineFacts DEF DelLines, AddLines
<1>2. Line("create", s, s) \notin U /\ s \notin DOMAIN m.toDestroy /\ s \in Dirty(m)
  BY DEF InOneMap, Dirty
<1>3. s \in DOMAIN h /\ h[s] = k[s] \ {x}
  BY DEF IsWith
<1> DEFINE del == DelLines(T, s)
           add == AddLines(T, s)
<1>4. /\ del \in SUBSET k[s] /\ add \cap k[s] = {} /\ (k[s] \ del) \cup add = Members(m, s)
      /\ x \in del
  BY DEF Body, LeadsTo
<1> HIDE DEF del, add
<1>5. LeadsTo(m, s, k[s] \ {x}, del \ {x}, add)
  BY <1>4 DEF LeadsTo
<1>6. Body(m, h, U, s)
  BY <1>1, <1>3, <1>5 DEF Body, del, add
<1> QED BY <1>2, <1>6 DEF MidAt, CleanAt

\* "add" puts the member into the set and takes its line off the lines left.
LEMMA AddRuns ==
    ASSUME NEW m, NEW k, NEW h, NEW T, NEW s \in toAddOrUpdate(m), NEW x,
           InOneMap(m, s), Body(m, k, T, s), MidAt(m, k, T, s), x \in AddLines(T, s),
           IsWith(h, k, s, k[s] \cup {x}), Line("create", s, s) \notin T
    PROVE  MidAt(m, h, T \ {Line("add", s, x)}, s)
<1> DEFINE U == T \ {Line("add", s, x)}
<1>1. DelLines(U, s) = DelLines(T, s) /\ AddLines(U, s) = AddLines(T, s) \ {x}
  BY LineFacts DEF DelLines, AddLines
<1>2. Line("create", s, s) \notin U /\ s \notin DOMAIN m.toDestroy /\ s \in Dirty(m)
  BY DEF InOneMap, Dirty
<1>3. s \in DOMAIN h /\ h[s] = k[s] \cup {x}
  BY DEF IsWith
<1> DEFINE del == DelLines(T, s)
           add == AddLines(T, s)
<1>4. /\ del \in SUBSET k[s] /\ add \cap k[s] = {} /\ (k[s] \ del) \cup add = Members(m, s)
      /\ x \in add
  BY DEF Body, LeadsTo
<1> HIDE DEF del, add
<1>5. LeadsTo(m, s, k[s] \cup {x}, del, add \ {x})
  BY <1>4 DEF LeadsTo
<1>6. Body(m, h, U, s)
  BY <1>1, <1>3, <1>5 DEF Body, del, add
<1> QED BY <1>2, <1>6 DEF MidAt, CleanAt

\* "flush" empties the set.
LEMMA FlushRuns ==
    ASSUME NEW m, NEW k, NEW h, NEW T, NEW s \in DOMAIN m.toDestroy,
           InOneMap(m, s), MidAt(m, k, T, s), s \in DOMAIN k, IsWith(h, k, s, {})
    PROVE  MidAt(m, h, T \ {Line("flush", s, s)}, s)
<1> DEFINE U == T \ {Line("flush", s, s)}
<1>1. s \notin DOMAIN m.toCreate /\ s \notin DOMAIN m.toUpdate /\ s \in Dirty(m)
  BY DEF InOneMap, Dirty, toAddOrUpdate
<1>2. s \in DOMAIN h /\ h[s] = {}
  BY DEF IsWith
<1>3. Line("destroy", s, s) \in T
  BY DEF MidAt
<1>4. Line("destroy", s, s) \in U /\ Line("flush", s, s) \notin U
  BY <1>3, LineFacts
<1> QED BY <1>1, <1>2, <1>4 DEF MidAt, CleanAt

\* "destroy" removes the set.
LEMMA DestroyRuns ==
    ASSUME NEW m, NEW k, NEW h, NEW T, NEW s \in DOMAIN m.toDestroy,
           InOneMap(m, s), IsWithout(h, k, s)
    PROVE  MidAt(m, h, T \ {Line("destroy", s, s)}, s)
<1>1. s \notin DOMAIN m.toCreate /\ s \notin DOMAIN m.toUpdate /\ s \in Dirty(m)
  BY DEF InOneMap, Dirty, toAddOrUpdate
<1>2. s \notin DOMAIN h
  BY DEF IsWithout
<1> QED BY <1>1, <1>2 DEF MidAt, CleanAt

\* What one line does: the kernel stays a kernel, the line's set is one line further,
\* and the other sets are left alone.
LineDone(l, h, s) == /\ h \in Kernels /\ s \in Sets /\ l.set = s
                     /\ MidAt(mgr, h, restore.todo \ {l}, s)
                     /\ \A t : t # s => SameAt(kernel, h, t)

\* A line that runs brings its set one line further.
LEMMA ExecutedFacts ==
    ASSUME InRestore, NEW l, Next1(l)
    PROVE  LineDone(l, Executed(l), l.set)
<1> DEFINE T == restore.todo
           h == Executed(l)
<1>1. l \in T /\ T \in SUBSET fileCreatorForApply(mgr)
      /\ restore.done = fileCreatorForApply(mgr) \ T
  BY DEF InRestore, Midway, Next1
<1>2. mgr \in Manager /\ kernel \in Kernels
  BY DEF InRestore, Sound
<1>3. \A s \in Sets : InOneMap(mgr, s) /\ StaticAt(mgr, s) /\ MidAt(mgr, kernel, T, s)
  BY MidwayFacts DEF InRestore, Sound, DirtyAt
<1>4. LineKinds(mgr, l)
  BY <1>1, FileKinds
<1>5. \A s \in toAddOrUpdate(mgr) : /\ s \in Sets /\ memberDiff(mgr, s).del \in SUBSET Elements
                                    /\ memberDiff(mgr, s).add \in SUBSET Elements
  BY <1>2, DiffFacts DEF toAddOrUpdate, Diffs, Elements
<1>6. \A s \in DOMAIN mgr.toDestroy : s \in Sets
  BY <1>2, DiffFacts
<1>7. \A s \in DOMAIN kernel : kernel[s] \in SUBSET Elements
  BY <1>2, MapFacts DEF Kernels
<1>8. \A g, s, v : IsWith(g, kernel, s, v) => \A t : t # s => SameAt(kernel, g, t)
  BY DEF IsWith, SameAt
<1>9. \A g, s : IsWithout(g, kernel, s) => \A t : t # s => SameAt(kernel, g, t)
  BY DEF IsWithout, SameAt
<1>10. \A s \in DOMAIN kernel, v \in SUBSET Elements :
          /\ [kernel EXCEPT ![s] = v] \in Kernels
          /\ IsWith([kernel EXCEPT ![s] = v], kernel, s, v)
  BY <1>2, ExceptFacts DEF Kernels
<1>11. CASE \E s \in toAddOrUpdate(mgr) : l = Line("create", s, s)
  <2>1. PICK s \in toAddOrUpdate(mgr) : l = Line("create", s, s)
    BY <1>11
  <2>2. l.set = s /\ l.op = "create"
    BY <2>1, LineFacts
  <2>3. h = IF s \in DOMAIN kernel THEN kernel ELSE Extended(kernel, s, {})
    BY <2>2 DEF Executed
  <2>4. \A x : Line("add", s, x) \in fileCreatorForApply(mgr) => Line("add", s, x) \in T
    <3> SUFFICES ASSUME NEW x, Line("add", s, x) \in restore.done PROVE FALSE
      BY <1>1
    <3> QED BY <1>1, <2>1, OrderFacts DEF InRestore, Midway
  <2>5. s \in Sets /\ StaticAt(mgr, s) /\ InOneMap(mgr, s) /\ MidAt(mgr, kernel, T, s)
    BY <1>3, <1>5
  <2>6. MidAt(mgr, h, T \ {l}, s)
    <3> HIDE DEF h, T
    <3> QED BY <1>1, <1>2, <2>1, <2>3, <2>4, <2>5, CreateRuns
  <2>7. h \in Kernels /\ \A t : t # s => SameAt(kernel, h, t)
    <3>1. CASE s \in DOMAIN kernel
      BY <1>2, <2>3, <3>1 DEF SameAt
    <3>2. CASE s \notin DOMAIN kernel
      <4>1. {} \in SUBSET Elements
        OBVIOUS
      <4>2. h \in Kernels /\ IsWith(h, kernel, s, {})
        BY <1>2, <2>3, <2>5, <3>2, <4>1, ExtendedFacts DEF Kernels
      <4> QED BY <1>8, <4>2
    <3> QED BY <3>1, <3>2
  <2> QED BY <2>2, <2>5, <2>6, <2>7 DEF LineDone
<1>12. CASE \E s \in toAddOrUpdate(mgr) : \E x \in memberDiff(mgr, s).del : l = Line("del", s, x)
  <2>1. PICK s \in toAddOrUpdate(mgr) : \E x \in memberDiff(mgr, s).del : l = Line("del", s, x)
    BY <1>12
  <2>2. PICK x \in memberDiff(mgr, s).del : l = Line("del", s, x)
    BY <2>1
  <2>3. l.set = s /\ l.op = "del" /\ l.member = x
    BY <2>2, LineFacts
  <2>4. h = [kernel EXCEPT ![s] = kernel[s] \ {x}]
    BY <2>3 DEF Executed
  <2>5. s \in Sets /\ InOneMap(mgr, s) /\ MidAt(mgr, kernel, T, s)
    BY <1>3, <1>5
  <2>6. Body(mgr, kernel, T, s) /\ x \in kernel[s] /\ s \in DOMAIN kernel
    BY <2>2, DelAccepted
  <2>7. kernel[s] \ {x} \in SUBSET Elements
    BY <1>7, <2>6
  <2>8. h \in Kernels /\ IsWith(h, kernel, s, kernel[s] \ {x})
    BY <1>10, <2>4, <2>6, <2>7
  <2>9. x \in DelLines(T, s) /\ Line("create", s, s) \notin T
    BY <1>1, <1>5, <2>2, OrderFacts DEF DelLines, Next1
  <2>10. MidAt(mgr, h, T \ {l}, s)
    <3> HIDE DEF h, T
    <3> QED BY <2>2, <2>5, <2>6, <2>8, <2>9, DelRuns
  <2> QED BY <1>8, <2>3, <2>5, <2>8, <2>10 DEF LineDone
<1>13. CASE \E s \in toAddOrUpdate(mgr) : \E x \in memberDiff(mgr, s).add : l = Line("add", s, x)
  <2>1. PICK s \in toAddOrUpdate(mgr) : \E x \in memberDiff(mgr, s).add : l = Line("add", s, x)
    BY <1>13
  <2>2. PICK x \in memberDiff(mgr, s).add : l = Line("add", s, x)
    BY <2>1
  <2>3. l.set = s /\ l.op = "add" /\ l.member = x
    BY <2>2, LineFacts
  <2>4. h = [kernel EXCEPT ![s] = kernel[s] \cup {x}]
    BY <2>3 DEF Executed
  <2>5. s \in Sets /\ InOneMap(mgr, s) /\ MidAt(mgr, kernel, T, s)
    BY <1>3, <1>5
  <2>6. Body(mgr, kernel, T, s) /\ s \in DOMAIN kernel
    BY <2>2, AddAccepted
  <2>7. kernel[s] \cup {x} \in SUBSET Elements
    BY <1>5, <1>7, <2>2, <2>6
  <2>8. h \in Kernels /\ IsWith(h, kernel, s, kernel[s] \cup {x})
    BY <1>10, <2>4, <2>6, <2>7
  <2>9. x \in AddLines(T, s) /\ Line("create", s, s) \notin T
    BY <1>1, <1>5, <2>2, OrderFacts DEF AddLines, Next1
  <2>10. MidAt(mgr, h, T \ {l}, s)
    <3> HIDE DEF h, T
    <3> QED BY <2>2, <2>5, <2>6, <2>8, <2>9, AddRuns
  <2> QED BY <1>8, <2>3, <2>5, <2>8, <2>10 DEF LineDone
<1>14. CASE \E s \in DOMAIN mgr.toDestroy : l = Line("flush", s, s)
  <2>1. PICK s \in DOMAIN mgr.toDestroy : l = Line("flush", s, s)
    BY <1>14
  <2>2. l.set = s /\ l.op = "flush"
    BY <2>1, LineFacts
  <2>3. h = [kernel EXCEPT ![s] = {}]
    BY <2>2 DEF Executed
  <2>4. s \in Sets /\ InOneMap(mgr, s) /\ MidAt(mgr, kernel, T, s)
    BY <1>3, <1>6
  <2>5. s \in DOMAIN kernel
    BY <2>1, FlushAccepted
  <2>6. {} \in SUBSET Elements
    OBVIOUS
  <2>7. h \in Kernels /\ IsWith(h, kernel, s, {})
    BY <1>10, <2>3, <2>5, <2>6
  <2>8. MidAt(mgr, h, T \ {l}, s)
    <3> HIDE DEF h, T
    <3> QED BY <2>1, <2>4, <2>5, <2>7, FlushRuns
  <2> QED BY <1>8, <2>2, <2>4, <2>7, <2>8 DEF LineDone
<1>15. CASE \E s \in DOMAIN mgr.toDestroy : l = Line("destroy", s, s)
  <2>1. PICK s \in DOMAIN mgr.toDestroy : l = Line("destroy", s, s)
    BY <1>15
  <2>2. l.set = s /\ l.op = "destroy"
    BY <2>1, LineFacts
  <2>3. h = Without(kernel, {s})
    BY <2>2 DEF Executed
  <2>4. s \in Sets /\ InOneMap(mgr, s)
    BY <1>3, <1>6
  <2>5. h \in Kernels /\ IsWithout(h, kernel, s)
    BY <1>2, <2>3, WithoutFacts DEF Kernels
  <2>6. MidAt(mgr, h, T \ {l}, s)
    <3> HIDE DEF h, T
    <3> QED BY <2>1, <2>4, <2>5, DestroyRuns
  <2> QED BY <1>9, <2>2, <2>4, <2>5, <2>6 DEF LineDone
<1> QED BY <1>4, <1>11, <1>12, <1>13, <1>14, <1>15 DEF LineKinds

\* A line that runs leaves the restore midway.
LEMMA LineRunsKeeps ==
    ASSUME InRestore, NEW l, LineRuns(l)
    PROVE  /\ kernel' \in Kernels
           /\ Midway(mgr, kernel', restore.todo \ {l}, restore.done \cup {l})
<1> DEFINE T == restore.todo
           D == restore.done
           F == fileCreatorForApply(mgr)
           h == kernel'
           U == T \ {l}
<1>1. Next1(l) /\ h = Executed(l)
  BY DEF LineRuns
<1>2. LineDone(l, h, l.set)
  BY <1>1, ExecutedFacts
<1>3. l \in T /\ T \in SUBSET F /\ D = F \ T /\ \A j \in D, i \in T : ~Before(i, j)
  BY <1>1 DEF InRestore, Midway, Next1
<1>4. \A i \in U : ~Before(i, l)
  BY <1>1 DEF Next1
<1>5. U \in SUBSET F /\ D \cup {l} = F \ U /\ \A j \in D \cup {l}, i \in U : ~Before(i, j)
  BY <1>3, <1>4
<1>6. ASSUME NEW t \in Sets PROVE StaticAt(mgr, t) /\ MidAt(mgr, h, U, t)
  <2>1. StaticAt(mgr, t) /\ MidAt(mgr, kernel, T, t)
    BY MidwayFacts DEF InRestore
  <2>2. CASE t = l.set
    BY <1>2, <2>1, <2>2 DEF LineDone
  <2>3. CASE t # l.set
    <3>1. SameAt(kernel, h, t)
      BY <1>2, <2>3 DEF LineDone
    <3>2. \A o, x : Line(o, t, x) \in T <=> Line(o, t, x) \in U
      BY <2>3, LineFacts
    <3> HIDE DEF T, U, h
    <3>3. MidAt(mgr, h, U, t)
      BY <2>1, <3>1, <3>2, MidAtKept
    <3> QED BY <2>1, <3>3
  <2> QED BY <2>2, <2>3
<1>7. h \in Kernels
  BY <1>2 DEF LineDone
<1> HIDE DEF U, D, T, h, F
<1>8. Midway(mgr, h, U, D \cup {l})
  BY <1>5, <1>6 DEF Midway, F
<1> QED BY <1>7, <1>8 DEF U, D, T, h

-----------------------------------------------------------------------------
(* The inductive invariant *)

\* The fields of a restore; its lines come from the file of the dirty cache, and
\* without a restore there are none.
RestoreInv ==
    /\ restore.on \in BOOLEAN /\ restore.try \in 0 .. MaxTry
    /\ restore = [on |-> restore.on, todo |-> restore.todo, done |-> restore.done,
                  try |-> restore.try]
    /\ restore.todo \in SUBSET fileCreatorForApply(mgr)
    /\ restore.done \in SUBSET fileCreatorForApply(mgr)
    /\ ~restore.on => restore = NoRestore

\* The kernel is where the dirty cache, or the restore under way, takes it to be.
InStep ==
    IF restore.on THEN Midway(mgr, kernel, restore.todo, restore.done)
                  ELSE \A s \in Sets : SyncAt(mgr, kernel, s)

NInv == /\ Sound(mgr) /\ kernel \in Kernels /\ RestoreInv
        /\ failures \in 0 .. MaxFailures - 1
        /\ Strict(mgr) => InStep

\* A manager is good when it is sound and in step with the kernel.
LEMMA GoodFacts ==
    ASSUME NEW m, NEW k
    PROVE  Good(m, k) <=> Sound(m) /\ (Strict(m) => \A s \in Sets : SyncAt(m, k, s))
  BY DEF Good, Sound, Local

\* Without a restore the manager is good.
LEMMA UnlockedIsGood ==
    ASSUME NInv, Unlocked
    PROVE  mgr \in GoodOnes(kernel) /\ Good(mgr, kernel)
<1>1. Good(mgr, kernel)
  BY GoodFacts DEF NInv, InStep, Unlocked
<1> QED BY <1>1 DEF GoodOnes, Good

\* No restore, no lines.
LEMMA NoRestoreFacts ==
    /\ NoRestore.on = FALSE /\ NoRestore.todo = {} /\ NoRestore.done = {} /\ NoRestore.try = 0
    /\ NoRestore = [on |-> FALSE, todo |-> {}, done |-> {}, try |-> 0]
  BY DEF NoRestore

\* The numbers of tries and failures.
LEMMA NumberFacts ==
    MaxTry \in Nat \ {0} /\ MaxFailures \in Nat \ {0} /\ 0 \in 0 .. MaxTry /\ 1 \in 0 .. MaxTry
    /\ 0 \in 0 .. MaxFailures - 1
<1>1. MaxTry \in Nat \ {0} /\ MaxFailures \in Nat \ {0}
  BY NPMAssumption
<1> QED BY <1>1

\* An operation under the lock.
LEMMA ChangeKeeps ==
    ASSUME NInv, NEW r \in GoodOnes(kernel), Change(r)
    PROVE  NInv'
<1>1. ~restore.on /\ mgr' = r /\ kernel' = kernel /\ restore' = restore /\ failures' = failures
  BY DEF Change, Unlocked
<1>2. restore = NoRestore
  BY <1>1 DEF NInv, RestoreInv
<1>3. Good(r, kernel)
  BY DEF GoodOnes
<1>4. Sound(mgr') /\ (Strict(mgr') => \A s \in Sets : SyncAt(mgr', kernel', s))
  BY <1>1, <1>3, GoodFacts
<1>5. RestoreInv'
  BY <1>1, <1>2, NumberFacts, NoRestoreFacts DEF RestoreInv
<1>6. kernel' \in Kernels /\ failures' \in 0 .. MaxFailures - 1
  BY <1>1 DEF NInv
<1>7. ~restore'.on
  BY <1>1
<1> QED BY <1>4, <1>5, <1>6, <1>7 DEF NInv, InStep

\* ApplyIPSets begins.
LEMMA ApplyBeginsKeeps ==
    ASSUME NInv, ApplyIPSets
    PROVE  NInv'
<1> DEFINE F == fileCreatorForApply(mgr)
<1>1. /\ ~restore.on /\ restore' = [on |-> TRUE, todo |-> F, done |-> {}, try |-> 1]
      /\ mgr' = mgr /\ kernel' = kernel /\ failures' = failures
  BY DEF ApplyIPSets, Unlocked
<1> HIDE DEF F
<1>2. restore'.on = TRUE /\ restore'.todo = F /\ restore'.done = {} /\ restore'.try = 1
  BY <1>1
<1>3. F = fileCreatorForApply(mgr')
  BY <1>1 DEF F
<1>4. RestoreInv'
  BY <1>1, <1>2, <1>3, NumberFacts DEF RestoreInv
<1>5. ASSUME Strict(mgr) PROVE Midway(mgr, kernel, F, {})
  <2>1. ASSUME NEW s \in Sets PROVE StaticAt(mgr, s) /\ MidAt(mgr, kernel, F, s)
    <3>1. SyncAt(mgr, kernel, s) /\ mgr \in Manager /\ InOneMap(mgr, s)
      BY <1>1, <1>5 DEF NInv, InStep, Sound, DirtyAt
    <3>2. StaticAt(mgr, s)
      BY <3>1 DEF SyncAt
    <3> QED BY <3>1, <3>2, SyncIsMidway DEF F
  <2> QED BY <2>1 DEF Midway, F
<1> QED BY <1>1, <1>2, <1>4, <1>5 DEF NInv, InStep

\* A line the kernel takes leaves it a kernel.
LEMMA ExecutedIsKernel ==
    ASSUME mgr \in Manager, kernel \in Kernels, NEW l \in fileCreatorForApply(mgr), Accepted(l)
    PROVE  Executed(l) \in Kernels
<1>1. \A s \in DOMAIN kernel : kernel[s] \in SUBSET Elements
  BY MapFacts DEF Kernels
<1>2. \A s \in DOMAIN kernel, v \in SUBSET Elements : [kernel EXCEPT ![s] = v] \in Kernels
  BY ExceptFacts DEF Kernels
<1>3. \A s \in toAddOrUpdate(mgr) : /\ s \in Sets /\ memberDiff(mgr, s).add \in SUBSET Elements
  BY DiffFacts DEF toAddOrUpdate, Diffs, Elements
<1>4. {} \in SUBSET Elements
  OBVIOUS
<1>5. LineKinds(mgr, l)
  BY FileKinds
<1>6. CASE \E s \in toAddOrUpdate(mgr) : l = Line("create", s, s)
  <2>1. PICK s \in toAddOrUpdate(mgr) : l = Line("create", s, s)
    BY <1>6
  <2>2. Executed(l) = IF s \in DOMAIN kernel THEN kernel ELSE Extended(kernel, s, {})
    BY <2>1, LineFacts DEF Executed
  <2> QED BY <1>3, <1>4, <2>2, ExtendedFacts DEF Kernels
<1>7. CASE \E s \in toAddOrUpdate(mgr) : \E x \in memberDiff(mgr, s).del : l = Line("del", s, x)
  <2>1. PICK s \in toAddOrUpdate(mgr) : \E x \in memberDiff(mgr, s).del : l = Line("del", s, x)
    BY <1>7
  <2>2. PICK x \in memberDiff(mgr, s).del : l = Line("del", s, x)
    BY <2>1
  <2>3. l.set = s /\ l.op = "del" /\ l.member = x
    BY <2>2, LineFacts
  <2>4. Executed(l) = [kernel EXCEPT ![s] = kernel[s] \ {x}] /\ s \in DOMAIN kernel
    BY <2>3 DEF Executed, Accepted
  <2>5. kernel[s] \ {x} \in SUBSET Elements
    BY <1>1, <2>4
  <2> QED BY <1>2, <2>4, <2>5
<1>8. CASE \E s \in toAddOrUpdate(mgr) : \E x \in memberDiff(mgr, s).add : l = Line("add", s, x)
  <2>1. PICK s \in toAddOrUpdate(mgr) : \E x \in memberDiff(mgr, s).add : l = Line("add", s, x)
    BY <1>8
  <2>2. PICK x \in memberDiff(mgr, s).add : l = Line("add", s, x)
    BY <2>1
  <2>3. l.set = s /\ l.op = "add" /\ l.member = x
    BY <2>2, LineFacts
  <2>4. Executed(l) = [kernel EXCEPT ![s] = kernel[s] \cup {x}] /\ s \in DOMAIN kernel
    BY <2>3 DEF Executed, Accepted
  <2>5. kernel[s] \cup {x} \in SUBSET Elements
    BY <1>1, <1>3, <2>4
  <2> QED BY <1>2, <2>4, <2>5
<1>9. CASE \E s \in DOMAIN mgr.toDestroy : l = Line("flush", s, s)
  <2>1. PICK s \in DOMAIN mgr.toDestroy : l = Line("flush", s, s)
    BY <1>9
  <2>2. l.set = s /\ l.op = "flush"
    BY <2>1, LineFacts
  <2>3. Executed(l) = [kernel EXCEPT ![s] = {}] /\ s \in DOMAIN kernel
    BY <2>2 DEF Executed, Accepted
  <2> QED BY <1>2, <1>4, <2>3
<1>10. CASE \E s \in DOMAIN mgr.toDestroy : l = Line("destroy", s, s)
  <2>1. PICK s \in DOMAIN mgr.toDestroy : l = Line("destroy", s, s)
    BY <1>10
  <2>2. l.set = s /\ l.op = "destroy"
    BY <2>1, LineFacts
  <2>3. Executed(l) = Without(kernel, {s})
    BY <2>2 DEF Executed
  <2> QED BY <2>3, WithoutFacts DEF Kernels
<1> QED BY <1>5, <1>6, <1>7, <1>8, <1>9, <1>10 DEF LineKinds

\* In step, a restore under way is one.
LEMMA InStepInRestore ==
    ASSUME NInv, restore.on, Strict(mgr)
    PROVE  InRestore /\ Midway(mgr, kernel, restore.todo, restore.done)
  BY DEF NInv, InStep, InRestore, Strict

\* A line runs.
LEMMA LineRunsInv ==
    ASSUME NInv, NEW l, LineRuns(l)
    PROVE  NInv'
<1> DEFINE T == restore.todo
           D == restore.done
<1>1. /\ Next1(l) /\ Accepted(l) /\ l \in T /\ kernel' = Executed(l)
      /\ restore' = [restore EXCEPT !.todo = T \ {l}, !.done = D \cup {l}]
      /\ mgr' = mgr /\ failures' = failures
  BY DEF LineRuns, Next1
<1>2. restore.on
  BY <1>1, NoRestoreFacts DEF NInv, RestoreInv
<1>3. restore' = [on |-> restore.on, todo |-> T \ {l}, done |-> D \cup {l}, try |-> restore.try]
  BY <1>1 DEF NInv, RestoreInv
<1>4. /\ restore'.on = restore.on /\ restore'.todo = T \ {l} /\ restore'.done = D \cup {l}
      /\ restore'.try = restore.try
  BY <1>3
<1>5. l \in fileCreatorForApply(mgr) /\ fileCreatorForApply(mgr) = fileCreatorForApply(mgr')
  BY <1>1 DEF NInv, RestoreInv
<1>6. RestoreInv'
  BY <1>2, <1>3, <1>4, <1>5 DEF NInv, RestoreInv
<1>7. kernel' \in Kernels
  BY <1>1, <1>5, ExecutedIsKernel DEF NInv, Sound
<1>8. ASSUME Strict(mgr) PROVE Midway(mgr', kernel', restore'.todo, restore'.done)
  <2>1. InRestore
    BY <1>2, <1>8, InStepInRestore
  <2>2. Midway(mgr, kernel', T \ {l}, D \cup {l})
    BY <2>1, LineRunsKeeps
  <2> QED BY <1>1, <1>4, <2>2
<1> QED BY <1>1, <1>2, <1>4, <1>6, <1>7, <1>8 DEF NInv, InStep

\* A line is refused: in step that does not happen.
LEMMA LineSkippedInv ==
    ASSUME NInv, NEW l, LineSkipped(l)
    PROVE  NInv'
<1> DEFINE U == restore.todo \ ({l} \cup Aborted(l))
           n == restore.try + 1
<1>1. /\ Next1(l) /\ ~Accepted(l) /\ l \in restore.todo /\ restore.try < MaxTry
      /\ restore' = [restore EXCEPT !.todo = U, !.done = {}, !.try = n]
      /\ mgr' = mgr /\ failures' = failures /\ kernel' = kernel
  BY DEF LineSkipped, Next1
<1>2. restore.on
  BY <1>1, NoRestoreFacts DEF NInv, RestoreInv
<1>3. restore' = [on |-> restore.on, todo |-> U, done |-> {}, try |-> n]
  BY <1>1 DEF NInv, RestoreInv
<1>4. restore'.on = restore.on /\ restore'.todo = U /\ restore'.done = {} /\ restore'.try = n
  BY <1>3
<1>5. n \in 0 .. MaxTry
  BY <1>1, NumberFacts DEF NInv, RestoreInv
<1>6. U \in SUBSET fileCreatorForApply(mgr) /\ fileCreatorForApply(mgr) = fileCreatorForApply(mgr')
  BY <1>1 DEF NInv, RestoreInv
<1> HIDE DEF U, n
<1>7. RestoreInv'
  BY <1>2, <1>3, <1>4, <1>5, <1>6 DEF NInv, RestoreInv
<1>8. ~Strict(mgr)
  BY <1>1, <1>2, InStepInRestore, EveryLineAccepted
<1> QED BY <1>1, <1>7, <1>8 DEF NInv

\* A restore that breaks off has, in step, done nothing: its file is whole.
LEMMA BreaksAtStart ==
    ASSUME NInv, MayBreak, Strict(mgr)
    PROVE  /\ restore.done = {} /\ restore.todo = fileCreatorForApply(mgr)
           /\ Midway(mgr, kernel, restore.todo, {}) /\ \A s \in Sets : SyncAt(mgr, kernel, s)
<1>1. restore.on /\ restore.done = {}
  BY DEF MayBreak, Strict
<1>2. Midway(mgr, kernel, restore.todo, {})
  BY <1>1, InStepInRestore
<1>3. restore.todo = fileCreatorForApply(mgr)
  BY <1>2 DEF Midway
<1>4. ASSUME NEW s \in Sets PROVE SyncAt(mgr, kernel, s)
  <2>1. StaticAt(mgr, s) /\ MidAt(mgr, kernel, fileCreatorForApply(mgr), s)
    BY <1>2, <1>3, MidwayFacts
  <2>2. mgr \in Manager /\ InOneMap(mgr, s)
    BY DEF NInv, Sound, DirtyAt
  <2> QED BY <2>1, <2>2, SyncIsMidway
<1> QED BY <1>1, <1>2, <1>3, <1>4

\* The same file is run again.
LEMMA RerunInv ==
    ASSUME NInv, Rerun
    PROVE  NInv'
<1> DEFINE U == restore.todo \cup restore.done
           n == restore.try + 1
<1>1. /\ MayBreak /\ restore.on /\ restore.try < MaxTry
      /\ restore' = [restore EXCEPT !.todo = U, !.done = {}, !.try = n]
      /\ mgr' = mgr /\ failures' = failures /\ kernel' = kernel
  BY DEF Rerun, MayBreak
<1>2. restore' = [on |-> restore.on, todo |-> U, done |-> {}, try |-> n]
  BY <1>1 DEF NInv, RestoreInv
<1>3. restore'.on = restore.on /\ restore'.todo = U /\ restore'.done = {} /\ restore'.try = n
  BY <1>2
<1>4. n \in 0 .. MaxTry
  BY <1>1, NumberFacts DEF NInv, RestoreInv
<1>5. U \in SUBSET fileCreatorForApply(mgr) /\ fileCreatorForApply(mgr) = fileCreatorForApply(mgr')
  BY <1>1 DEF NInv, RestoreInv
<1>6. ASSUME Strict(mgr) PROVE Midway(mgr, kernel, U, {})
  <2>1. U = restore.todo /\ Midway(mgr, kernel, restore.todo, {})
    BY <1>1, <1>6, BreaksAtStart
  <2> QED BY <2>1
<1> HIDE DEF U, n
<1>7. RestoreInv'
  BY <1>1, <1>2, <1>3, <1>4, <1>5 DEF NInv, RestoreInv
<1> QED BY <1>1, <1>3, <1>6, <1>7 DEF NInv, InStep

\* The call returns with an error, and the dirty cache is right for the next one.
LEMMA ApplyFailsInv ==
    ASSUME NInv, ApplyFails
    PROVE  NInv'
<1>1. /\ LastTryFails /\ failures + 1 < MaxFailures /\ failures' = failures + 1
      /\ restore' = NoRestore /\ mgr' = mgr /\ kernel' = kernel
  BY DEF ApplyFails
<1>2. failures' \in 0 .. MaxFailures - 1
  BY <1>1, NumberFacts DEF NInv
<1>3. RestoreInv'
  BY <1>1, NumberFacts, NoRestoreFacts DEF RestoreInv
<1>4. ASSUME Strict(mgr) PROVE \A s \in Sets : SyncAt(mgr, kernel, s)
  <2>1. MayBreak
    <3> SUFFICES ASSUME NEW l \in restore.todo, Next1(l), ~Accepted(l) PROVE FALSE
      BY <1>1 DEF LastTryFails
    <3>1. restore.on
      BY NoRestoreFacts DEF NInv, RestoreInv
    <3> QED BY <1>4, <3>1, InStepInRestore, EveryLineAccepted
  <2> QED BY <1>4, <2>1, BreaksAtStart
<1>5. restore'.on = FALSE
  BY <1>1, NoRestoreFacts
<1> QED BY <1>1, <1>2, <1>3, <1>4, <1>5 DEF NInv, InStep

\* A manager without sets is in step with an empty kernel.
LEMMA NewManagerFacts ==
    ASSUME NEW mode \in Modes
    PROVE  /\ Sound(NewIPSetManager(mode))
           /\ \A s \in Sets : SyncAt(NewIPSetManager(mode), << >>, s)
           /\ << >> \in Kernels
<1> DEFINE m == NewIPSetManager(mode)
<1>1. /\ m.setMap = << >> /\ m.toCreate = << >> /\ m.toUpdate = << >> /\ m.toDestroy = << >>
      /\ m = [mode |-> mode, setMap |-> << >>, toCreate |-> << >>, toUpdate |-> << >>,
              toDestroy |-> << >>]
  BY DEF NewIPSetManager
<1>2. << >> \in Maps(Sets, SetRecord) /\ << >> \in Maps(Sets, Diffs) /\ << >> \in Kernels
  BY EmptyMap DEF Kernels
<1>3. m \in Manager
  BY <1>1, <1>2 DEF Manager
<1> HIDE DEF m
<1>4. DOMAIN << >> = {}
  BY EmptyMap
<1>5. /\ DOMAIN m.setMap = {} /\ DOMAIN m.toCreate = {} /\ DOMAIN m.toUpdate = {}
      /\ DOMAIN m.toDestroy = {}
  BY <1>1, <1>4
<1>6. Closed(m) /\ \A s \in Sets : KindsAt(m, s) /\ DirtyAt(m, s) /\ CountsAt(m, s)
  BY <1>5 DEF Closed, KindsAt, DirtyAt, CountsAt, InOneMap, toAddOrUpdate
<1>7. \A s \in Sets : SyncAt(m, << >>, s)
  BY <1>4, <1>5 DEF SyncAt, StaticAt, CleanAt
<1>8. Sound(m)
  BY <1>3, <1>6 DEF Sound
<1> QED BY <1>2, <1>7, <1>8 DEF m

\* The process panics and starts anew.
LEMMA PanicInv ==
    ASSUME NInv, Panic
    PROVE  NInv'
<1>1. /\ failures' = 0 /\ restore' = NoRestore /\ mgr' = NewIPSetManager(mgr.mode)
      /\ kernel' = << >>
  BY DEF Panic
<1>2. mgr.mode \in Modes
  BY ManagerFacts DEF NInv, Sound
<1>3. /\ Sound(mgr') /\ kernel' \in Kernels /\ \A s \in Sets : SyncAt(mgr', kernel', s)
  BY <1>1, <1>2, NewManagerFacts
<1>4. RestoreInv'
  BY <1>1, NumberFacts, NoRestoreFacts DEF RestoreInv
<1>5. restore'.on = FALSE /\ failures' \in 0 .. MaxFailures - 1
  BY <1>1, NoRestoreFacts, NumberFacts
<1> QED BY <1>3, <1>4, <1>5 DEF NInv, InStep

\* r has the cached sets of m, and nothing dirty.
Cleaned(m, r) ==
    /\ Sound(r) /\ r.mode = m.mode /\ r.setMap = m.setMap
    /\ \A s : StaticAt(r, s) /\ s \notin Dirty(r) /\ Members(r, s) = Members(m, s)

\* A sound cache with nothing dirty in it is sound.
LEMMA CleanIsSound ==
    ASSUME NEW m, Sound(m), NEW r,
           r = [NewIPSetManager(m.mode) EXCEPT !.setMap = m.setMap]
    PROVE  Cleaned(m, r)
<1>1. m \in Manager
  BY DEF Sound
<1>2. r = [mode |-> m.mode, setMap |-> m.setMap, toCreate |-> << >>, toUpdate |-> << >>,
           toDestroy |-> << >>]
  BY DEF NewIPSetManager
<1>3. << >> \in Maps(Sets, Diffs) /\ DOMAIN << >> = {}
  BY EmptyMap
<1>4. r \in Manager
  BY <1>1, <1>2, <1>3, ManagerFacts DEF Manager
<1>5. /\ r.mode = m.mode /\ r.setMap = m.setMap /\ DOMAIN r.toCreate = {}
      /\ DOMAIN r.toUpdate = {} /\ DOMAIN r.toDestroy = {}
  BY <1>2, <1>3
<1>6. \A s : s \notin toAddOrUpdate(r) /\ s \notin Dirty(r) /\ StaticAt(r, s)
  BY <1>5 DEF toAddOrUpdate, Dirty, StaticAt
<1>7. Closed(r) /\ \A s : KindsAt(m, s) => KindsAt(r, s)
  BY <1>5 DEF Sound, Closed, KindsAt
<1>8. \A s : DirtyAt(r, s)
  BY <1>5, <1>6 DEF DirtyAt, InOneMap
<1>9. \A s : ListsOf(r, s) = ListsOf(m, s)
  BY <1>5 DEF ListsOf
<1>10. \A s : shouldBeInKernel(r, s) <=> shouldBeInKernel(m, s)
  BY <1>5 DEF shouldBeInKernel
<1>11. \A s : KernelListsOf(r, s) = KernelListsOf(m, s)
  BY <1>9, <1>10 DEF KernelListsOf
<1>12. \A s : CountsAt(m, s) => CountsAt(r, s)
  BY <1>5, <1>9, <1>11 DEF CountsAt
<1>13. \A s : Members(r, s) = Members(m, s)
  BY <1>5 DEF Members
<1> QED BY <1>4, <1>5, <1>6, <1>7, <1>8, <1>12, <1>13 DEF Sound, Cleaned

\* The restore is done, and nothing is dirty any more.
LEMMA ApplySucceedsInv ==
    ASSUME NInv, ApplySucceeds
    PROVE  NInv'
<1>1. /\ restore.on /\ restore.todo = {} /\ restore' = NoRestore /\ failures' = 0
      /\ mgr' = [NewIPSetManager(mgr.mode) EXCEPT !.setMap = mgr.setMap] /\ kernel' = kernel
  BY DEF ApplySucceeds
<1>2. Sound(mgr)
  BY DEF NInv
<1>3. /\ Sound(mgr') /\ mgr'.mode = mgr.mode /\ mgr'.setMap = mgr.setMap
      /\ \A s : StaticAt(mgr', s) /\ s \notin Dirty(mgr') /\ Members(mgr', s) = Members(mgr, s)
  <2>1. Cleaned(mgr, mgr')
    BY <1>1, <1>2, CleanIsSound
  <2> QED BY <2>1 DEF Cleaned
<1>4. RestoreInv'
  BY <1>1, NumberFacts, NoRestoreFacts DEF RestoreInv
<1>5. restore'.on = FALSE /\ failures' \in 0 .. MaxFailures - 1
  BY <1>1, NoRestoreFacts, NumberFacts
<1>6. ASSUME Strict(mgr), NEW s \in Sets PROVE SyncAt(mgr', kernel', s)
  <2>1. MidAt(mgr, kernel, {}, s) /\ DirtyAt(mgr, s) /\ mgr.mode = "all"
    BY <1>1, <1>2, <1>6, InStepInRestore, MidwayFacts DEF Sound, Strict
  <2>2. /\ s \in DOMAIN mgr.setMap <=> s \in DOMAIN kernel
        /\ s \in DOMAIN kernel => kernel[s] = Members(mgr, s)
    BY <2>1, DoneIsClean
  <2>3. CleanAt(mgr', kernel', s)
    BY <1>1, <1>3, <2>2 DEF CleanAt
  <2>4. s \notin Dirty(mgr') /\ StaticAt(mgr', s)
    BY <1>3
  <2> QED BY <2>3, <2>4 DEF SyncAt, Dirty, toAddOrUpdate
<1>7. Strict(mgr') <=> Strict(mgr)
  BY <1>3 DEF Strict
<1>8. kernel' \in Kernels
  BY <1>1 DEF NInv
<1> QED BY <1>3, <1>4, <1>5, <1>6, <1>7, <1>8 DEF NInv, InStep

-----------------------------------------------------------------------------
(* The theorems *)

\* An operation whose outcome is a good manager.
LEMMA OutcomeKeeps ==
    ASSUME NInv, Unlocked, mgr' \in GoodOnes(kernel), UNCHANGED <<kernel, restore, failures, faults>>
    PROVE  NInv'
<1>1. Change(mgr')
  BY DEF Change
<1> QED BY <1>1, ChangeKeeps

\* The operations of the controllers, as long as no set is deleted with "force".
LEMMA OperationKeeps ==
    ASSUME DeleteOptions \subseteq {"soft"}, NInv, Operation
    PROVE  NInv'
<1>1. Unlocked => mgr \in GoodOnes(kernel) /\ Good(mgr, kernel)
  BY UnlockedIsGood
<1>2. \A m : Good(m, kernel) => m \in GoodOnes(kernel)
  BY DEF GoodOnes, Good
<1>3. ASSUME NEW s \in Sets, CreateIPSets({s}) PROVE NInv'
  <2>1. Change(AllCreated(mgr, {s}))
    BY ONLY <1>3, Zenon DEF CreateIPSets, AllCreated
  <2>2. {s} \in SUBSET Sets
    OBVIOUS
  <2>3. Unlocked
    BY <2>1 DEF Change
  <2>4. AllCreated(mgr, {s}) \in GoodOnes(kernel)
    BY <1>1, <2>2, <2>3, CreateLoop
  <2> QED BY <2>1, <2>4, ChangeKeeps
<1>4. ASSUME NEW s \in Sets, NEW o \in DeleteOptions, DeleteIPSet(s, o) PROVE NInv'
  <2>1. /\ Unlocked /\ mgr' = modifyCacheForCacheDeletion(mgr, s, o)
        /\ UNCHANGED <<kernel, restore, failures, faults>>
    BY <1>4 DEF DeleteIPSet, Change
  <2>2. o = "soft"
    OBVIOUS
  <2>3. Good(modifyCacheForCacheDeletion(mgr, s, "soft"), kernel)
    BY <1>1, <2>1, DeletionKeepsGood
  <2> QED BY <1>2, <2>1, <2>2, <2>3, OutcomeKeeps
<1>5. ASSUME NEW s \in Sets, NEW r \in References, AddReference(s, r) PROVE NInv'
  <2>1. /\ Unlocked /\ mgr' = AddReferenceTo(mgr, s, r)
        /\ UNCHANGED <<kernel, restore, failures, faults>>
    BY <1>5 DEF AddReference, Change
  <2>2. Good(AddReferenceTo(mgr, s, r), kernel)
    BY <1>1, <2>1, AddReferenceKeepsGood
  <2> QED BY <1>2, <2>1, <2>2, OutcomeKeeps
<1>6. ASSUME NEW s \in Sets, NEW r \in References, DeleteReference(s, r) PROVE NInv'
  <2>1. /\ Unlocked /\ mgr' = DeleteReferenceTo(mgr, s, r)
        /\ UNCHANGED <<kernel, restore, failures, faults>>
    BY <1>6 DEF DeleteReference, Change
  <2>2. Good(DeleteReferenceTo(mgr, s, r), kernel)
    BY <1>1, <2>1, DeleteReferenceKeepsGood
  <2> QED BY <1>2, <2>1, <2>2, OutcomeKeeps
<1>7. ASSUME NEW S \in (SUBSET HashSets) \ {{}}, NEW ip \in IPs, NEW key \in PodKeys,
             AddToSets(S, ip, key)
      PROVE  NInv'
  <2>1. Change(AllAdded(mgr, S, ip, key))
    BY ONLY <1>7, Zenon DEF AddToSets, AllAdded
  <2>2. S \in SUBSET HashSets
    OBVIOUS
  <2>3. Unlocked
    BY <2>1 DEF Change
  <2>4. AllAdded(mgr, S, ip, key) \in GoodOnes(kernel)
    BY <1>1, <2>2, <2>3, AddLoop
  <2> QED BY <2>1, <2>4, ChangeKeeps
<1>8. ASSUME NEW S \in (SUBSET HashSets) \ {{}}, NEW ip \in IPs, NEW key \in PodKeys,
             RemoveFromSets(S, ip, key)
      PROVE  NInv'
  <2>1. Change(AllRemoved(mgr, S, ip, key))
    BY ONLY <1>8, Zenon DEF RemoveFromSets, AllRemoved
  <2>2. S \in SUBSET HashSets
    OBVIOUS
  <2>3. Unlocked
    BY <2>1 DEF Change
  <2>4. AllRemoved(mgr, S, ip, key) \in GoodOnes(kernel)
    BY <1>1, <2>2, <2>3, RemoveLoop
  <2> QED BY <2>1, <2>4, ChangeKeeps
<1>9. ASSUME NEW S \in (SUBSET HashSets) \ {{}}, NEW l \in ListSets, AddToLists({l}, S)
      PROVE  NInv'
  <2>1. Change(AllListed(mgr, {l}, S))
    BY ONLY <1>9, Zenon DEF AddToLists, AllListed
  <2>2. S \in SUBSET HashSets
    OBVIOUS
  <2>3. Unlocked
    BY <2>1 DEF Change
  <2>4. AllListed(mgr, {l}, S) \in GoodOnes(kernel)
    BY <1>1, <2>2, <2>3, AddToListLoop
  <2> QED BY <2>1, <2>4, ChangeKeeps
<1>10. ASSUME NEW S \in (SUBSET HashSets) \ {{}}, NEW l \in ListSets, RemoveFromList(l, S)
       PROVE  NInv'
  <2>1. Change(AllUnlisted(mgr, l, S))
    BY ONLY <1>10, Zenon DEF RemoveFromList, AllUnlisted
  <2>2. S \in SUBSET HashSets
    OBVIOUS
  <2>3. Unlocked
    BY <2>1 DEF Change
  <2>4. AllUnlisted(mgr, l, S) \in GoodOnes(kernel)
    BY <1>1, <2>2, <2>3, RemoveMemberLoop
  <2> QED BY <2>1, <2>4, ChangeKeeps
<1>11. ASSUME Reconcile PROVE NInv'
  <2>1. Change(AllDeleted(mgr, DOMAIN mgr.setMap))
    BY ONLY <1>11, Zenon DEF Reconcile, AllDeleted
  <2>2. Unlocked => DOMAIN mgr.setMap \in SUBSET Sets
    BY <1>1, SetFacts DEF Good
  <2>3. Unlocked
    BY <2>1 DEF Change
  <2>4. AllDeleted(mgr, DOMAIN mgr.setMap) \in GoodOnes(kernel)
    BY <1>1, <2>2, <2>3, DeleteLoop
  <2> QED BY <2>1, <2>4, ChangeKeeps
<1> QED BY <1>3, <1>4, <1>5, <1>6, <1>7, <1>8, <1>9, <1>10, <1>11 DEF Operation

\* The first manager is in step with the empty kernel.
LEMMA NInitInv == NInit => NInv
<1> SUFFICES ASSUME NInit PROVE NInv
  OBVIOUS
<1>1. PICK mode \in Modes : mgr = NewIPSetManager(mode)
  BY DEF NInit
<1>2. kernel = << >> /\ restore = NoRestore /\ failures = 0
  BY DEF NInit
<1>3. Sound(mgr) /\ kernel \in Kernels /\ \A s \in Sets : SyncAt(mgr, kernel, s)
  BY <1>1, <1>2, NewManagerFacts
<1>4. RestoreInv
  BY <1>2, NumberFacts, NoRestoreFacts DEF RestoreInv
<1>5. restore.on = FALSE /\ failures \in 0 .. MaxFailures - 1
  BY <1>2, NoRestoreFacts, NumberFacts
<1> QED BY <1>3, <1>4, <1>5 DEF NInv, InStep

\* Every step of a restore keeps the invariant.
LEMMA RestoringKeeps ==
    ASSUME NInv, Restoring
    PROVE  NInv'
  BY LineRunsInv, LineSkippedInv, RerunInv, ApplyFailsInv, PanicInv, ApplySucceedsInv
     DEF Restoring

\* Steps that leave the manager and the kernel alone.
LEMMA StutterKeeps ==
    ASSUME NInv, UNCHANGED <<mgr, kernel, restore, failures>>
    PROVE  NInv'
  BY DEF NInv, RestoreInv, InStep

\* The invariant of the IPSetManager holds of all its behaviours.
LEMMA ManagerInvariant ==
    ASSUME DeleteOptions \subseteq {"soft"}
    PROVE  NSpec => []NInv
<1>1. NInit => NInv
  BY NInitInv
<1>2. NInv /\ [NNext]_nvars => NInv'
  <2> SUFFICES ASSUME NInv, [NNext]_nvars PROVE NInv'
    OBVIOUS
  <2>1. CASE Operation
    BY <2>1, OperationKeeps
  <2>2. CASE ApplyIPSets
    BY <2>2, ApplyBeginsKeeps
  <2>3. CASE Restoring
    BY <2>3, RestoringKeeps
  <2>4. CASE UNCHANGED nvars
    BY <2>4, StutterKeeps DEF nvars
  <2> QED BY <2>1, <2>2, <2>3, <2>4 DEF NNext
<1> QED BY <1>1, <1>2, PTL DEF NSpec

\* The manager's maps and counts keep their types (ipset.go: IPSet, dirtycache.go:
\* dirtyCache), and the tries and failures their limits, whatever the controllers call
\* and whatever becomes of the restores.
THEOREM NPMTypes ==
    ASSUME DeleteOptions \subseteq {"soft"}
    PROVE  NSpec => []NTypeOK
<1>1. NInv => NTypeOK
  <2> SUFFICES ASSUME NInv PROVE NTypeOK
    OBVIOUS
  <2>1. mgr \in Manager
    BY DEF NInv, Sound
  <2>2. ASSUME NEW s \in DOMAIN mgr.setMap
        PROVE  /\ s \in Sets
               /\ mgr.setMap[s].refs \subseteq References
               /\ {mgr.setMap[s].ipsetReferCount, mgr.setMap[s].kernelReferCount}
                     \subseteq 0 .. Cardinality(ListSets)
               /\ DOMAIN mgr.setMap[s].ipPodKey \subseteq IPs
               /\ \A ip \in DOMAIN mgr.setMap[s].ipPodKey : mgr.setMap[s].ipPodKey[ip] \in PodKeys
               /\ mgr.setMap[s].memberIPSets \subseteq HashSets \cap DOMAIN mgr.setMap
               /\ s \in HashSets => mgr.setMap[s].memberIPSets = {}
               /\ s \in ListSets => mgr.setMap[s].ipPodKey = << >>
    <3>1. /\ s \in Sets /\ mgr.setMap[s].refs \in SUBSET References
          /\ mgr.setMap[s].ipPodKey \in Maps(IPs, PodKeys)
          /\ mgr.setMap[s].memberIPSets \in SUBSET HashSets
      BY <2>1, SetFacts
    <3>2. KindsAt(mgr, s) /\ CountsAt(mgr, s) /\ Closed(mgr)
      BY <3>1 DEF NInv, Sound
    <3>3. /\ DOMAIN mgr.setMap[s].ipPodKey \subseteq IPs
          /\ \A ip \in DOMAIN mgr.setMap[s].ipPodKey : mgr.setMap[s].ipPodKey[ip] \in PodKeys
      BY <3>1, MapFacts
    <3>4. /\ mgr.setMap[s].ipsetReferCount \in 0 .. Cardinality(ListSets)
          /\ mgr.setMap[s].kernelReferCount \in 0 .. Cardinality(ListSets)
      BY <3>2, ListsFacts DEF CountsAt
    <3>5. mgr.setMap[s].memberIPSets \subseteq DOMAIN mgr.setMap
      BY <3>2 DEF Closed
    <3>6. /\ s \in HashSets => mgr.setMap[s].memberIPSets = {}
          /\ s \in ListSets => mgr.setMap[s].ipPodKey = << >>
      BY <3>2 DEF KindsAt
    <3> QED BY <3>1, <3>3, <3>4, <3>5, <3>6
  <2>3. ASSUME NEW cache \in {mgr.toCreate, mgr.toUpdate, mgr.toDestroy}
        PROVE  DOMAIN cache \subseteq Sets /\ \A s \in DOMAIN cache : cache[s] \in Diffs
    <3>1. cache \in Maps(Sets, Diffs)
      BY <2>1, ManagerFacts
    <3> QED BY <3>1, MapFacts
  <2>4. restore.try \in 0 .. MaxTry /\ failures \in 0 .. MaxFailures - 1
    BY DEF NInv, RestoreInv
  <2> QED BY <2>2, <2>3, <2>4 DEF NTypeOK
<1>2. NSpec => []NInv
  BY ManagerInvariant
<1> QED BY <1>1, <1>2, PTL

\* What fileCreatorForApply relies on when it dereferences setMap[name]: a set is in one
\* map of the dirty cache, one to create or to update is cached and belongs in the
\* kernel, and one to destroy does not.
THEOREM DirtyCacheRight ==
    ASSUME DeleteOptions \subseteq {"soft"}
    PROVE  NSpec => []DirtyRight
<1>1. NInv => DirtyRight
  <2> SUFFICES ASSUME NInv PROVE DirtyRight
    OBVIOUS
  <2>1. \A s \in Sets : DirtyAt(mgr, s)
    BY DEF NInv, Sound
  <2>2. mgr \in Manager
    BY DEF NInv, Sound
  <2>3. \A s : s \in Dirty(mgr) => s \in Sets
    BY <2>2, DiffFacts DEF Dirty, toAddOrUpdate
  <2>4. \A s \in Dirty(mgr) : DirtyAt(mgr, s)
    BY <2>1, <2>3
  <2>5. \A s : WantedInKernel(s) <=> Wanted(mgr, s)
    BY DEF WantedInKernel, Wanted
  <2> QED BY <2>4, <2>5 DEF DirtyRight, DirtyAt, InOneMap, Dirty, toAddOrUpdate
<1>2. NSpec => []NInv
  BY ManagerInvariant
<1> QED BY <1>1, <1>2, PTL

\* The reference counts of a hash set (ipsetReferCount and kernelReferCount) are the
\* numbers of lists it is in, in the cache and in the kernel.
THEOREM CountsAreExact ==
    ASSUME DeleteOptions \subseteq {"soft"}
    PROVE  NSpec => []CountsExact
<1>1. NInv => CountsExact
  <2> SUFFICES ASSUME NInv, NEW s \in HashSets \cap DOMAIN mgr.setMap
               PROVE  /\ mgr.setMap[s].ipsetReferCount = Cardinality(Lists(s))
                      /\ mgr.setMap[s].kernelReferCount =
                            Cardinality({l \in Lists(s) : shouldBeInKernel(mgr, l)})
    BY DEF CountsExact
  <2>1. CountsAt(mgr, s)
    BY DEF NInv, Sound, Sets
  <2>2. Lists(s) = ListsOf(mgr, s)
    <3>1. \A l \in ListSets : l \notin HashSets
      BY NPMAssumption
    <3> QED BY <3>1 DEF Lists, ListsOf, Members
  <2>3. {l \in Lists(s) : shouldBeInKernel(mgr, l)} = KernelListsOf(mgr, s)
    BY <2>2 DEF KernelListsOf
  <2> QED BY <2>1, <2>2, <2>3 DEF CountsAt
<1>2. NSpec => []NInv
  BY ManagerInvariant
<1> QED BY <1>1, <1>2, PTL

\* With ApplyAllIPSets the dirty cache forgets nothing: between two applies the sets of
\* the kernel with the differences on top are exactly the cached sets with their cached
\* members.  A restore that breaks off does so before its first line.
THEOREM KernelStaysInSync ==
    ASSUME DeleteOptions \subseteq {"soft"}, ~BreaksMidway
    PROVE  NSpec => []KernelInSync
<1>1. NInv => KernelInSync
  <2> SUFFICES ASSUME NInv, mgr.mode = "all", ~restore.on, NEW s \in Sets
               PROVE  /\ InKernelAfter(s) <=> WantedInKernel(s)
                      /\ WantedInKernel(s) => Planned(s) = Members(mgr, s)
    BY DEF KernelInSync, Unlocked
  <2>1. SyncAt(mgr, kernel, s)
    BY DEF NInv, InStep, Strict
  <2>2. DirtyAt(mgr, s)
    BY DEF NInv, Sound
  <2>3. WantedInKernel(s) <=> s \in DOMAIN mgr.setMap
    BY DEF WantedInKernel, shouldBeInKernel
  <2>4. Wanted(mgr, s) <=> WantedInKernel(s)
    BY DEF Wanted, WantedInKernel
  <2>5. CASE s \in DOMAIN mgr.toCreate
    <3>1. memberDiff(mgr, s) = diffOnCreate(Members(mgr, s)) /\ s \notin DOMAIN kernel
      BY <2>1, <2>5 DEF SyncAt, StaticAt, memberDiff
    <3>2. memberDiff(mgr, s).add = Members(mgr, s)
      BY <3>1 DEF diffOnCreate
    <3>3. Planned(s) = Members(mgr, s)
      BY <3>1, <3>2 DEF Planned
    <3> QED BY <2>2, <2>4, <2>5, <3>3 DEF DirtyAt, InKernelAfter, toAddOrUpdate
  <2>6. CASE s \in DOMAIN mgr.toUpdate
    <3>1. memberDiff(mgr, s) = mgr.toUpdate[s]
      BY <2>2, <2>6 DEF DirtyAt, InOneMap, memberDiff
    <3>2. s \in DOMAIN kernel /\ LeadsTo(mgr, s, kernel[s], memberDiff(mgr, s).del, memberDiff(mgr, s).add)
      BY <2>1, <2>6, <3>1 DEF SyncAt
    <3>3. Planned(s) = Members(mgr, s)
      BY <3>2 DEF Planned, LeadsTo
    <3> QED BY <2>2, <2>4, <2>6, <3>3 DEF DirtyAt, InKernelAfter, toAddOrUpdate
  <2>7. CASE s \in DOMAIN mgr.toDestroy
    BY <2>2, <2>4, <2>7 DEF DirtyAt, InOneMap, InKernelAfter
  <2>8. CASE s \notin Dirty(mgr)
    <3>1. /\ s \in DOMAIN mgr.setMap <=> s \in DOMAIN kernel
          /\ s \in DOMAIN kernel => kernel[s] = Members(mgr, s)
      BY <2>1, <2>8 DEF SyncAt, CleanAt
    <3>2. memberDiff(mgr, s) = newMemberDiff
      BY <2>8 DEF memberDiff, Dirty, toAddOrUpdate
    <3>3. memberDiff(mgr, s).add = {} /\ memberDiff(mgr, s).del = {}
      BY <3>2 DEF newMemberDiff
    <3>4. InKernelAfter(s) <=> s \in DOMAIN kernel
      BY <2>8 DEF InKernelAfter, Dirty
    <3>5. s \in DOMAIN kernel => Planned(s) = Members(mgr, s)
      BY <3>1, <3>3 DEF Planned
    <3> QED BY <2>3, <3>1, <3>4, <3>5
  <2> QED BY <2>5, <2>6, <2>7, <2>8 DEF Dirty, toAddOrUpdate
<1>2. NSpec => []NInv
  BY ManagerInvariant
<1> QED BY <1>1, <1>2, PTL

\* The kernel has no reason to refuse the next line of a restore.
NoneRefused == mgr.mode = "all" => \A l \in restore.todo : Next1(l) => Accepted(l)

\* With ApplyAllIPSets no line of a restore file is refused: fileCreatorForApply names
\* only sets and members the kernel has where it must have them, in an order that has
\* every set a line needs there before it, so that the handlers of failed lines
\* (LineSkipped) are needed only after a restore that broke off midway.
THEOREM NoLineIsRefused ==
    ASSUME DeleteOptions \subseteq {"soft"}, ~BreaksMidway
    PROVE  NSpec => []NoneRefused
<1>1. NInv => NoneRefused
  <2> SUFFICES ASSUME NInv, mgr.mode = "all", NEW l \in restore.todo, Next1(l)
               PROVE  Accepted(l)
    BY DEF NoneRefused
  <2>1. restore.on
    BY NoRestoreFacts DEF NInv, RestoreInv
  <2>2. InRestore
    BY <2>1, InStepInRestore DEF Strict
  <2> QED BY <2>2, EveryLineAccepted
<1>2. NSpec => []NInv
  BY ManagerInvariant
<1> QED BY <1>1, <1>2, PTL

-----------------------------------------------------------------------------
(* The threads of the data plane *)

Calling == {"precaution", "apply", "unapply"}
Removing == {"unrule", "unrefer", "unmember", "unapply"}

NetPol ==
    [pc : {"idle", "references", "members", "rules"} \cup Calling \cup Removing,
     now : Policies \cup {NoPolicy},
     policies : SUBSET Policies, left : SUBSET Policies, retry : SUBSET Policies,
     readd : BOOLEAN, batch : BOOLEAN]

\* The policy thread and its queue.
QueueInv ==
    /\ installed \subseteq Policies /\ queue \subseteq Policies
    /\ removeFailed \in BOOLEAN
    /\ np \in NetPol
    /\ np.left \subseteq np.policies /\ np.policies \cup np.retry \subseteq queue
    /\ np.batch \/ np.policies \cap np.retry = {}
    /\ np.pc \in Removing => np.now \in Policies
    /\ np.pc = "idle" => np = Idle

\* A restore has its four fields; what is in them does not matter here.
RestoreShape(r) ==
    r.on \in BOOLEAN /\ r = [on |-> r.on, todo |-> r.todo, done |-> r.done, try |-> r.try]

\* The calls of applyDataPlaneNow.
CallInv ==
    /\ apply \in [Threads -> {"no", "called", "running", "applied", "ok", "failed"}]
    /\ "netpol" \in Threads
    /\ RestoreShape(restore)
    /\ restore.on <=> \E t \in Threads : apply[t] = "running"
    /\ \A t, u \in Threads : apply[t] = "running" /\ apply[u] = "running" => t = u

NetPolCalls == apply["netpol"] # "no" <=> np.pc \in Calling

DInv == QueueInv /\ CallInv /\ NetPolCalls

-----------------------------------------------------------------------------
(* Calls *)

\* One thread's call goes on, and no restore begins or ends.
LEMMA CallGoesOn ==
    ASSUME CallInv, UNCHANGED restore, NEW t \in Threads, apply[t] # "running",
           NEW v \in {"no", "called", "applied", "ok", "failed"}, apply' = [apply EXCEPT ![t] = v]
    PROVE  CallInv' /\ apply'[t] = v /\ \A u \in Threads \ {t} : apply'[u] = apply[u]
<1>1. apply \in [Threads -> {"no", "called", "running", "applied", "ok", "failed"}]
  BY DEF CallInv
<1>2. /\ Threads' = Threads /\ apply'[t] = v /\ \A u \in Threads \ {t} : apply'[u] = apply[u]
      /\ apply' \in [Threads -> {"no", "called", "running", "applied", "ok", "failed"}]
  BY <1>1 DEF Threads
<1>3. v # "running"
  OBVIOUS
<1>4. \A u \in Threads : apply'[u] = "running" <=> apply[u] = "running"
  BY <1>2, <1>3
<1> QED BY <1>2, <1>4 DEF CallInv

\* The netpol thread's calls, seen from the netpol thread.
LEMMA NetPolGoesOn ==
    ASSUME CallInv, apply["netpol"] # "running", UNCHANGED restore,
           NEW v \in {"no", "called"}, apply' = [apply EXCEPT !["netpol"] = v],
           v # "no" <=> np'.pc \in Calling
    PROVE  CallInv' /\ NetPolCalls'
<1>1. "netpol" \in Threads
  BY DEF CallInv
<1>2. CallInv' /\ apply'["netpol"] = v
  BY <1>1, CallGoesOn
<1> QED BY <1>2 DEF NetPolCalls

\* No call changes, and the restore under way, if any, stays under way.
LEMMA CallsStay ==
    ASSUME CallInv, UNCHANGED apply, RestoreShape(restore'), restore'.on = restore.on
    PROVE  CallInv'
  BY DEF CallInv, Threads, RestoreShape

\* The types of the policy thread's state.
LEMMA NetPolFacts ==
    ASSUME DInv
    PROVE  /\ installed \in SUBSET Policies /\ queue \in SUBSET Policies /\ removeFailed \in BOOLEAN
           /\ np \in NetPol /\ np.policies \in SUBSET queue /\ np.retry \in SUBSET queue
           /\ np.left \in SUBSET np.policies
           /\ "netpol" \in Threads /\ (np.pc \notin Calling => apply["netpol"] = "no")
  BY DEF DInv, QueueInv, CallInv, NetPolCalls, NetPol

\* The thread is idle, or removes a policy.
LEMMA IdleIsNetPol ==
    /\ Idle \in NetPol /\ Idle.pc = "idle" /\ Idle.policies = {} /\ Idle.left = {} /\ Idle.retry = {}
    /\ \A p \in Policies, b \in BOOLEAN :
          [Idle EXCEPT !.pc = "unrule", !.now = p, !.readd = b] \in NetPol
  BY DEF Idle, NetPol, Calling, Removing

\* The thread becomes idle.
LEMMA BecomesIdle ==
    ASSUME installed' \subseteq Policies, queue' \subseteq Policies, removeFailed' \in BOOLEAN, np' = Idle
    PROVE  QueueInv' /\ np'.pc \notin Calling
<1>1. np' \in NetPol /\ np'.pc = "idle" /\ np'.policies = {} /\ np'.left = {} /\ np'.retry = {}
  BY IdleIsNetPol
<1> QED BY <1>1 DEF QueueInv, Removing, Calling

\* The thread starts to add policies P, the ones of R to follow.
LEMMA AddingIsRight ==
    ASSUME DInv, apply["netpol"] # "running", UNCHANGED <<restore, removeFailed>>,
           installed' \subseteq Policies, queue' \subseteq Policies,
           NEW batch \in BOOLEAN, NEW P, NEW R, P \cup R \subseteq queue', batch \/ P \cap R = {},
           Adding(P, batch, R)
    PROVE  DInv'
<1> DEFINE pc == IF removeFailed THEN "precaution" ELSE "references"
           call == IF removeFailed THEN "called" ELSE "no"
<1>0. removeFailed \in BOOLEAN /\ CallInv
  BY DEF DInv, QueueInv
<1>1. np' = [Idle EXCEPT !.pc = pc, !.policies = P, !.left = P, !.batch = batch, !.retry = R]
  BY DEF Adding
<1>2. /\ np'.pc = pc /\ np'.policies = P /\ np'.left = P /\ np'.retry = R /\ np'.batch = batch
      /\ np'.now = NoPolicy /\ np'.readd = FALSE
  BY <1>1 DEF Idle
<1>3. np' \in NetPol
  BY <1>1 DEF Idle, NetPol, Calling
<1>4. QueueInv'
  BY <1>0, <1>2, <1>3 DEF QueueInv, Removing
<1>5. apply' = [apply EXCEPT !["netpol"] = call] /\ call \in {"no", "called"}
  BY DEF Adding
<1>6. call # "no" <=> np'.pc \in Calling
  BY <1>2 DEF Calling
<1>7. CallInv' /\ NetPolCalls'
  BY <1>0, <1>5, <1>6, NetPolGoesOn
<1> QED BY <1>4, <1>7 DEF DInv

\* The next policy is tried by itself, or none is left.
LEMMA AddNextIsRight ==
    ASSUME DInv, apply["netpol"] # "running", UNCHANGED <<restore, removeFailed>>,
           installed' \subseteq Policies, queue' \subseteq Policies, np.retry \subseteq queue', AddNext
    PROVE  DInv'
<1>1. ASSUME NEW p \in np.retry, Adding({p}, FALSE, np.retry \ {p}) PROVE DInv'
  <2>1. {p} \cup (np.retry \ {p}) \subseteq queue' /\ {p} \cap (np.retry \ {p}) = {}
    BY <1>1
  <2> QED BY <1>1, <2>1, AddingIsRight
<1>2. CASE np' = Idle /\ ApplyTaken
  <2>1. QueueInv' /\ np'.pc \notin Calling
    BY <1>2, BecomesIdle DEF DInv, QueueInv
  <2>2. CallInv' /\ NetPolCalls'
    <3>1. apply' = [apply EXCEPT !["netpol"] = "no"] /\ CallInv
      BY <1>2 DEF ApplyTaken, DInv
    <3> QED BY <2>1, <3>1, NetPolGoesOn
  <2> QED BY <2>1, <2>2 DEF DInv
<1> QED BY <1>1, <1>2 DEF AddNext

-----------------------------------------------------------------------------
(* The steps of the policy thread *)

\* AddPolicy, RemovePolicy and UpdatePolicy.
LEMMA PolicyEventsKeepDInv ==
    ASSUME DInv, NEW p \in Policies, AddPolicy(p) \/ RemovePolicy(p) \/ UpdatePolicy(p)
    PROVE  DInv'
<1> USE NetPolFacts
<1>0. UNCHANGED <<restore, installed, removeFailed, apply>> /\ np.pc = "idle" /\ CallInv
  BY DEF AddPolicy, RemovePolicy, UpdatePolicy, nvars, DInv
<1>1. CallInv'
  BY <1>0, CallsStay DEF CallInv
<1>2. CASE AddPolicy(p)
  <2>1. UNCHANGED np /\ queue' = queue \cup {p}
    BY <1>2 DEF AddPolicy
  <2> QED BY <1>0, <1>1, <2>1 DEF DInv, QueueInv, NetPolCalls
<1>3. CASE np' = np /\ RemovePolicy(p)
  <2>1. queue' = queue \ {p}
    BY <1>3 DEF RemovePolicy
  <2>2. np = Idle
    BY <1>0 DEF DInv, QueueInv
  <2>3. QueueInv'
    BY <1>0, <1>3, <2>1, <2>2, BecomesIdle
  <2> QED BY <1>0, <1>1, <1>3, <2>3 DEF DInv, NetPolCalls
<1>4. CASE \E b \in BOOLEAN : np' = [Idle EXCEPT !.pc = "unrule", !.now = p, !.readd = b] /\ queue' = queue \ {p}
  <2>1. PICK b \in BOOLEAN : np' = [Idle EXCEPT !.pc = "unrule", !.now = p, !.readd = b]
    BY <1>4
  <2>2. np' \in NetPol /\ np'.pc = "unrule" /\ np'.policies = {} /\ np'.left = {} /\ np'.retry = {} /\ np'.now = p
    BY <2>1, IdleIsNetPol DEF Idle
  <2>3. QueueInv'
    BY <1>0, <1>4, <2>2 DEF QueueInv
  <2>4. NetPolCalls'
    BY <1>0, <2>2 DEF NetPolCalls, Calling
  <2> QED BY <1>1, <2>3, <2>4 DEF DInv
<1>5. RemovePolicy(p) => np' = np \/ (np' = [Idle EXCEPT !.pc = "unrule", !.now = p, !.readd = FALSE] /\ queue' = queue \ {p})
  BY DEF RemovePolicy, Idle
<1>6. UpdatePolicy(p) => np' = [Idle EXCEPT !.pc = "unrule", !.now = p, !.readd = TRUE] /\ queue' = queue \ {p}
  BY DEF UpdatePolicy
<1> QED BY <1>2, <1>3, <1>4, <1>5, <1>6

\* A step of the thread that stays at work on the same policies.
LEMMA StaysAtWork ==
    ASSUME DInv, UNCHANGED <<queue, removeFailed>>, installed' \subseteq Policies,
           NEW pc, NEW now \in Policies \cup {NoPolicy}, NEW left \in SUBSET np.left,
           np' = [np EXCEPT !.pc = pc, !.now = now, !.left = left],
           pc \in {"references", "members", "rules"} \cup Calling \cup Removing,
           pc \in Removing => now \in Policies
    PROVE  QueueInv' /\ np'.pc = pc
<1> USE NetPolFacts
<1>1. /\ np' \in NetPol /\ np'.pc = pc /\ np'.now = now /\ np'.left = left
      /\ np'.policies = np.policies /\ np'.retry = np.retry /\ np'.batch = np.batch
  BY DEF NetPol
<1>2. pc # "idle"
  BY DEF Calling, Removing
<1> QED BY <1>1, <1>2 DEF DInv, QueueInv

\* A set operation of the policy thread, between two calls.
LEMMA OperationsKeepDInv ==
    ASSUME DInv, (\E p \in np.left : AddReferences(p)) \/ DeleteReferences
    PROVE  DInv'
<1> USE NetPolFacts
<1>0. UNCHANGED <<restore, installed, queue, removeFailed, apply>> /\ CallInv
  BY DEF AddReferences, DeleteReferences, Change, DInv
<1>1. CallInv'
  BY <1>0, CallsStay DEF CallInv
<1>2. ASSUME NEW p \in np.left, AddReferences(p) PROVE DInv'
  <2>1. np' = [np EXCEPT !.pc = "members", !.now = p, !.left = np.left \ {p}] /\ np.pc = "references"
    BY <1>2 DEF AddReferences
  <2>2. QueueInv' /\ np'.pc = "members"
    BY <1>0, <2>1, StaysAtWork DEF Removing, Calling
  <2> QED BY <1>0, <1>1, <2>1, <2>2 DEF DInv, NetPolCalls, Calling
<1>3. CASE DeleteReferences
  <2>1. np' = [np EXCEPT !.pc = "unmember"] /\ np.pc = "unrefer" /\ np.now \in Policies
    BY <1>3 DEF DeleteReferences, DInv, QueueInv, Removing
  <2>2. np' = [np EXCEPT !.pc = "unmember", !.now = np.now, !.left = np.left]
    BY <2>1 DEF NetPol
  <2>3. QueueInv' /\ np'.pc = "unmember"
    BY <1>0, <2>1, <2>2, StaysAtWork DEF Removing
  <2> QED BY <1>0, <1>1, <2>1, <2>3 DEF DInv, NetPolCalls, Calling
<1> QED BY <1>2, <1>3

\* The thread calls applyDataPlaneNow, or takes its outcome and goes on.
LEMMA CallsKeepDInv ==
    ASSUME DInv, AddMembers \/ DeleteMembers \/ PrecautionDone \/ SetsApplied
    PROVE  DInv'
<1> USE NetPolFacts
<1>0. UNCHANGED <<restore, installed, queue, removeFailed>> /\ CallInv
  BY DEF AddMembers, DeleteMembers, PrecautionDone, SetsApplied, Change, nvars, DInv
<1>1. ASSUME NEW pc, np' = [np EXCEPT !.pc = pc], pc \in {"references", "rules"} \cup Calling,
             pc \in Removing => np.now \in Policies,
             NEW v \in {"no", "called"}, apply' = [apply EXCEPT !["netpol"] = v],
             v # "no" <=> pc \in Calling, apply["netpol"] # "running"
      PROVE  DInv'
  <2>1. np' = [np EXCEPT !.pc = pc, !.now = np.now, !.left = np.left]
    BY <1>1 DEF NetPol
  <2>2. np.now \in Policies \cup {NoPolicy}
    BY DEF NetPol
  <2>3. QueueInv' /\ np'.pc = pc
    BY <1>0, <1>1, <2>1, <2>2, StaysAtWork
  <2>4. CallInv' /\ NetPolCalls'
    BY <1>0, <1>1, <2>3, NetPolGoesOn
  <2> QED BY <2>3, <2>4 DEF DInv
<1>2. CASE AddMembers
  <2>1. np' = [np EXCEPT !.pc = "apply"] /\ apply' = [apply EXCEPT !["netpol"] = "called"] /\ np.pc = "members"
    BY <1>2 DEF AddMembers, CallApply
  <2>2. apply["netpol"] # "running"
    BY <2>1 DEF Calling
  <2> QED BY <1>1, <2>1, <2>2 DEF Calling, Removing
<1>3. CASE DeleteMembers
  <2>1. np' = [np EXCEPT !.pc = "unapply"] /\ apply' = [apply EXCEPT !["netpol"] = "called"] /\ np.pc = "unmember"
    BY <1>3 DEF DeleteMembers, CallApply
  <2>2. apply["netpol"] # "running" /\ np.now \in Policies
    BY <2>1 DEF Calling, DInv, QueueInv, Removing
  <2> QED BY <1>1, <2>1, <2>2 DEF Calling
<1>4. CASE PrecautionDone
  <2>1. np' = [np EXCEPT !.pc = "references"] /\ apply' = [apply EXCEPT !["netpol"] = "no"] /\ apply["netpol"] = "ok"
    BY <1>4 DEF PrecautionDone, ApplyTaken, Applied
  <2> QED BY <1>1, <2>1 DEF Calling, Removing
<1>5. CASE SetsApplied
  <2>1. /\ \E pc \in {"rules", "references"} : np' = [np EXCEPT !.pc = pc]
        /\ apply' = [apply EXCEPT !["netpol"] = "no"] /\ apply["netpol"] = "ok"
    BY <1>5 DEF SetsApplied, ApplyTaken, Applied
  <2> QED BY <1>1, <2>1 DEF Calling, Removing
<1> QED BY <1>2, <1>3, <1>4, <1>5

\* A batch begins, ends or fails.
LEMMA AddsKeepDInv ==
    ASSUME DInv, addPoliciesWithRetry \/ AddRules \/ AddFails
    PROVE  DInv'
<1> USE NetPolFacts
<1>1. CASE addPoliciesWithRetry
  <2>1. /\ UNCHANGED <<restore, installed, queue, removeFailed>> /\ Adding(queue, TRUE, queue)
        /\ apply["netpol"] = "no"
    BY <1>1 DEF addPoliciesWithRetry, nvars, Calling
  <2>2. queue \cup queue \subseteq queue' /\ installed' \subseteq Policies /\ queue' \subseteq Policies
    BY <2>1
  <2> QED BY <2>1, <2>2, AddingIsRight
<1>2. CASE AddRules
  <2>1. /\ UNCHANGED <<restore, removeFailed>> /\ apply["netpol"] = "no" /\ np.pc = "rules"
        /\ installed' = installed \cup np.policies /\ queue' = queue \ np.policies
    BY <1>2 DEF AddRules, nvars, Calling
  <2>2. installed' \subseteq Policies /\ queue' \subseteq Policies
    BY <2>1
  <2>3. CASE np.batch
    <3>1. np' = Idle /\ UNCHANGED apply
      BY <1>2, <2>3 DEF AddRules
    <3>2. QueueInv' /\ np'.pc \notin Calling
      BY <2>1, <2>2, <3>1, BecomesIdle
    <3>3. CallInv'
      BY <2>1, <3>1, CallsStay DEF DInv, CallInv
    <3> QED BY <2>1, <3>1, <3>2, <3>3 DEF DInv, NetPolCalls
  <2>4. CASE ~np.batch
    <3>1. AddNext
      BY <1>2, <2>4 DEF AddRules
    <3>2. np.retry \subseteq queue'
      BY <2>1, <2>4 DEF DInv, QueueInv
    <3> QED BY <2>1, <2>2, <3>1, <3>2, AddNextIsRight
  <2> QED BY <2>3, <2>4
<1>3. CASE AddFails
  <2>1. UNCHANGED <<restore, installed, queue, removeFailed>> /\ AddNext
    BY <1>3 DEF AddFails
  <2>2. apply["netpol"] # "running"
    BY <1>3 DEF AddFails, ApplyFailed, Calling
  <2>3. np.retry \subseteq queue' /\ installed' \subseteq Policies /\ queue' \subseteq Policies
    BY <2>1
  <2> QED BY <2>1, <2>2, <2>3, AddNextIsRight
<1> QED BY <1>1, <1>2, <1>3

\* The removal of a policy.
LEMMA RemovesKeepDInv ==
    ASSUME DInv, RemoveRules \/ Removed \/ RemoveFails
    PROVE  DInv'
<1> USE NetPolFacts
<1>1. CASE RemoveRules
  <2>1. UNCHANGED <<restore, queue, removeFailed, apply>> /\ np.pc = "unrule" /\ np.now \in Policies
    BY <1>1 DEF RemoveRules, DInv, QueueInv, Removing
  <2>2. CallInv'
    BY <2>1, CallsStay DEF DInv, CallInv
  <2>3. CASE installed' = installed \ {np.now} /\ np' = [np EXCEPT !.pc = "unrefer"]
    <3>1. np' = [np EXCEPT !.pc = "unrefer", !.now = np.now, !.left = np.left]
      BY <2>3 DEF NetPol
    <3>2. QueueInv' /\ np'.pc = "unrefer"
      BY <2>1, <2>3, <3>1, StaysAtWork DEF Removing
    <3> QED BY <2>1, <2>2, <3>2 DEF DInv, NetPolCalls, Calling
  <2>4. CASE np' = Idle /\ UNCHANGED installed
    <3>1. QueueInv' /\ np'.pc \notin Calling
      BY <2>1, <2>4, BecomesIdle
    <3> QED BY <2>1, <2>2, <3>1 DEF DInv, NetPolCalls, Calling
  <2> QED BY <1>1, <2>3, <2>4 DEF RemoveRules
<1>2. CASE Removed \/ RemoveFails
  <2>1. UNCHANGED <<restore, installed>> /\ np' = Idle /\ apply' = [apply EXCEPT !["netpol"] = "no"]
    BY <1>2 DEF Removed, RemoveFails, ApplyTaken, nvars
  <2>2. apply["netpol"] # "running" /\ np.now \in Policies
    BY <1>2 DEF Removed, RemoveFails, Applied, ApplyFailed, DInv, QueueInv, Removing
  <2>3. queue' \subseteq Policies /\ removeFailed' \in BOOLEAN
    BY <1>2, <2>2 DEF Removed, RemoveFails
  <2>4. QueueInv' /\ np'.pc \notin Calling
    BY <2>1, <2>3, BecomesIdle
  <2>5. CallInv' /\ NetPolCalls'
    BY <2>1, <2>2, <2>4, NetPolGoesOn DEF DInv
  <2> QED BY <2>4, <2>5 DEF DInv
<1> QED BY <1>1, <1>2

-----------------------------------------------------------------------------
(* The calls of applyDataPlaneNow, and what else the threads do *)

\* The queue does not depend on what a thread's call has come to.
LEMMA QueueStays ==
    ASSUME DInv, UNCHANGED <<installed, queue, np>>, removeFailed' \in BOOLEAN
    PROVE  QueueInv'
  BY DEF DInv, QueueInv

\* A thread in its call stays in it, and so NetPolCalls holds.
LEMMA InItsCall ==
    ASSUME DInv, UNCHANGED np, NEW t \in Threads, NEW v, apply' = [apply EXCEPT ![t] = v],
           t = "netpol" => (v # "no" <=> apply[t] # "no")
    PROVE  NetPolCalls'
<1>1. apply["netpol"] # "no" <=> np.pc \in Calling
  BY DEF DInv, NetPolCalls
<1>2. apply'["netpol"] # "no" <=> apply["netpol"] # "no"
  BY DEF DInv, CallInv
<1> QED BY <1>1, <1>2 DEF NetPolCalls

\* ApplyIPSets takes the manager's lock, or finds nothing to do.
LEMMA ApplyBeginsKeepsDInv ==
    ASSUME DInv, NEW t \in Threads, ApplyBegins(t)
    PROVE  DInv'
<1> USE NetPolFacts
<1>0. apply[t] = "called" /\ UNCHANGED <<installed, queue, removeFailed, np>> /\ CallInv
  BY DEF ApplyBegins, DInv
<1>1. QueueInv'
  BY <1>0, QueueStays
<1>2. CASE ApplyIPSets /\ apply' = [apply EXCEPT ![t] = "running"]
  <2>1. /\ ~restore.on
        /\ restore' = [on |-> TRUE, todo |-> fileCreatorForApply(mgr), done |-> {}, try |-> 1]
    BY <1>2 DEF ApplyIPSets, Unlocked
  <2>2. restore'.on = TRUE /\ RestoreShape(restore')
    BY <2>1 DEF RestoreShape
  <2>3. \A u \in Threads : apply[u] # "running"
    BY <1>0, <2>1 DEF CallInv
  <2>4. apply \in [Threads -> {"no", "called", "running", "applied", "ok", "failed"}]
    BY <1>0 DEF CallInv
  <2>5. /\ Threads' = Threads /\ apply'[t] = "running"
        /\ \A u \in Threads : apply'[u] = "running" => u = t
        /\ apply' \in [Threads -> {"no", "called", "running", "applied", "ok", "failed"}]
    BY <1>2, <2>3, <2>4 DEF Threads
  <2>6. CallInv'
    BY <1>0, <2>2, <2>5 DEF CallInv
  <2>7. NetPolCalls'
    BY <1>0, <1>2, InItsCall
  <2> QED BY <1>1, <2>6, <2>7 DEF DInv
<1>3. CASE UNCHANGED nvars /\ apply' = [apply EXCEPT ![t] = "applied"]
  <2>1. UNCHANGED restore
    BY <1>3 DEF nvars
  <2>2. CallInv'
    BY <1>0, <1>3, <2>1, CallGoesOn
  <2>3. NetPolCalls'
    BY <1>0, <1>3, InItsCall
  <2> QED BY <1>1, <2>2, <2>3 DEF DInv
<1> QED BY <1>2, <1>3 DEF ApplyBegins

\* The restore ends with the call of the thread that ran it, and only its.
LEMMA ApplyEndsKeepsDInv ==
    ASSUME DInv, NEW t \in Threads, ApplyEnds(t)
    PROVE  DInv'
<1> USE NetPolFacts
<1>0. apply[t] = "running" /\ UNCHANGED <<installed, queue, removeFailed, np>> /\ CallInv
  BY DEF ApplyEnds, DInv
<1>1. QueueInv'
  BY <1>0, QueueStays
<1>2. PICK v \in {"applied", "failed"} : apply' = [apply EXCEPT ![t] = v]
  BY DEF ApplyEnds
<1>3. restore' = NoRestore
  BY DEF ApplyEnds, ApplySucceeds, ApplyFails
<1>4. restore'.on = FALSE /\ RestoreShape(restore')
  BY <1>3 DEF NoRestore, RestoreShape
<1>5. \A u \in Threads : apply[u] = "running" => u = t
  BY <1>0 DEF CallInv
<1>6. apply \in [Threads -> {"no", "called", "running", "applied", "ok", "failed"}]
  BY <1>0 DEF CallInv
<1>7. /\ Threads' = Threads /\ \A u \in Threads : apply'[u] # "running"
      /\ apply' \in [Threads -> {"no", "called", "running", "applied", "ok", "failed"}]
  BY <1>2, <1>5, <1>6 DEF Threads
<1>8. CallInv'
  BY <1>0, <1>4, <1>7 DEF CallInv
<1>9. NetPolCalls'
  BY <1>0, <1>2, InItsCall
<1> QED BY <1>1, <1>8, <1>9 DEF DInv

\* With the lock given back the flag of a failed removal is reset.
LEMMA FlagResetKeepsDInv ==
    ASSUME DInv, NEW t \in Threads, setRemovePolicyFailureFalse(t)
    PROVE  DInv'
<1>0. /\ apply[t] = "applied" /\ apply' = [apply EXCEPT ![t] = "ok"] /\ removeFailed' = FALSE
      /\ UNCHANGED <<installed, queue, np, restore>> /\ CallInv
  BY DEF setRemovePolicyFailureFalse, nvars, DInv
<1>1. QueueInv'
  BY <1>0, QueueStays
<1>2. CallInv'
  BY <1>0, CallGoesOn
<1>3. NetPolCalls'
  BY <1>0, InItsCall
<1> QED BY <1>1, <1>2, <1>3 DEF DInv

\* A pod event calls, or takes the outcome: the policy thread sees nothing.
LEMMA PodEventsKeepDInv ==
    ASSUME DInv, ApplyDataPlane
    PROVE  DInv'
<1>0. /\ "pods" \in Threads /\ apply["pods"] # "running" /\ CallInv
      /\ UNCHANGED <<installed, queue, removeFailed, np, restore>>
  BY DEF ApplyDataPlane, nvars, DInv
<1>1. PICK v \in {"no", "called"} : apply' = [apply EXCEPT !["pods"] = v]
  BY DEF ApplyDataPlane
<1>2. QueueInv'
  BY <1>0, QueueStays, NetPolFacts
<1>3. CallInv'
  BY <1>0, <1>1, CallGoesOn
<1>4. NetPolCalls'
  BY <1>0, <1>1, InItsCall
<1> QED BY <1>2, <1>3, <1>4 DEF DInv

\* Whatever leaves the threads alone and the lock with its holder.
LEMMA ThreadsStay ==
    ASSUME DInv, UNCHANGED dpvars, RestoreShape(restore'), restore'.on = restore.on
    PROVE  DInv'
<1>0. UNCHANGED <<installed, queue, removeFailed, np, apply>> /\ CallInv
  BY DEF dpvars, DInv
<1>1. QueueInv'
  BY <1>0, QueueStays, NetPolFacts
<1>2. CallInv'
  BY <1>0, CallsStay
<1> QED BY <1>0, <1>1, <1>2 DEF DInv, NetPolCalls

\* A line of the restore file runs, is skipped, or the file is run again.
LEMMA RestoreRunsKeepsDInv ==
    ASSUME DInv, RestoreRuns
    PROVE  DInv'
<1>1. UNCHANGED dpvars /\ RestoreShape(restore)
  BY DEF RestoreRuns, DInv, CallInv
<1>2. \E todo, done, try :
         restore' = [restore EXCEPT !.todo = todo, !.done = done, !.try = try]
  <2>1. CASE Rerun
    BY <1>1, <2>1 DEF Rerun, RestoreShape
  <2>2. ASSUME NEW l, LineRuns(l)
        PROVE  restore' = [restore EXCEPT !.todo = restore.todo \ {l},
                                          !.done = restore.done \cup {l}, !.try = restore.try]
    BY <1>1, <2>2 DEF LineRuns, RestoreShape
  <2>3. ASSUME NEW l, LineSkipped(l)
        PROVE  restore' = [restore EXCEPT !.todo = restore.todo \ ({l} \cup Aborted(l)),
                                          !.done = {}, !.try = restore.try + 1]
    BY <1>1, <2>3 DEF LineSkipped, RestoreShape
  <2> QED BY <2>1, <2>2, <2>3 DEF RestoreRuns
<1>3. PICK todo, done, try :
         restore' = [restore EXCEPT !.todo = todo, !.done = done, !.try = try]
  BY <1>2
<1>4. restore'.on = restore.on /\ RestoreShape(restore')
  BY <1>1, <1>3 DEF RestoreShape
<1> QED BY <1>1, <1>4, ThreadsStay

\* Everything starts over: after a panic, and at first.
LEMMA StartsOver ==
    ASSUME installed = {}, queue = {}, removeFailed = FALSE, np = Idle, restore = NoRestore,
           NEW T, "netpol" \in T, apply = [t \in T |-> "no"]
    PROVE  DInv
<1>1. np \in NetPol /\ np.pc = "idle" /\ np.policies = {} /\ np.left = {} /\ np.retry = {}
  BY IdleIsNetPol
<1>2. QueueInv
  BY <1>1 DEF QueueInv, Removing
<1>3. Threads = T
  BY DEF Threads
<1>4. restore.on = FALSE /\ RestoreShape(restore)
  BY DEF NoRestore, RestoreShape
<1>5. CallInv
  BY <1>3, <1>4 DEF CallInv
<1>6. NetPolCalls
  BY <1>1 DEF NetPolCalls, Calling
<1> QED BY <1>2, <1>5, <1>6 DEF DInv

-----------------------------------------------------------------------------
(* DInv is inductive *)

\* At first no thread is in a call and nothing is queued.
LEMMA DInitHolds == DInit => DInv
<1> SUFFICES ASSUME DInit PROVE DInv
  OBVIOUS
<1>1. PICK threads \in Workloads : apply = [t \in threads |-> "no"]
  BY DEF DInit
<1>2. "netpol" \in threads
  BY DataPlaneAssumption
<1> QED BY <1>1, <1>2, StartsOver DEF DInit, NInit

\* After the panic of ApplyIPSets the process starts over.
LEMMA PanicKeepsDInv ==
    ASSUME DInv, ProcessPanics
    PROVE  DInv'
<1>1. /\ installed' = {} /\ queue' = {} /\ removeFailed' = FALSE /\ np' = Idle
      /\ apply' = [t \in Threads |-> "no"] /\ restore' = NoRestore
  BY DEF ProcessPanics, Panic
<1>2. "netpol" \in Threads
  BY NetPolFacts
<1>4. QueueInv' /\ np'.pc \notin Calling
  BY <1>1, BecomesIdle
<1>5. restore'.on = FALSE /\ RestoreShape(restore')
  BY <1>1 DEF NoRestore, RestoreShape
<1>6. Threads' = Threads
  BY <1>1 DEF Threads
<1>7. CallInv'
  BY <1>1, <1>2, <1>5, <1>6 DEF CallInv
<1>8. NetPolCalls'
  BY <1>1, <1>2, <1>4 DEF NetPolCalls
<1> QED BY <1>4, <1>7, <1>8 DEF DInv

\* Every step keeps it.
LEMMA NextKeepsDInv == DInv /\ [DNext]_dvars => DInv'
<1> SUFFICES ASSUME DInv, [DNext]_dvars PROVE DInv'
  OBVIOUS
<1>0. RestoreShape(restore)
  BY DEF DInv, CallInv
<1>1. ASSUME NEW p \in Policies, AddPolicy(p) \/ RemovePolicy(p) \/ UpdatePolicy(p) PROVE DInv'
  BY <1>1, PolicyEventsKeepDInv
<1>2. CASE NetPolSteps
  BY <1>2, AddsKeepDInv, CallsKeepDInv, OperationsKeepDInv, RemovesKeepDInv DEF NetPolSteps
<1>3. CASE Applying
  BY <1>3, ApplyBeginsKeepsDInv, ApplyEndsKeepsDInv, FlagResetKeepsDInv, RestoreRunsKeepsDInv,
     PanicKeepsDInv DEF Applying
<1>4. CASE ApplyDataPlane
  BY <1>4, PodEventsKeepDInv
<1>5. CASE PeriodicReconcile
  <2>1. UNCHANGED dpvars /\ UNCHANGED restore
    BY <1>5 DEF PeriodicReconcile, Reconcile, Change
  <2> QED BY <1>0, <2>1, ThreadsStay
<1>6. CASE UNCHANGED dvars
  <2>1. UNCHANGED dpvars /\ UNCHANGED restore
    BY <1>6 DEF dvars, nvars
  <2> QED BY <1>0, <2>1, ThreadsStay
<1> QED BY <1>1, <1>2, <1>3, <1>4, <1>5, <1>6 DEF DNext

\* No two threads run a restore.
LEMMA OneRestores ==
    ASSUME DInv
    PROVE  Cardinality({t \in Threads : apply[t] = "running"}) <= 1
<1> DEFINE R == {t \in Threads : apply[t] = "running"}
<1>1. CASE R = {}
  BY <1>1, FS_EmptySet
<1>2. ASSUME NEW t \in R PROVE Cardinality(R) <= 1
  <2>1. R = {t}
    BY <1>2 DEF DInv, CallInv
  <2>2. Cardinality({t}) = 1
    BY FS_Singleton, Zenon
  <2> QED BY <2>1, <2>2
<1> QED BY <1>1, <1>2

\* What the policy thread works on is queued, each thread is in
\* applyDataPlaneNow only where it waits for it, and the lock of the IP set
\* manager is held for a restore by exactly one thread, whatever the events,
\* failures and panics (dataplane.go: netPolQueue, applyDataPlaneNow).
THEOREM DataPlaneTypeCorrect == DSpec => []DTypeOK
<1>1. DInv => DTypeOK
  BY OneRestores DEF DInv, QueueInv, CallInv, NetPolCalls, Calling, DTypeOK
<1> QED BY <1>1, DInitHolds, NextKeepsDInv, PTL DEF DSpec

-----------------------------------------------------------------------------
(* The sets of the policies *)

\* A cached set that a policy refers to.
Held(m, s) == s \in DOMAIN m.setMap /\ m.setMap[s].refs # {}

\* What the policy thread caches: hash sets in no list, with the policies that
\* refer to them and their CIDR blocks.
PlainAt(m, s) ==
    s \in DOMAIN m.setMap =>
        /\ s \in HashSets
        /\ m.setMap[s].memberIPSets = {}
        /\ m.setMap[s].ipsetReferCount = 0 /\ m.setMap[s].kernelReferCount = 0
        /\ \A p \in m.setMap[s].refs : p \in Policies /\ s \in SetsOf[p]
        /\ \A x \in DOMAIN m.setMap[s].ipPodKey :
              x \in Blocks[s] /\ m.setMap[s].ipPodKey[x] = NoKey

\* Nothing of a set that a policy refers to is to be taken from the kernel.
KeptAt(m, s) ==
    /\ InOneMap(m, s)
    /\ s \in toAddOrUpdate(m) => s \in DOMAIN m.setMap /\ (m.mode = "all" \/ Held(m, s))
    /\ Held(m, s) => s \notin DOMAIN m.toDestroy /\ memberDiff(m, s).del = {}

\* What a set that a policy refers to lacks in the kernel k is in the dirty cache.
PendingAt(m, k, s) ==
    Held(m, s) =>
        /\ s \in DOMAIN k \/ s \in toAddOrUpdate(m)
        /\ \A x \in DOMAIN m.setMap[s].ipPodKey :
              \/ s \in DOMAIN k /\ x \in k[s]
              \/ s \in toAddOrUpdate(m) /\ x \in memberDiff(m, s).add

FitsAt(m, k, s) == PlainAt(m, s) /\ KeptAt(m, s) /\ PendingAt(m, k, s)

Fits(m, k) == m \in Manager /\ \A s \in Sets : FitsAt(m, k, s)

\* r is m but for what it has of s.
Touches(m, r, s) ==
    /\ r \in Manager /\ r.mode = m.mode
    /\ \A t \in Sets \ {s} : SameAt(m.setMap, r.setMap, t) /\ SameDirty(m, r, t)

\* The sets an operation leaves alone stay as they should be.
LEMMA OthersFit ==
    ASSUME NEW m, NEW r, NEW k, NEW s, Fits(m, k), Touches(m, r, s), FitsAt(r, k, s)
    PROVE  Fits(r, k)
<1> SUFFICES ASSUME NEW t \in Sets \ {s} PROVE FitsAt(r, k, t)
  BY DEF Fits, Touches
<1>1. FitsAt(m, k, t) /\ SameAt(m.setMap, r.setMap, t) /\ SameDirty(m, r, t) /\ r.mode = m.mode
  BY DEF Fits, Touches
<1>2. memberDiff(r, t) = memberDiff(m, t) /\ (t \in toAddOrUpdate(r) <=> t \in toAddOrUpdate(m))
  BY <1>1 DEF SameDirty, SameAt, memberDiff, toAddOrUpdate
<1>3. Held(r, t) <=> Held(m, t)
  BY <1>1 DEF SameAt, Held
<1>4. PlainAt(r, t)
  BY <1>1 DEF FitsAt, PlainAt, SameAt
<1>5. KeptAt(r, t)
  BY <1>1, <1>2, <1>3 DEF FitsAt, KeptAt, SameAt, SameDirty, InOneMap
<1>6. PendingAt(r, k, t)
  BY <1>1, <1>2, <1>3 DEF FitsAt, PendingAt, SameAt, Held
<1> QED BY <1>4, <1>5, <1>6 DEF FitsAt

\* A cached set changes, then what the dirty cache has of it.
LEMMA SetThenDirty ==
    ASSUME NEW m \in Manager, NEW n, NEW r, NEW s, NEW v, HasSet(n, m, s, v), DirtyChange(n, r, s)
    PROVE  /\ Touches(m, r, s) /\ IsWith(r.setMap, m.setMap, s, v) /\ SameDirty(m, n, s)
  BY DEF HasSet, DirtyChange, Touches, IsWith, SameDirty, SameAt

\* What the dirty cache has of a set changes, then the cached set.
LEMMA DirtyThenSet ==
    ASSUME NEW m \in Manager, NEW n, NEW r, NEW s, NEW v, DirtyChange(m, n, s), HasSet(r, n, s, v)
    PROVE  /\ Touches(m, r, s) /\ IsWith(r.setMap, m.setMap, s, v) /\ SameDirty(n, r, s)
  BY DEF HasSet, DirtyChange, Touches, IsWith, SameDirty, SameAt

\* An operation that leaves the dirty cache alone.
LEMMA NoDirtyChange ==
    ASSUME NEW m \in Manager, NEW s
    PROVE  DirtyChange(m, m, s)
  BY DEF DirtyChange, SameDirty, SameAt

\* The members of a set that has none are counted up.
LEMMA NoneCountedUp ==
    ASSUME NEW b
    PROVE  FoldSet(LAMBDA x, n : incKernelReferCountAndModifyCache(n, x), b, {}) = b
<1> DEFINE E(f) == [s \in SUBSET {} |->
                      IF s = {} THEN b ELSE incKernelReferCountAndModifyCache(f[s \ {Ch(s)}], Ch(s))]
           it == CHOOSE f : f = E(f)
           none == [s \in SUBSET {} |-> b]
<1>1. FoldSet(LAMBDA x, n : incKernelReferCountAndModifyCache(n, x), b, {}) = it[{}]
  BY DEF FoldSet, MapThenFoldSet, Ch
<1>2. none = E(none)
  OBVIOUS
<1>3. it = E(it)
  <2> HIDE DEF E, none
  <2> QED BY <1>2
<1> HIDE DEF it
<1>4. it[{}] = b
  BY <1>3
<1> QED BY <1>1, <1>4

\* The members of a set that has none are counted down.
LEMMA NoneCountedDown ==
    ASSUME NEW b
    PROVE  FoldSet(LAMBDA x, n : decKernelReferCountAndModifyCache(n, x), b, {}) = b
<1> DEFINE E(f) == [s \in SUBSET {} |->
                      IF s = {} THEN b ELSE decKernelReferCountAndModifyCache(f[s \ {Ch(s)}], Ch(s))]
           it == CHOOSE f : f = E(f)
           none == [s \in SUBSET {} |-> b]
<1>1. FoldSet(LAMBDA x, n : decKernelReferCountAndModifyCache(n, x), b, {}) = it[{}]
  BY DEF FoldSet, MapThenFoldSet, Ch
<1>2. none = E(none)
  OBVIOUS
<1>3. it = E(it)
  <2> HIDE DEF E, none
  <2> QED BY <1>2
<1> HIDE DEF it
<1>4. it[{}] = b
  BY <1>3
<1> QED BY <1>1, <1>4

-----------------------------------------------------------------------------
(* What the policy thread does to one set *)

HeldAll(m) == \A s \in DOMAIN m.setMap : m.setMap[s].refs # {}

NoneToDestroy(m) == DOMAIN m.toDestroy = {}

\* With nothing to destroy before and nothing to destroy of s, there is nothing to
\* destroy.
LEMMA StillNoneToDestroy ==
    ASSUME NEW m, NEW r, NEW s, Touches(m, r, s), NoneToDestroy(m), s \notin DOMAIN r.toDestroy
    PROVE  NoneToDestroy(r)
<1>1. \A t \in DOMAIN r.toDestroy : t \in Sets
  BY DiffFacts DEF Touches
<1> QED BY <1>1 DEF Touches, SameDirty, SameAt, NoneToDestroy

\* The policy p refers to s in r, as others may in m.
Referring(m, r, k, s, p) ==
    /\ Fits(r, k) /\ Touches(m, r, s) /\ HeldAll(r) /\ NoneToDestroy(r)
    /\ s \in DOMAIN r.setMap /\ p \in r.setMap[s].refs
    /\ s \in DOMAIN m.setMap => /\ m.setMap[s].refs \in SUBSET r.setMap[s].refs
                                /\ r.setMap[s].ipPodKey = m.setMap[s].ipPodKey

\* A set the policy is the first to refer to is to be created.
LEMMA FirstReference ==
    ASSUME NEW m, NEW k, Fits(m, k), HeldAll(m), NoneToDestroy(m),
           NEW p \in Policies, NEW s \in SetsOf[p], s \in HashSets, s \notin DOMAIN m.setMap,
           NEW r, Touches(m, r, s), NEW v, v = [NewIPSet EXCEPT !.refs = {p}],
           IsWith(r.setMap, m.setMap, s, v), Creates(r, s, diffOnCreate({}))
    PROVE  Referring(m, r, k, s, p)
<1>1. /\ v.refs = {p} /\ v.memberIPSets = {} /\ v.ipPodKey = << >>
      /\ v.ipsetReferCount = 0 /\ v.kernelReferCount = 0
  BY NewIPSetFacts DEF NewIPSet
<1>2. DOMAIN v.ipPodKey = {}
  BY <1>1, EmptyMap
<1>3. r.setMap[s] = v /\ DOMAIN r.setMap = DOMAIN m.setMap \cup {s}
  BY DEF IsWith
<1>4. s \in toAddOrUpdate(r) /\ s \notin DOMAIN r.toDestroy /\ memberDiff(r, s).del = {} /\ InOneMap(r, s)
  BY DEF Creates, toAddOrUpdate, memberDiff, diffOnCreate, InOneMap
<1>5. PlainAt(r, s)
  BY <1>1, <1>2, <1>3 DEF PlainAt
<1>6. KeptAt(r, s) /\ PendingAt(r, k, s)
  BY <1>1, <1>2, <1>3, <1>4 DEF KeptAt, PendingAt, Held
<1>7. Fits(r, k)
  BY <1>5, <1>6, OthersFit DEF FitsAt
<1>8. HeldAll(r)
  BY <1>1, <1>3 DEF HeldAll, IsWith
<1>9. NoneToDestroy(r)
  BY <1>4, StillNoneToDestroy
<1> QED BY <1>1, <1>3, <1>7, <1>8, <1>9 DEF Referring

\* AddReference, for a set of the policy.
LEMMA ReferenceAdded ==
    ASSUME NEW m, NEW k, Fits(m, k), HeldAll(m), NoneToDestroy(m),
           NEW p \in Policies, NEW s \in SetsOf[p]
    PROVE  Referring(m, AddReferenceTo(m, s, p), k, s, p)
<1> DEFINE g == createAndGetIPSet(m, s)
           n == [g EXCEPT !.setMap[s].refs = g.setMap[s].refs \cup {p}]
           r == AddReferenceTo(m, s, p)
<1>1. s \in HashSets /\ s \in Sets /\ {p} \in SUBSET References /\ m \in Manager /\ FitsAt(m, k, s)
  BY DataPlaneAssumption DEF Sets, Fits
<1>2. r = IF shouldBeInKernel(g, s) THEN n
          ELSE FoldSet(LAMBDA x, w : incKernelReferCountAndModifyCache(w, x),
                       dirtyCreate(n, s), g.setMap[s].memberIPSets)
  BY DEF AddReferenceTo
<1>3. CASE s \in DOMAIN m.setMap
  <2> DEFINE R == m.setMap[s].refs \cup {p}
             v == [m.setMap[s] EXCEPT !.refs = R]
  <2>1. g = m
    BY <1>3 DEF createAndGetIPSet
  <2>2. shouldBeInKernel(m, s)
    BY <1>3 DEF HeldAll, shouldBeInKernel
  <2>3. r = [m EXCEPT !.setMap[s].refs = R]
    BY <1>2, <2>1, <2>2
  <2>4. R \in SUBSET References /\ m.setMap[s] \in SetRecord
    BY <1>1, <1>3, SetFacts
  <2> HIDE DEF r
  <2>5. HasSet(r, m, s, v)
    <3> HIDE DEF R
    <3> QED BY <1>1, <1>3, <2>3, <2>4, RefsReplaced
  <2>6. /\ v.refs = R /\ v.memberIPSets = m.setMap[s].memberIPSets
        /\ v.ipPodKey = m.setMap[s].ipPodKey /\ v.ipsetReferCount = m.setMap[s].ipsetReferCount
        /\ v.kernelReferCount = m.setMap[s].kernelReferCount
    <3> HIDE DEF R
    <3> QED BY <2>4 DEF SetRecord
  <2> HIDE DEF v
  <2>7. DirtyChange(r, r, s)
    BY <2>5, NoDirtyChange DEF HasSet
  <2>8. Touches(m, r, s) /\ IsWith(r.setMap, m.setMap, s, v) /\ SameDirty(m, r, s)
    BY <1>1, <2>5, <2>7, SetThenDirty
  <2>9. r.setMap[s] = v /\ DOMAIN r.setMap = DOMAIN m.setMap /\ r.mode = m.mode
    BY <1>3, <2>8 DEF IsWith, Touches
  <2>10. Held(m, s) /\ Held(r, s)
    BY <1>3, <2>6, <2>9 DEF Held, HeldAll
  <2>11. memberDiff(r, s) = memberDiff(m, s) /\ (s \in toAddOrUpdate(r) <=> s \in toAddOrUpdate(m))
    BY <2>8 DEF SameDirty, SameAt, memberDiff, toAddOrUpdate
  <2>12. PlainAt(r, s)
    BY <1>1, <1>3, <2>6, <2>9 DEF FitsAt, PlainAt
  <2>13. KeptAt(r, s)
    BY <1>1, <1>3, <2>8, <2>9, <2>10, <2>11 DEF FitsAt, KeptAt, SameDirty, SameAt, InOneMap
  <2>14. PendingAt(r, k, s)
    BY <1>1, <2>6, <2>9, <2>10, <2>11 DEF FitsAt, PendingAt
  <2>15. Fits(r, k)
    BY <2>8, <2>12, <2>13, <2>14, OthersFit DEF FitsAt
  <2>16. HeldAll(r)
    BY <2>6, <2>8, <2>9 DEF HeldAll, IsWith
  <2>17. NoneToDestroy(r)
    BY <2>8, <2>10, <2>13, StillNoneToDestroy DEF KeptAt
  <2>18. Referring(m, r, k, s, p)
    BY <1>3, <2>6, <2>8, <2>9, <2>15, <2>16, <2>17 DEF Referring
  <2> QED BY <2>18 DEF r
<1>4. CASE s \notin DOMAIN m.setMap
  <2> DEFINE new == [m EXCEPT !.setMap = Extended(m.setMap, s, NewIPSet)]
             v == [NewIPSet EXCEPT !.refs = {p}]
  <2>1. HasSet(new, m, s, NewIPSet)
    <3> DEFINE f == Extended(m.setMap, s, NewIPSet)
    <3>1. f \in Maps(Sets, SetRecord) /\ IsWith(f, m.setMap, s, NewIPSet)
      BY <1>1, ManagerFacts, NewIPSetFacts, ExtendedFacts
    <3> HIDE DEF f
    <3>2. HasSet([m EXCEPT !.setMap = f], m, s, NewIPSet)
      BY <1>1, <3>1, SetMapFacts
    <3> QED BY <3>2 DEF f
  <2>2. g = IF m.mode = "all" THEN dirtyCreate(new, s) ELSE new
    BY <1>4 DEF createAndGetIPSet
  <2> HIDE DEF new, g, r
  <2>3. /\ new \in Manager /\ s \in DOMAIN new.setMap /\ new.setMap[s] = NewIPSet /\ new.mode = m.mode
        /\ new.toCreate = m.toCreate /\ new.toUpdate = m.toUpdate /\ new.toDestroy = m.toDestroy
    BY <2>1 DEF HasSet, IsWith
  <2>4. s \notin Dirty(m)
    BY <1>1, <1>4 DEF FitsAt, KeptAt, Dirty, NoneToDestroy
  <2>5. s \notin Dirty(new)
    BY <2>3, <2>4 DEF Dirty, toAddOrUpdate
  <2>6. DOMAIN << >> = {}
    BY EmptyMap
  <2>7. ASSUME NEW w \in Manager, s \in DOMAIN w.setMap, w.setMap[s] = NewIPSet
        PROVE  HasSet([w EXCEPT !.setMap[s].refs = w.setMap[s].refs \cup {p}], w, s, v)
    <3>1. w.setMap[s].refs \cup {p} = {p}
      BY <2>7, NewIPSetFacts
    <3>2. HasSet([w EXCEPT !.setMap[s].refs = {p}], w, s, [w.setMap[s] EXCEPT !.refs = {p}])
      BY <1>1, <2>7, RefsReplaced
    <3> QED BY <2>7, <3>1, <3>2
  <2>8. v.ipPodKey = << >>
    BY DEF NewIPSet
  <2>9. Touches(m, r, s) /\ IsWith(r.setMap, m.setMap, s, v) /\ Creates(r, s, diffOnCreate({}))
    <3>1. CASE m.mode = "all"
      <4>1. Members(new, s) = {}
        BY <1>1, <2>3, <2>6, NewIPSetFacts DEF Members
      <4>2. g = dirtyCreate(new, s) /\ DirtyChange(new, g, s) /\ Creates(g, s, diffOnCreate({}))
        BY <2>2, <2>3, <2>5, <3>1, <4>1, DirtyCreateFacts
      <4>3. Touches(m, g, s) /\ IsWith(g.setMap, m.setMap, s, NewIPSet)
        BY <1>1, <2>1, <4>2, SetThenDirty
      <4>4. g \in Manager /\ s \in DOMAIN g.setMap /\ g.setMap[s] = NewIPSet /\ g.mode = "all"
        BY <3>1, <4>3 DEF Touches, IsWith
      <4>5. r = n
        BY <1>2, <4>4 DEF shouldBeInKernel
      <4>6. HasSet(r, g, s, v)
        BY <2>7, <4>4, <4>5
      <4> QED BY <1>4, <4>2, <4>3, <4>6 DEF HasSet, IsWith, Touches, SameAt, SameDirty, Creates
    <3>2. CASE m.mode # "all"
      <4>1. g = new
        BY <2>2, <3>2
      <4>2. ~shouldBeInKernel(g, s)
        BY <2>3, <3>2, <4>1, NewIPSetFacts DEF shouldBeInKernel
      <4>3. g.setMap[s].memberIPSets = {}
        BY <2>3, <4>1, NewIPSetFacts
      <4>4. r = FoldSet(LAMBDA x, w : incKernelReferCountAndModifyCache(w, x), dirtyCreate(n, s), {})
        BY <1>2, <4>2, <4>3
      <4> HIDE DEF n
      <4>5. r = dirtyCreate(n, s)
        BY <4>4, NoneCountedUp
      <4>6. HasSet(n, new, s, v)
        BY <2>3, <2>7, <4>1 DEF n
      <4>7. /\ n \in Manager /\ s \in DOMAIN n.setMap /\ n.setMap[s] = v
            /\ n.toCreate = new.toCreate /\ n.toUpdate = new.toUpdate /\ n.toDestroy = new.toDestroy
        BY <4>6 DEF HasSet, IsWith
      <4>8. s \notin Dirty(n)
        BY <2>5, <4>7 DEF Dirty, toAddOrUpdate
      <4>9. Members(n, s) = {}
        BY <1>1, <2>6, <2>8, <4>7 DEF Members
      <4>10. DirtyChange(n, r, s) /\ Creates(r, s, diffOnCreate({}))
        BY <4>5, <4>7, <4>8, <4>9, DirtyCreateFacts
      <4>11. Touches(new, r, s) /\ IsWith(r.setMap, new.setMap, s, v)
        BY <2>3, <4>6, <4>10, SetThenDirty
      <4> HIDE DEF v
      <4> QED BY <1>4, <2>1, <4>10, <4>11 DEF HasSet, IsWith, Touches, SameAt, SameDirty
    <3> QED BY <3>1, <3>2
  <2>10. Referring(m, r, k, s, p)
    <3> HIDE DEF v
    <3>1. v = [NewIPSet EXCEPT !.refs = {p}]
      BY DEF v
    <3> QED BY <1>1, <1>4, <2>9, <3>1, FirstReference
  <2> QED BY <2>10 DEF r
<1> QED BY <1>3, <1>4

\* In r the set s of m has the block x.
BlockIn(m, r, k, s, x) ==
    /\ Fits(r, k) /\ Touches(m, r, s) /\ NoneToDestroy(r)
    /\ s \in DOMAIN m.setMap /\ s \in DOMAIN r.setMap /\ r.setMap[s].refs = m.setMap[s].refs
    /\ DOMAIN r.setMap[s].ipPodKey = DOMAIN m.setMap[s].ipPodKey \cup {x}

\* AddToSets, for a block of a set that a policy refers to.
LEMMA BlockAdded ==
    ASSUME NEW m, NEW k, Fits(m, k), NoneToDestroy(m), NEW s, Held(m, s), NEW x \in Blocks[s]
    PROVE  BlockIn(m, AddToSet(m, s, x, NoKey), k, s, x)
<1> DEFINE b == IF x \in Members(m, s) THEN m ELSE KernelMemberAdd(m, s, x)
           e == Extended(b.setMap[s].ipPodKey, x, NoKey)
           r == AddToSet(m, s, x, NoKey)
<1>1. s \in DOMAIN m.setMap /\ m.setMap[s].refs # {} /\ m \in Manager
  BY DEF Held, Fits
<1>2. s \in Sets /\ FitsAt(m, k, s) /\ s \in HashSets
  BY <1>1, SetFacts DEF Fits, FitsAt, PlainAt
<1>3. x \in IPs /\ x \in Elements /\ NoKey \in PodKeys
  BY <1>2, DataPlaneAssumption DEF Elements
<1>4. createAndGetIPSet(m, s) = m
  BY <1>1 DEF createAndGetIPSet
<1>5. r = [b EXCEPT !.setMap[s].ipPodKey = e]
  BY <1>4 DEF AddToSet
<1>6. Members(m, s) = DOMAIN m.setMap[s].ipPodKey /\ m.setMap[s].ipPodKey \in Maps(IPs, PodKeys)
  BY <1>1, <1>2, SetFacts DEF Members
<1>7. InOneMap(m, s) /\ memberDiff(m, s).del = {} /\ s \notin DOMAIN m.toDestroy
  BY <1>1, <1>2 DEF FitsAt, KeptAt, Held
\* What b has of s: its difference has no deletion, and x is there.
<1>8. /\ DirtyChange(m, b, s) /\ InOneMap(b, s) /\ s \notin DOMAIN b.toDestroy
      /\ memberDiff(b, s).del = {}
      /\ s \in toAddOrUpdate(m) => s \in toAddOrUpdate(b)
      /\ memberDiff(m, s).add \in SUBSET memberDiff(b, s).add
      /\ x \notin Members(m, s) => s \in toAddOrUpdate(b) /\ x \in memberDiff(b, s).add
  <2>1. CASE x \in Members(m, s)
    BY <1>1, <1>7, <2>1, NoDirtyChange
  <2>2. CASE x \notin Members(m, s)
    <3> DEFINE d == diffAddMember(memberDiff(m, s), x)
    <3>1. b = dirtyAddMember(m, s, x)
      BY <1>1, <2>2 DEF KernelMemberAdd, shouldBeInKernel
    <3>2. memberDiff(m, s) \in Diffs
      BY <1>1, DiffFacts
    <3>3. d = [add |-> memberDiff(m, s).add \cup {x}, del |-> {}]
      BY <1>3, <1>7, <3>2, DiffOpFacts
    <3> HIDE DEF b, d
    <3>4. /\ DirtyChange(m, b, s)
          /\ s \in DOMAIN m.toCreate => Creates(b, s, d)
          /\ s \notin DOMAIN m.toCreate => Updates(b, s, d)
      BY <1>1, <1>2, <1>3, <1>7, <3>1, DirtyAddMemberFacts DEF d
    <3>5. memberDiff(b, s) = d /\ s \in toAddOrUpdate(b) /\ InOneMap(b, s) /\ s \notin DOMAIN b.toDestroy
      BY <3>4 DEF Creates, Updates, memberDiff, toAddOrUpdate, InOneMap
    <3> QED BY <3>3, <3>4, <3>5
  <2> QED BY <2>1, <2>2
<1> HIDE DEF b, r
<1>9. b \in Manager /\ b.setMap = m.setMap /\ b.mode = m.mode
  BY <1>8 DEF DirtyChange
<1>10. e \in Maps(IPs, PodKeys) /\ IsWith(e, m.setMap[s].ipPodKey, x, NoKey)
  BY <1>3, <1>6, <1>9, ExtendedFacts
<1> HIDE DEF e
<1> DEFINE v == [m.setMap[s] EXCEPT !.ipPodKey = e]
<1>11. HasSet(r, b, s, v)
  BY <1>1, <1>5, <1>9, <1>10, PodKeysReplaced
<1>12. /\ v.refs = m.setMap[s].refs /\ v.memberIPSets = m.setMap[s].memberIPSets
       /\ v.ipPodKey = e /\ v.ipsetReferCount = m.setMap[s].ipsetReferCount
       /\ v.kernelReferCount = m.setMap[s].kernelReferCount
  <2>1. m.setMap[s] \in SetRecord
    BY <1>1, SetFacts
  <2> QED BY <2>1 DEF SetRecord
<1> HIDE DEF v
<1>13. Touches(m, r, s) /\ IsWith(r.setMap, m.setMap, s, v) /\ SameDirty(b, r, s)
  BY <1>1, <1>8, <1>11, DirtyThenSet
<1>14. r.setMap[s] = v /\ s \in DOMAIN r.setMap /\ r.mode = m.mode
  BY <1>13 DEF IsWith, Touches
<1>15. /\ memberDiff(r, s) = memberDiff(b, s) /\ (s \in toAddOrUpdate(r) <=> s \in toAddOrUpdate(b))
       /\ InOneMap(r, s) /\ s \notin DOMAIN r.toDestroy
  BY <1>8, <1>13 DEF SameDirty, SameAt, memberDiff, toAddOrUpdate, InOneMap
<1>16. DOMAIN e = DOMAIN m.setMap[s].ipPodKey \cup {x}
       /\ \A y \in DOMAIN e : e[y] = IF y = x THEN NoKey ELSE m.setMap[s].ipPodKey[y]
  BY <1>10 DEF IsWith
<1>17. PlainAt(r, s)
  BY <1>1, <1>2, <1>12, <1>14, <1>16 DEF FitsAt, PlainAt
<1>18. KeptAt(r, s)
  BY <1>1, <1>8, <1>12, <1>14, <1>15 DEF KeptAt, Held
<1>19. PendingAt(r, k, s)
  <2>1. PendingAt(m, k, s) /\ Held(m, s)
    BY <1>2 DEF FitsAt
  <2> QED BY <1>6, <1>8, <1>12, <1>14, <1>15, <1>16, <2>1 DEF PendingAt
<1>20. Fits(r, k)
  BY <1>13, <1>17, <1>18, <1>19, OthersFit DEF FitsAt
<1>21. NoneToDestroy(r)
  BY <1>13, <1>15, StillNoneToDestroy
<1>22. BlockIn(m, r, k, s, x)
  BY <1>1, <1>12, <1>13, <1>14, <1>16, <1>20, <1>21 DEF BlockIn
<1> QED BY <1>22 DEF r

\* In r the policy p does not refer to s any more.
Dropped(m, r, k, s, p) ==
    /\ Fits(r, k) /\ Touches(m, r, s)
    /\ s \in DOMAIN m.setMap <=> s \in DOMAIN r.setMap
    /\ s \in DOMAIN m.setMap => /\ r.setMap[s].refs = m.setMap[s].refs \ {p}
                                /\ r.setMap[s].ipPodKey = m.setMap[s].ipPodKey

\* DeleteReference: a set of ApplyOnNeed that loses its last policy is to be
\* destroyed, and every set that keeps one is left alone.
LEMMA ReferenceDropped ==
    ASSUME NEW m, NEW k, Fits(m, k), NEW s \in Sets, NEW p
    PROVE  Dropped(m, DeleteReferenceTo(m, s, p), k, s, p)
<1> DEFINE r == DeleteReferenceTo(m, s, p)
<1>0. m \in Manager /\ FitsAt(m, k, s)
  BY DEF Fits
<1>1. CASE s \notin DOMAIN m.setMap
  <2>1. r = m
    BY <1>1 DEF DeleteReferenceTo
  <2>2. Touches(m, m, s)
    BY <1>0 DEF Touches, SameAt, SameDirty
  <2> QED BY <1>1, <2>1, <2>2 DEF Dropped
<1>2. CASE s \in DOMAIN m.setMap
  <2> DEFINE R == m.setMap[s].refs \ {p}
             v == [m.setMap[s] EXCEPT !.refs = R]
             n == [m EXCEPT !.setMap[s].refs = R]
             b == dirtyDestroy(n, s, Members(m, s))
  <2>1. m.setMap[s] \in SetRecord /\ R \in SUBSET References /\ Members(m, s) \in SUBSET Elements
    BY <1>0, <1>2, SetFacts
  <2>2. m.setMap[s].memberIPSets = {} /\ m.setMap[s].kernelReferCount = 0
    BY <1>0, <1>2 DEF FitsAt, PlainAt
  <2>3. r = IF ~shouldBeInKernel(m, s) \/ shouldBeInKernel(n, s) THEN n
            ELSE FoldSet(LAMBDA x, w : decKernelReferCountAndModifyCache(w, x), b, m.setMap[s].memberIPSets)
    BY <1>2 DEF DeleteReferenceTo
  <2>4. r = IF ~shouldBeInKernel(m, s) \/ shouldBeInKernel(n, s) THEN n ELSE b
    <3> HIDE DEF b, n, r
    <3>1. FoldSet(LAMBDA x, w : decKernelReferCountAndModifyCache(w, x), b, {}) = b
      BY NoneCountedDown
    <3>2. CASE ~shouldBeInKernel(m, s) \/ shouldBeInKernel(n, s)
      BY <2>3, <3>2
    <3>3. CASE ~(~shouldBeInKernel(m, s) \/ shouldBeInKernel(n, s))
      <4>1. r = FoldSet(LAMBDA x, w : decKernelReferCountAndModifyCache(w, x), b, m.setMap[s].memberIPSets)
        BY <2>3, <3>3
      <4>2. r = FoldSet(LAMBDA x, w : decKernelReferCountAndModifyCache(w, x), b, {})
        BY <2>2, <4>1
      <4> QED BY <3>1, <3>3, <4>2
    <3> QED BY <3>2, <3>3
  <2>5. HasSet(n, m, s, v)
    <3> HIDE DEF R
    <3> QED BY <1>0, <1>2, <2>1, RefsReplaced
  <2>6. /\ v.refs = R /\ v.memberIPSets = m.setMap[s].memberIPSets
        /\ v.ipPodKey = m.setMap[s].ipPodKey /\ v.ipsetReferCount = m.setMap[s].ipsetReferCount
        /\ v.kernelReferCount = m.setMap[s].kernelReferCount
    <3> HIDE DEF R
    <3> QED BY <2>1 DEF SetRecord
  <2> HIDE DEF r, v, n
  <2>7. /\ n \in Manager /\ n.mode = m.mode /\ n.setMap[s] = v /\ s \in DOMAIN n.setMap
        /\ n.toCreate = m.toCreate /\ n.toUpdate = m.toUpdate /\ n.toDestroy = m.toDestroy
    BY <2>5 DEF HasSet, IsWith
  <2>8. InOneMap(n, s) /\ InOneMap(m, s) /\ memberDiff(n, s) = memberDiff(m, s)
    BY <1>0, <2>7 DEF FitsAt, KeptAt, InOneMap, toAddOrUpdate, memberDiff
  <2>9. DirtyChange(n, r, s)
    BY <2>1, <2>4, <2>7, <2>8, NoDirtyChange, DirtyDestroyFacts
  <2>10. Touches(m, r, s) /\ IsWith(r.setMap, m.setMap, s, v)
    BY <1>0, <2>5, <2>9, SetThenDirty
  <2>11. r.setMap[s] = v /\ s \in DOMAIN r.setMap /\ r.mode = m.mode
    BY <2>10 DEF IsWith, Touches
  <2>12. PlainAt(r, s)
    BY <1>0, <1>2, <2>6, <2>11 DEF FitsAt, PlainAt
  <2>13. KeptAt(r, s) /\ PendingAt(r, k, s)
    <3>1. CASE r = n
      <4>1. memberDiff(r, s) = memberDiff(m, s) /\ (s \in toAddOrUpdate(r) <=> s \in toAddOrUpdate(m))
            /\ InOneMap(r, s) /\ (s \in DOMAIN r.toDestroy <=> s \in DOMAIN m.toDestroy)
        BY <2>7, <2>8, <3>1 DEF toAddOrUpdate
      <4>2. Held(r, s) => Held(m, s)
        BY <1>2, <2>6, <2>11 DEF Held
      <4>3. m.mode # "all" /\ Held(m, s) => Held(r, s)
        <5> SUFFICES ASSUME m.mode # "all", Held(m, s), ~Held(r, s) PROVE FALSE
          OBVIOUS
        <5>1. shouldBeInKernel(m, s)
          BY DEF Held, shouldBeInKernel
        <5>2. ~shouldBeInKernel(n, s)
          BY <2>2, <2>6, <2>7, <3>1 DEF Held, shouldBeInKernel
        <5>3. r = b /\ DirtyChange(n, r, s) /\ s \notin toAddOrUpdate(r)
              /\ (s \in DOMAIN n.toDestroy \/ s \in DOMAIN n.toCreate \/ s \in DOMAIN r.toDestroy)
          <6>1. r = b
            BY <2>4, <5>1, <5>2
          <6> QED BY <2>1, <2>7, <2>8, <2>9, <6>1, DirtyDestroyFacts
                  DEF Clean, Dirty, Destroys, toAddOrUpdate, InOneMap
        <5>4. s \notin DOMAIN m.toDestroy
          BY <1>0 DEF FitsAt, KeptAt
        <5> QED BY <2>7, <3>1, <5>3, <5>4 DEF toAddOrUpdate
      <4>4. KeptAt(r, s)
        BY <1>0, <1>2, <2>11, <4>1, <4>2, <4>3 DEF FitsAt, KeptAt
      <4>5. PendingAt(r, k, s)
        BY <1>0, <2>6, <2>11, <4>1, <4>2 DEF FitsAt, PendingAt
      <4> QED BY <4>4, <4>5
    <3>2. CASE r # n
      <4>1. r = b /\ ~shouldBeInKernel(n, s)
        BY <2>4, <3>2
      <4>2. ~Held(r, s)
        BY <2>7, <2>11, <4>1 DEF Held, shouldBeInKernel
      <4>3. s \notin toAddOrUpdate(r) /\ InOneMap(r, s)
        BY <2>1, <2>7, <2>8, <4>1, DirtyDestroyFacts
           DEF Clean, Dirty, Destroys, toAddOrUpdate, InOneMap
      <4> QED BY <4>2, <4>3 DEF KeptAt, PendingAt
    <3> QED BY <3>1, <3>2
  <2>14. Fits(r, k)
    BY <2>10, <2>12, <2>13, OthersFit DEF FitsAt
  <2>15. Dropped(m, r, k, s, p)
    BY <1>2, <2>6, <2>10, <2>11, <2>14 DEF Dropped
  <2> QED BY <2>15 DEF r
<1> QED BY <1>1, <1>2

\* In r the set s of m does not have the block x.
BlockOut(m, r, k, s, x) ==
    /\ Fits(r, k) /\ Touches(m, r, s)
    /\ s \in DOMAIN m.setMap <=> s \in DOMAIN r.setMap
    /\ s \in DOMAIN m.setMap =>
          /\ r.setMap[s].refs = m.setMap[s].refs
          /\ DOMAIN r.setMap[s].ipPodKey = DOMAIN m.setMap[s].ipPodKey \ {x}

\* RemoveFromSets, for a set that no policy refers to.
LEMMA BlockRemoved ==
    ASSUME NEW m, NEW k, Fits(m, k), NEW s \in HashSets, ~Held(m, s), NEW x \in IPs
    PROVE  BlockOut(m, RemoveFromSet(m, s, x, NoKey), k, s, x)
<1> DEFINE r == RemoveFromSet(m, s, x, NoKey)
           b == KernelMemberDelete(m, s, x)
           e == Without(b.setMap[s].ipPodKey, {x})
<1>0. m \in Manager /\ s \in Sets /\ FitsAt(m, k, s) /\ x \in Elements
  BY DEF Fits, Sets, Elements
<1>1. CASE s \notin DOMAIN m.setMap \/ x \notin Members(m, s)
  <2>1. r = m
    BY <1>1 DEF RemoveFromSet
  <2>2. Touches(m, m, s)
    BY <1>0 DEF Touches, SameAt, SameDirty
  <2>3. s \in DOMAIN m.setMap => DOMAIN m.setMap[s].ipPodKey = DOMAIN m.setMap[s].ipPodKey \ {x}
    BY <1>1 DEF Members
  <2> QED BY <2>1, <2>2, <2>3 DEF BlockOut
<1>2. CASE s \in DOMAIN m.setMap /\ x \in Members(m, s)
  <2>1. m.setMap[s].ipPodKey[x] = NoKey
    BY <1>0, <1>2 DEF FitsAt, PlainAt, Members
  <2>2. r = [b EXCEPT !.setMap[s].ipPodKey = e]
    BY <1>2, <2>1 DEF RemoveFromSet
  <2>3. InOneMap(m, s)
    BY <1>0 DEF FitsAt, KeptAt
  <2>4. DirtyChange(m, b, s) /\ InOneMap(b, s) /\ (s \in toAddOrUpdate(b) => m.mode = "all")
    <3>1. CASE b = m
      BY <1>0, <2>3, <3>1, NoDirtyChange DEF FitsAt, KeptAt
    <3>2. CASE b # m
      <4>1. b = dirtyDeleteMember(m, s, x) /\ shouldBeInKernel(m, s)
        BY <3>2 DEF KernelMemberDelete
      <4>2. s \notin DOMAIN m.toDestroy
        BY <3>2, <4>1 DEF dirtyDeleteMember
      <4>3. m.mode = "all"
        BY <1>0, <1>2, <4>1 DEF shouldBeInKernel, FitsAt, PlainAt, Held
      <4> HIDE DEF b
      <4>4. /\ DirtyChange(m, b, s)
            /\ s \in DOMAIN m.toCreate =>
                  Creates(b, s, [add |-> m.toCreate[s].add \ {x}, del |-> m.toCreate[s].del])
            /\ s \notin DOMAIN m.toCreate => Updates(b, s, diffDeleteMember(memberDiff(m, s), x))
        BY <1>0, <2>3, <4>1, <4>2, DirtyDeleteMemberFacts
      <4>5. InOneMap(b, s)
        BY <4>4 DEF Creates, Updates, InOneMap, toAddOrUpdate
      <4> QED BY <4>3, <4>4, <4>5
    <3> QED BY <3>1, <3>2
  <2> HIDE DEF b, r
  <2>5. b \in Manager /\ b.setMap = m.setMap /\ b.mode = m.mode
    BY <2>4 DEF DirtyChange
  <2>6. e \in Maps(IPs, PodKeys) /\ IsWithout(e, m.setMap[s].ipPodKey, x)
    BY <1>0, <1>2, <2>5, SetFacts, WithoutFacts
  <2> HIDE DEF e
  <2> DEFINE v == [m.setMap[s] EXCEPT !.ipPodKey = e]
  <2>7. HasSet(r, b, s, v)
    BY <1>2, <2>2, <2>5, <2>6, PodKeysReplaced
  <2>8. /\ v.refs = m.setMap[s].refs /\ v.memberIPSets = m.setMap[s].memberIPSets
        /\ v.ipPodKey = e /\ v.ipsetReferCount = m.setMap[s].ipsetReferCount
        /\ v.kernelReferCount = m.setMap[s].kernelReferCount
    <3>1. m.setMap[s] \in SetRecord
      BY <1>0, <1>2, SetFacts
    <3> QED BY <3>1 DEF SetRecord
  <2> HIDE DEF v
  <2>9. Touches(m, r, s) /\ IsWith(r.setMap, m.setMap, s, v) /\ SameDirty(b, r, s)
    BY <1>0, <2>4, <2>7, DirtyThenSet
  <2>10. r.setMap[s] = v /\ s \in DOMAIN r.setMap /\ r.mode = m.mode
    BY <2>9 DEF IsWith, Touches
  <2>11. ~Held(r, s) /\ InOneMap(r, s) /\ (s \in toAddOrUpdate(r) => r.mode = "all")
    BY <1>2, <2>4, <2>8, <2>9, <2>10 DEF Held, SameDirty, SameAt, InOneMap, toAddOrUpdate
  <2>12. PlainAt(r, s)
    BY <1>0, <1>2, <2>6, <2>8, <2>10 DEF FitsAt, PlainAt, IsWithout
  <2>13. KeptAt(r, s) /\ PendingAt(r, k, s)
    BY <2>10, <2>11 DEF KeptAt, PendingAt
  <2>14. Fits(r, k)
    BY <2>9, <2>12, <2>13, OthersFit DEF FitsAt
  <2>15. BlockOut(m, r, k, s, x)
    BY <1>2, <2>6, <2>8, <2>9, <2>10, <2>14 DEF BlockOut, IsWithout
  <2> QED BY <2>15 DEF r
<1> QED BY <1>1, <1>2

\* Nothing refers to the cached set s, and it is empty.
Unused(m, s) == m.setMap[s].refs = {} /\ DOMAIN m.setMap[s].ipPodKey = {}

\* In r the set s is gone if it was unused.
Cleared(m, r, k, s) ==
    /\ Fits(r, k) /\ Touches(m, r, s)
    /\ s \in DOMAIN r.setMap <=> s \in DOMAIN m.setMap /\ ~Unused(m, s)
    /\ s \in DOMAIN r.setMap => r.setMap[s] = m.setMap[s]
    /\ s \notin DOMAIN m.setMap \/ ~Unused(m, s) => r = m

\* A set is deleted from the cache, and with ApplyAllIPSets it is then to be
\* destroyed.
LEMMA SetCleared ==
    ASSUME NEW m, NEW k, Fits(m, k), NEW s \in Sets
    PROVE  Cleared(m, modifyCacheForCacheDeletion(m, s, "soft"), k, s)
<1> DEFINE r == modifyCacheForCacheDeletion(m, s, "soft")
<1>0. m \in Manager /\ FitsAt(m, k, s)
  BY DEF Fits
<1>1. s \in DOMAIN m.setMap => (canBeDeleted(m, s, "soft") <=> Unused(m, s))
  BY <1>0 DEF FitsAt, PlainAt, canBeDeleted, Unused, Members
<1>2. CASE s \notin DOMAIN m.setMap \/ ~Unused(m, s)
  <2>1. r = m
    BY <1>1, <1>2 DEF modifyCacheForCacheDeletion
  <2>2. Touches(m, m, s)
    BY <1>0 DEF Touches, SameAt, SameDirty
  <2> QED BY <1>2, <2>1, <2>2 DEF Cleared
<1>3. CASE s \in DOMAIN m.setMap /\ Unused(m, s)
  <2> DEFINE f == Without(m.setMap, {s})
             n == [m EXCEPT !.setMap = f]
  <2>1. f \in Maps(Sets, SetRecord) /\ IsWithout(f, m.setMap, s)
    BY <1>0, ManagerFacts, WithoutFacts
  <2>2. r = IF m.mode = "all" THEN dirtyDestroy(n, s, Members(m, s)) ELSE n
    BY <1>1, <1>3 DEF modifyCacheForCacheDeletion
  <2> HIDE DEF f, r
  <2>3. /\ n \in Manager /\ n.mode = m.mode /\ n.setMap = f
        /\ n.toCreate = m.toCreate /\ n.toUpdate = m.toUpdate /\ n.toDestroy = m.toDestroy
    BY <1>0, <2>1, ManagerFacts DEF Manager
  <2> HIDE DEF n
  <2>4. InOneMap(m, s) /\ InOneMap(n, s) /\ Members(m, s) \in SUBSET Elements
    BY <1>0, <1>3, <2>3, SetFacts DEF FitsAt, KeptAt, InOneMap, toAddOrUpdate
  <2>5. DirtyChange(n, r, s) /\ InOneMap(r, s) /\ s \notin toAddOrUpdate(r)
    <3>1. CASE m.mode = "all"
      <4>1. r = dirtyDestroy(n, s, Members(m, s))
        BY <2>2, <3>1
      <4> QED BY <2>3, <2>4, <4>1, DirtyDestroyFacts
              DEF Clean, Dirty, Destroys, toAddOrUpdate, InOneMap
    <3>2. CASE m.mode # "all"
      <4>1. r = n /\ s \notin toAddOrUpdate(m)
        BY <1>0, <1>3, <2>2, <3>2 DEF FitsAt, KeptAt, Held, Unused
      <4> QED BY <2>3, <2>4, <4>1, NoDirtyChange DEF toAddOrUpdate
    <3> QED BY <3>1, <3>2
  <2>6. Touches(m, r, s) /\ s \notin DOMAIN r.setMap
    BY <2>1, <2>3, <2>5 DEF DirtyChange, IsWithout, SameDirty, SameAt, Touches
  <2>7. FitsAt(r, k, s)
    BY <2>5, <2>6 DEF FitsAt, PlainAt, KeptAt, PendingAt, Held
  <2>8. Cleared(m, r, k, s)
    BY <1>3, <2>6, <2>7, OthersFit DEF Cleared
  <2> QED BY <2>8 DEF r
<1> QED BY <1>2, <1>3

-----------------------------------------------------------------------------
(* The loops over a policy's sets and their blocks *)

\* What the loops of createIPSetsAndReferences and deleteIPSetsAndReferences make
\* of a manager.
AllReferred(b, p, S) == FoldSet(LAMBDA s, m : AddReferenceTo(m, s, p), b, S)
AllDropped(b, p, S) == FoldSet(LAMBDA s, m : DeleteReferenceTo(m, s, p), b, S)
AllBlocksIn(b, S) == FoldSet(LAMBDA c, m : AddToSet(m, c[1], c[2], NoKey), b, S)
AllBlocksOut(b, S) == FoldSet(LAMBDA c, m : RemoveFromSet(m, c[1], c[2], NoKey), b, S)

\* What a round of the loop over a policy's sets brings about holds after it;
\* J[s] is what holds once the sets of s are done.
LEMMA ReferLoop ==
    ASSUME NEW p, NEW S, IsFiniteSet(S), NEW M, NEW b \in M, NEW J, b \in J[{}],
           \A x \in S, n \in M : AddReferenceTo(n, x, p) \in M,
           \A s \in SUBSET S : \A x \in S \ s : \A n \in J[s] : AddReferenceTo(n, x, p) \in J[s \cup {x}]
    PROVE  AllReferred(b, p, S) \in J[S]
<1> DEFINE E(f) == [s \in SUBSET S |-> IF s = {} THEN b ELSE AddReferenceTo(f[s \ {Ch(s)}], Ch(s), p)]
           it == CHOOSE f : f = E(f)
           G == [c \in S \X M |-> AddReferenceTo(c[2], c[1], p)]
<1>1. AllReferred(b, p, S) = it[S]
  BY DEF AllReferred, FoldSet, MapThenFoldSet, Ch
<1>2. G \in [S \X M -> M]
  OBVIOUS
<1>3. PICK f \in [SUBSET S -> M] : IsFold(f, S, b, G)
  <2> HIDE DEF G
  <2> QED BY <1>2, FoldExists
<1>4. f = E(f)
  <2>1. \A s \in SUBSET S : s # {} => Ch(s) \in S /\ s \ {Ch(s)} \in SUBSET S
    BY DEF Ch
  <2>2. \A s \in SUBSET S : f[s] = E(f)[s]
    BY <1>3, <2>1 DEF IsFold
  <2> QED BY <1>3, <2>2
<1>5. it = E(it)
  <2> HIDE DEF E
  <2> QED BY <1>4
<1> HIDE DEF it
<1>6. it[{}] = b
  BY <1>5
<1>7. ASSUME NEW s \in SUBSET S, NEW x \in S \ s, it[s] \in J[s], x = Ch(s \cup {x})
      PROVE  it[s \cup {x}] \in J[s \cup {x}]
  <2>1. s \cup {x} \in SUBSET S /\ s \cup {x} # {} /\ (s \cup {x}) \ {x} = s
    OBVIOUS
  <2>2. E(it)[s \cup {x}] = AddReferenceTo(it[(s \cup {x}) \ {Ch(s \cup {x})}], Ch(s \cup {x}), p)
    BY <2>1
  <2>3. it[s \cup {x}] = AddReferenceTo(it[s], x, p)
    BY <1>5, <1>7, <2>1, <2>2
  <2> QED BY <1>7, <2>3
<1>8. it[S] \in J[S]
  BY <1>6, <1>7, FoldInduction
<1> QED BY <1>1, <1>8

\* The same of the loop that drops the references.
LEMMA DropLoop ==
    ASSUME NEW p, NEW S, IsFiniteSet(S), NEW M, NEW b \in M, NEW J, b \in J[{}],
           \A x \in S, n \in M : DeleteReferenceTo(n, x, p) \in M,
           \A s \in SUBSET S : \A x \in S \ s : \A n \in J[s] : DeleteReferenceTo(n, x, p) \in J[s \cup {x}]
    PROVE  AllDropped(b, p, S) \in J[S]
<1> DEFINE E(f) == [s \in SUBSET S |-> IF s = {} THEN b ELSE DeleteReferenceTo(f[s \ {Ch(s)}], Ch(s), p)]
           it == CHOOSE f : f = E(f)
           G == [c \in S \X M |-> DeleteReferenceTo(c[2], c[1], p)]
<1>1. AllDropped(b, p, S) = it[S]
  BY DEF AllDropped, FoldSet, MapThenFoldSet, Ch
<1>2. G \in [S \X M -> M]
  OBVIOUS
<1>3. PICK f \in [SUBSET S -> M] : IsFold(f, S, b, G)
  <2> HIDE DEF G
  <2> QED BY <1>2, FoldExists
<1>4. f = E(f)
  <2>1. \A s \in SUBSET S : s # {} => Ch(s) \in S /\ s \ {Ch(s)} \in SUBSET S
    BY DEF Ch
  <2>2. \A s \in SUBSET S : f[s] = E(f)[s]
    BY <1>3, <2>1 DEF IsFold
  <2> QED BY <1>3, <2>2
<1>5. it = E(it)
  <2> HIDE DEF E
  <2> QED BY <1>4
<1> HIDE DEF it
<1>6. it[{}] = b
  BY <1>5
<1>7. ASSUME NEW s \in SUBSET S, NEW x \in S \ s, it[s] \in J[s], x = Ch(s \cup {x})
      PROVE  it[s \cup {x}] \in J[s \cup {x}]
  <2>1. s \cup {x} \in SUBSET S /\ s \cup {x} # {} /\ (s \cup {x}) \ {x} = s
    OBVIOUS
  <2>2. E(it)[s \cup {x}] = DeleteReferenceTo(it[(s \cup {x}) \ {Ch(s \cup {x})}], Ch(s \cup {x}), p)
    BY <2>1
  <2>3. it[s \cup {x}] = DeleteReferenceTo(it[s], x, p)
    BY <1>5, <1>7, <2>1, <2>2
  <2> QED BY <1>7, <2>3
<1>8. it[S] \in J[S]
  BY <1>6, <1>7, FoldInduction
<1> QED BY <1>1, <1>8

\* The same of the loop over the blocks to add.
LEMMA BlocksInLoop ==
    ASSUME NEW S, IsFiniteSet(S), NEW M, NEW b \in M, NEW J, b \in J[{}],
           \A x \in S, n \in M : AddToSet(n, x[1], x[2], NoKey) \in M,
           \A s \in SUBSET S : \A x \in S \ s : \A n \in J[s] : AddToSet(n, x[1], x[2], NoKey) \in J[s \cup {x}]
    PROVE  AllBlocksIn(b, S) \in J[S]
<1> DEFINE E(f) == [s \in SUBSET S |-> IF s = {} THEN b ELSE AddToSet(f[s \ {Ch(s)}], Ch(s)[1], Ch(s)[2], NoKey)]
           it == CHOOSE f : f = E(f)
           G == [c \in S \X M |-> AddToSet(c[2], c[1][1], c[1][2], NoKey)]
<1>1. AllBlocksIn(b, S) = it[S]
  BY DEF AllBlocksIn, FoldSet, MapThenFoldSet, Ch
<1>2. G \in [S \X M -> M]
  OBVIOUS
<1>3. PICK f \in [SUBSET S -> M] : IsFold(f, S, b, G)
  <2> HIDE DEF G
  <2> QED BY <1>2, FoldExists
<1>4. f = E(f)
  <2>1. \A s \in SUBSET S : s # {} => Ch(s) \in S /\ s \ {Ch(s)} \in SUBSET S
    BY DEF Ch
  <2>2. \A s \in SUBSET S : f[s] = E(f)[s]
    BY <1>3, <2>1 DEF IsFold
  <2> QED BY <1>3, <2>2
<1>5. it = E(it)
  <2> HIDE DEF E
  <2> QED BY <1>4
<1> HIDE DEF it
<1>6. it[{}] = b
  BY <1>5
<1>7. ASSUME NEW s \in SUBSET S, NEW x \in S \ s, it[s] \in J[s], x = Ch(s \cup {x})
      PROVE  it[s \cup {x}] \in J[s \cup {x}]
  <2>1. s \cup {x} \in SUBSET S /\ s \cup {x} # {} /\ (s \cup {x}) \ {x} = s
    OBVIOUS
  <2>2. E(it)[s \cup {x}] = AddToSet(it[(s \cup {x}) \ {Ch(s \cup {x})}], Ch(s \cup {x})[1], Ch(s \cup {x})[2], NoKey)
    BY <2>1
  <2>3. it[s \cup {x}] = AddToSet(it[s], x[1], x[2], NoKey)
    BY <1>5, <1>7, <2>1, <2>2
  <2> QED BY <1>7, <2>3
<1>8. it[S] \in J[S]
  BY <1>6, <1>7, FoldInduction
<1> QED BY <1>1, <1>8

\* The same of the loop over the blocks to remove.
LEMMA BlocksOutLoop ==
    ASSUME NEW S, IsFiniteSet(S), NEW M, NEW b \in M, NEW J, b \in J[{}],
           \A x \in S, n \in M : RemoveFromSet(n, x[1], x[2], NoKey) \in M,
           \A s \in SUBSET S : \A x \in S \ s : \A n \in J[s] : RemoveFromSet(n, x[1], x[2], NoKey) \in J[s \cup {x}]
    PROVE  AllBlocksOut(b, S) \in J[S]
<1> DEFINE E(f) == [s \in SUBSET S |-> IF s = {} THEN b ELSE RemoveFromSet(f[s \ {Ch(s)}], Ch(s)[1], Ch(s)[2], NoKey)]
           it == CHOOSE f : f = E(f)
           G == [c \in S \X M |-> RemoveFromSet(c[2], c[1][1], c[1][2], NoKey)]
<1>1. AllBlocksOut(b, S) = it[S]
  BY DEF AllBlocksOut, FoldSet, MapThenFoldSet, Ch
<1>2. G \in [S \X M -> M]
  OBVIOUS
<1>3. PICK f \in [SUBSET S -> M] : IsFold(f, S, b, G)
  <2> HIDE DEF G
  <2> QED BY <1>2, FoldExists
<1>4. f = E(f)
  <2>1. \A s \in SUBSET S : s # {} => Ch(s) \in S /\ s \ {Ch(s)} \in SUBSET S
    BY DEF Ch
  <2>2. \A s \in SUBSET S : f[s] = E(f)[s]
    BY <1>3, <2>1 DEF IsFold
  <2> QED BY <1>3, <2>2
<1>5. it = E(it)
  <2> HIDE DEF E
  <2> QED BY <1>4
<1> HIDE DEF it
<1>6. it[{}] = b
  BY <1>5
<1>7. ASSUME NEW s \in SUBSET S, NEW x \in S \ s, it[s] \in J[s], x = Ch(s \cup {x})
      PROVE  it[s \cup {x}] \in J[s \cup {x}]
  <2>1. s \cup {x} \in SUBSET S /\ s \cup {x} # {} /\ (s \cup {x}) \ {x} = s
    OBVIOUS
  <2>2. E(it)[s \cup {x}] = RemoveFromSet(it[(s \cup {x}) \ {Ch(s \cup {x})}], Ch(s \cup {x})[1], Ch(s \cup {x})[2], NoKey)
    BY <2>1
  <2>3. it[s \cup {x}] = RemoveFromSet(it[s], x[1], x[2], NoKey)
    BY <1>5, <1>7, <2>1, <2>2
  <2> QED BY <1>7, <2>3
<1>8. it[S] \in J[S]
  BY <1>6, <1>7, FoldInduction
<1> QED BY <1>1, <1>8

\* The same of the loop that deletes unused sets.
LEMMA ClearLoop ==
    ASSUME NEW S, IsFiniteSet(S), NEW M, NEW b \in M, NEW J, b \in J[{}],
           \A x \in S, n \in M : modifyCacheForCacheDeletion(n, x, "soft") \in M,
           \A s \in SUBSET S : \A x \in S \ s : \A n \in J[s] : modifyCacheForCacheDeletion(n, x, "soft") \in J[s \cup {x}]
    PROVE  AllDeleted(b, S) \in J[S]
<1> DEFINE E(f) == [s \in SUBSET S |-> IF s = {} THEN b ELSE modifyCacheForCacheDeletion(f[s \ {Ch(s)}], Ch(s), "soft")]
           it == CHOOSE f : f = E(f)
           G == [c \in S \X M |-> modifyCacheForCacheDeletion(c[2], c[1], "soft")]
<1>1. AllDeleted(b, S) = it[S]
  BY DEF AllDeleted, FoldSet, MapThenFoldSet, Ch
<1>2. G \in [S \X M -> M]
  OBVIOUS
<1>3. PICK f \in [SUBSET S -> M] : IsFold(f, S, b, G)
  <2> HIDE DEF G
  <2> QED BY <1>2, FoldExists
<1>4. f = E(f)
  <2>1. \A s \in SUBSET S : s # {} => Ch(s) \in S /\ s \ {Ch(s)} \in SUBSET S
    BY DEF Ch
  <2>2. \A s \in SUBSET S : f[s] = E(f)[s]
    BY <1>3, <2>1 DEF IsFold
  <2> QED BY <1>3, <2>2
<1>5. it = E(it)
  <2> HIDE DEF E
  <2> QED BY <1>4
<1> HIDE DEF it
<1>6. it[{}] = b
  BY <1>5
<1>7. ASSUME NEW s \in SUBSET S, NEW x \in S \ s, it[s] \in J[s], x = Ch(s \cup {x})
      PROVE  it[s \cup {x}] \in J[s \cup {x}]
  <2>1. s \cup {x} \in SUBSET S /\ s \cup {x} # {} /\ (s \cup {x}) \ {x} = s
    OBVIOUS
  <2>2. E(it)[s \cup {x}] = modifyCacheForCacheDeletion(it[(s \cup {x}) \ {Ch(s \cup {x})}], Ch(s \cup {x}), "soft")
    BY <2>1
  <2>3. it[s \cup {x}] = modifyCacheForCacheDeletion(it[s], x, "soft")
    BY <1>5, <1>7, <2>1, <2>2
  <2> QED BY <1>7, <2>3
<1>8. it[S] \in J[S]
  BY <1>6, <1>7, FoldInduction
<1> QED BY <1>1, <1>8

\* The sets of a policy and their blocks; a set with blocks is one policy's own.
LEMMA PolicySets ==
    ASSUME NEW p \in Policies
    PROVE  /\ SetsOf[p] \in SUBSET HashSets /\ SetsOf[p] \in SUBSET Sets /\ IsFiniteSet(SetsOf[p])
           /\ \A s \in SetsOf[p] : Blocks[s] \in SUBSET IPs
           /\ IsFiniteSet(BlocksOf(p))
           /\ \A c \in BlocksOf(p) : c[1] \in SetsOf[p] /\ c[2] \in Blocks[c[1]]
           /\ \A s \in SetsOf[p] : \A x \in Blocks[s] : <<s, x>> \in BlocksOf(p)
<1>1. /\ SetsOf[p] \in SUBSET HashSets /\ IsFiniteSet(HashSets) /\ IsFiniteSet(IPs)
      /\ \A s \in HashSets : Blocks[s] \in SUBSET IPs
  BY DataPlaneAssumption, NPMAssumption
<1>2. IsFiniteSet(SetsOf[p])
  BY <1>1, FS_Subset
<1>3. BlocksOf(p) \subseteq HashSets \X IPs
  BY <1>1 DEF BlocksOf
<1>4. IsFiniteSet(HashSets \X IPs)
  BY <1>1, FS_Product
<1>5. IsFiniteSet(BlocksOf(p))
  BY <1>3, <1>4, FS_Subset
<1>6. \A c \in BlocksOf(p) : c[1] \in SetsOf[p] /\ c[2] \in Blocks[c[1]]
  BY DEF BlocksOf
<1>7. \A s \in SetsOf[p] : \A x \in Blocks[s] : <<s, x>> \in BlocksOf(p)
  BY DEF BlocksOf
<1> QED BY <1>1, <1>2, <1>5, <1>6, <1>7 DEF Sets

\* r is b once p refers to the sets of X.
Grown(b, r, k, p, X) ==
    /\ Fits(r, k) /\ HeldAll(r) /\ NoneToDestroy(r)
    /\ \A t \in DOMAIN b.setMap : /\ t \in DOMAIN r.setMap
                                  /\ b.setMap[t].refs \in SUBSET r.setMap[t].refs
                                  /\ r.setMap[t].ipPodKey = b.setMap[t].ipPodKey
    /\ \A s \in X : s \in DOMAIN r.setMap /\ p \in r.setMap[s].refs

\* The loop over the references of createIPSetsAndReferences.
LEMMA ReferencesGrow ==
    ASSUME NEW b, NEW k, Fits(b, k), HeldAll(b), NoneToDestroy(b), NEW p \in Policies
    PROVE  Grown(b, AllReferred(b, p, SetsOf[p]), k, p, SetsOf[p])
<1> DEFINE S == SetsOf[p]
           M == {m \in Manager : Fits(m, k) /\ HeldAll(m) /\ NoneToDestroy(m)}
           J == [X \in SUBSET S |-> {r \in Manager : Grown(b, r, k, p, X)}]
<1>1. S \in SUBSET HashSets /\ S \in SUBSET Sets /\ IsFiniteSet(S)
  BY PolicySets
<1>2. \A x \in S, n \in M : Referring(n, AddReferenceTo(n, x, p), k, x, p)
  BY <1>1, ReferenceAdded
<1>3. \A x \in S, n \in M : AddReferenceTo(n, x, p) \in M
  BY <1>2 DEF Referring, Fits
<1>4. b \in M
  BY DEF Fits
<1>5. b \in J[{}]
  BY <1>4 DEF Grown
<1>6. ASSUME NEW X \in SUBSET S, NEW x \in S \ X, NEW n \in J[X]
      PROVE  AddReferenceTo(n, x, p) \in J[X \cup {x}]
  <2> DEFINE r == AddReferenceTo(n, x, p)
  <2>1. n \in Manager /\ Grown(b, n, k, p, X)
    OBVIOUS
  <2>2. n \in M
    BY <2>1 DEF Grown
  <2>3. Referring(n, r, k, x, p)
    BY <1>2, <2>2
  <2>4. \A t \in DOMAIN n.setMap : t \in Sets
    BY <2>1, ManagerFacts, MapFacts
  <2> HIDE DEF r, M
  <2>5. \A t \in DOMAIN n.setMap : /\ t \in DOMAIN r.setMap
                                   /\ n.setMap[t].refs \in SUBSET r.setMap[t].refs
                                   /\ r.setMap[t].ipPodKey = n.setMap[t].ipPodKey
    BY <2>3, <2>4 DEF Referring, Touches, SameAt
  <2>6. \A t \in DOMAIN b.setMap : /\ t \in DOMAIN r.setMap
                                   /\ b.setMap[t].refs \in SUBSET r.setMap[t].refs
                                   /\ r.setMap[t].ipPodKey = b.setMap[t].ipPodKey
    BY <2>1, <2>5 DEF Grown
  <2>7. \A s \in X \cup {x} : s \in DOMAIN r.setMap /\ p \in r.setMap[s].refs
    BY <2>1, <2>3, <2>5 DEF Grown, Referring
  <2>8. Grown(b, r, k, p, X \cup {x}) /\ r \in Manager
    BY <2>3, <2>6, <2>7 DEF Grown, Referring, Fits
  <2> QED BY <2>8 DEF r
<1>7. S \in SUBSET S
  OBVIOUS
<1>8. AllReferred(b, p, S) \in J[S]
  <2> HIDE DEF J, M, S
  <2> QED BY <1>1, <1>3, <1>4, <1>5, <1>6, ReferLoop
<1> QED BY <1>7, <1>8

\* r is b with the blocks of X.
Filled(b, r, k, X) ==
    /\ Fits(r, k) /\ NoneToDestroy(r)
    /\ DOMAIN r.setMap = DOMAIN b.setMap
    /\ \A t \in DOMAIN b.setMap :
          /\ r.setMap[t].refs = b.setMap[t].refs
          /\ DOMAIN b.setMap[t].ipPodKey \in SUBSET DOMAIN r.setMap[t].ipPodKey
    /\ \A c \in X : c[1] \in DOMAIN r.setMap /\ c[2] \in DOMAIN r.setMap[c[1]].ipPodKey

\* r is n with the block x in s.
MoreIn(n, r, k, s, x) ==
    /\ DOMAIN r.setMap = DOMAIN n.setMap /\ Fits(r, k) /\ NoneToDestroy(r) /\ r \in Manager
    /\ s \in DOMAIN r.setMap /\ x \in DOMAIN r.setMap[s].ipPodKey
    /\ \A t \in DOMAIN n.setMap :
          /\ r.setMap[t].refs = n.setMap[t].refs
          /\ DOMAIN n.setMap[t].ipPodKey \in SUBSET DOMAIN r.setMap[t].ipPodKey

\* A block comes in, and no other set changes.
LEMMA BlockInGrows ==
    ASSUME NEW k, NEW n \in Manager, NEW r, NEW s, NEW x, BlockIn(n, r, k, s, x)
    PROVE  MoreIn(n, r, k, s, x)
<1>1. Touches(n, r, s) /\ r \in Manager
  BY DEF BlockIn, Touches
<1>2. (\A t \in DOMAIN n.setMap : t \in Sets) /\ (\A t \in DOMAIN r.setMap : t \in Sets)
  BY <1>1, ManagerFacts, MapFacts
<1> QED BY <1>1, <1>2 DEF BlockIn, Touches, SameAt, MoreIn

\* The loop over the members of createIPSetsAndReferences.
LEMMA BlocksFill ==
    ASSUME NEW b, NEW k, Fits(b, k), NoneToDestroy(b), NEW p \in Policies,
           \A s \in SetsOf[p] : Held(b, s)
    PROVE  Filled(b, AllBlocksIn(b, BlocksOf(p)), k, BlocksOf(p))
<1> DEFINE S == BlocksOf(p)
           M == {m \in Manager : Fits(m, k) /\ NoneToDestroy(m) /\ \A s \in SetsOf[p] : Held(m, s)}
           J == [X \in SUBSET S |-> {r \in Manager : Filled(b, r, k, X)}]
<1>1. /\ IsFiniteSet(S) /\ \A c \in S : c[1] \in SetsOf[p] /\ c[2] \in Blocks[c[1]] /\ c[1] \in HashSets
  BY PolicySets
<1> HIDE DEF S
<1>2. \A x \in S, n \in M : BlockIn(n, AddToSet(n, x[1], x[2], NoKey), k, x[1], x[2])
  BY <1>1, BlockAdded
<1>4. ASSUME NEW x \in S, NEW n \in M PROVE AddToSet(n, x[1], x[2], NoKey) \in M
  <2> DEFINE r == AddToSet(n, x[1], x[2], NoKey)
  <2>1. BlockIn(n, r, k, x[1], x[2]) /\ n \in Manager /\ \A s \in SetsOf[p] : Held(n, s)
    BY <1>2
  <2> HIDE DEF r
  <2>2. /\ DOMAIN r.setMap = DOMAIN n.setMap /\ Fits(r, k) /\ NoneToDestroy(r) /\ r \in Manager
        /\ \A t \in DOMAIN n.setMap : r.setMap[t].refs = n.setMap[t].refs
    <3>1. MoreIn(n, r, k, x[1], x[2])
      BY <2>1, BlockInGrows
    <3> QED BY <3>1 DEF MoreIn
  <2>3. \A s \in SetsOf[p] : Held(r, s)
    BY <2>1, <2>2 DEF Held
  <2> QED BY <2>2, <2>3 DEF r
<1>5. b \in M /\ b \in Manager
  BY DEF Fits
<1>6. b \in J[{}]
  BY <1>5 DEF Filled
<1>7. ASSUME NEW X \in SUBSET S, NEW x \in S \ X, NEW n \in J[X]
      PROVE  AddToSet(n, x[1], x[2], NoKey) \in J[X \cup {x}]
  <2> DEFINE r == AddToSet(n, x[1], x[2], NoKey)
  <2>1. n \in Manager /\ Filled(b, n, k, X)
    OBVIOUS
  <2>2. n \in M
    BY <2>1 DEF Filled, Held
  <2>3. BlockIn(n, r, k, x[1], x[2])
    BY <1>2, <2>2
  <2> HIDE DEF r, M
  <2>4. /\ DOMAIN r.setMap = DOMAIN n.setMap /\ Fits(r, k) /\ NoneToDestroy(r) /\ r \in Manager
        /\ x[1] \in DOMAIN r.setMap /\ x[2] \in DOMAIN r.setMap[x[1]].ipPodKey
        /\ \A t \in DOMAIN n.setMap :
              /\ r.setMap[t].refs = n.setMap[t].refs
              /\ DOMAIN n.setMap[t].ipPodKey \in SUBSET DOMAIN r.setMap[t].ipPodKey
    <3>1. MoreIn(n, r, k, x[1], x[2])
      BY <2>1, <2>3, BlockInGrows
    <3> QED BY <3>1 DEF MoreIn
  <2>5. \A c \in X \cup {x} : c[1] \in DOMAIN r.setMap /\ c[2] \in DOMAIN r.setMap[c[1]].ipPodKey
    BY <2>1, <2>4 DEF Filled
  <2>6. Filled(b, r, k, X \cup {x})
    BY <2>1, <2>4, <2>5 DEF Filled
  <2> QED BY <2>4, <2>6 DEF r
<1>8. AllBlocksIn(b, S) \in J[S]
  <2> HIDE DEF J, M
  <2> QED BY <1>1, <1>4, <1>5, <1>6, <1>7, BlocksInLoop
<1>9. S \in SUBSET S
  OBVIOUS
<1>10. Filled(b, AllBlocksIn(b, S), k, S)
  BY <1>8, <1>9
<1> QED BY <1>10 DEF S

\* r is b once p no longer refers to the sets of X.
Unreferred(b, r, k, p, X) ==
    /\ Fits(r, k) /\ DOMAIN r.setMap = DOMAIN b.setMap
    /\ \A t \in DOMAIN b.setMap :
          /\ r.setMap[t].ipPodKey = b.setMap[t].ipPodKey
          /\ r.setMap[t].refs = IF t \in X THEN b.setMap[t].refs \ {p} ELSE b.setMap[t].refs

\* A reference goes, and no other set changes.
LEMMA DroppedIsUnreferred ==
    ASSUME NEW k, NEW n \in Manager, NEW r, NEW s, NEW p, Dropped(n, r, k, s, p)
    PROVE  Unreferred(n, r, k, p, {s}) /\ r \in Manager
<1>1. Touches(n, r, s) /\ r \in Manager
  BY DEF Dropped, Touches
<1>2. (\A t \in DOMAIN n.setMap : t \in Sets) /\ (\A t \in DOMAIN r.setMap : t \in Sets)
  BY <1>1, ManagerFacts, MapFacts
<1> QED BY <1>1, <1>2 DEF Dropped, Touches, SameAt, Unreferred

\* The loop over the references of deleteIPSetsAndReferences.
LEMMA ReferencesDrop ==
    ASSUME NEW b, NEW k, Fits(b, k), NEW p \in Policies
    PROVE  Unreferred(b, AllDropped(b, p, SetsOf[p]), k, p, SetsOf[p])
<1> DEFINE S == SetsOf[p]
           M == {m \in Manager : Fits(m, k)}
           J == [X \in SUBSET S |-> {r \in Manager : Unreferred(b, r, k, p, X)}]
<1>1. S \in SUBSET Sets /\ IsFiniteSet(S)
  BY PolicySets
<1> HIDE DEF S
<1>2. ASSUME NEW x \in S, NEW n \in M
      PROVE  Unreferred(n, DeleteReferenceTo(n, x, p), k, p, {x}) /\ DeleteReferenceTo(n, x, p) \in Manager
  <2>1. Dropped(n, DeleteReferenceTo(n, x, p), k, x, p)
    BY <1>1, <1>2, ReferenceDropped
  <2> QED BY <2>1, DroppedIsUnreferred
<1>3. \A x \in S, n \in M : DeleteReferenceTo(n, x, p) \in M
  BY <1>2 DEF Unreferred
<1>4. b \in M
  BY DEF Fits
<1>5. b \in J[{}]
  BY <1>4 DEF Unreferred
<1>6. ASSUME NEW X \in SUBSET S, NEW x \in S \ X, NEW n \in J[X]
      PROVE  DeleteReferenceTo(n, x, p) \in J[X \cup {x}]
  <2> DEFINE r == DeleteReferenceTo(n, x, p)
  <2>1. n \in Manager /\ Unreferred(b, n, k, p, X)
    OBVIOUS
  <2>2. n \in M
    BY <2>1 DEF Unreferred
  <2>3. Unreferred(n, r, k, p, {x}) /\ r \in Manager
    BY <1>2, <2>2
  <2> HIDE DEF r, M
  <2>4. Unreferred(b, r, k, p, X \cup {x})
    BY <2>1, <2>3 DEF Unreferred
  <2> QED BY <2>3, <2>4 DEF r
<1>7. AllDropped(b, p, S) \in J[S]
  <2> HIDE DEF J, M
  <2> QED BY <1>1, <1>3, <1>4, <1>5, <1>6, DropLoop
<1>8. Unreferred(b, AllDropped(b, p, S), k, p, S)
  BY <1>7
<1> QED BY <1>8 DEF S

\* r is b without the blocks of X.
Emptied(b, r, k, X) ==
    /\ Fits(r, k) /\ DOMAIN r.setMap = DOMAIN b.setMap
    /\ \A t \in DOMAIN b.setMap :
          /\ r.setMap[t].refs = b.setMap[t].refs
          /\ \A x : x \in DOMAIN r.setMap[t].ipPodKey <=>
                    x \in DOMAIN b.setMap[t].ipPodKey /\ <<t, x>> \notin X

\* A block goes, and no other set changes.
LEMMA BlockOutIsEmptied ==
    ASSUME NEW k, NEW n \in Manager, NEW r, NEW s, NEW x, BlockOut(n, r, k, s, x)
    PROVE  Emptied(n, r, k, {<<s, x>>}) /\ r \in Manager
<1>1. Touches(n, r, s) /\ r \in Manager
  BY DEF BlockOut, Touches
<1>2. (\A t \in DOMAIN n.setMap : t \in Sets) /\ (\A t \in DOMAIN r.setMap : t \in Sets)
  BY <1>1, ManagerFacts, MapFacts
<1>3. \A t, y : <<t, y>> \in {<<s, x>>} <=> t = s /\ y = x
  OBVIOUS
<1>4. DOMAIN r.setMap = DOMAIN n.setMap
  BY <1>1, <1>2 DEF BlockOut, Touches, SameAt
<1>5. ASSUME NEW t \in DOMAIN n.setMap
      PROVE  /\ r.setMap[t].refs = n.setMap[t].refs
             /\ \A y : y \in DOMAIN r.setMap[t].ipPodKey <=>
                       y \in DOMAIN n.setMap[t].ipPodKey /\ ~(t = s /\ y = x)
  <2>1. CASE t = s
    BY <2>1 DEF BlockOut
  <2>2. CASE t # s
    <3>1. r.setMap[t] = n.setMap[t]
      BY <1>1, <1>2, <2>2 DEF Touches, SameAt
    <3> QED BY <2>2, <3>1
  <2> QED BY <2>1, <2>2
<1> QED BY <1>1, <1>3, <1>4, <1>5 DEF BlockOut, Emptied

\* The loop over the members of deleteIPSetsAndReferences.
LEMMA BlocksEmpty ==
    ASSUME NEW b, NEW k, Fits(b, k), NEW p \in Policies,
           \A c \in BlocksOf(p) : ~Held(b, c[1])
    PROVE  Emptied(b, AllBlocksOut(b, BlocksOf(p)), k, BlocksOf(p))
<1> DEFINE S == BlocksOf(p)
           M == {m \in Manager : Fits(m, k) /\ \A c \in S : ~Held(m, c[1])}
           J == [X \in SUBSET S |-> {r \in Manager : Emptied(b, r, k, X)}]
<1>1. /\ IsFiniteSet(S)
      /\ \A c \in S : c[1] \in HashSets /\ c[2] \in IPs /\ c = <<c[1], c[2]>>
      /\ \A c \in S : ~Held(b, c[1])
  BY PolicySets DEF BlocksOf
<1> HIDE DEF S
<1>2. ASSUME NEW x \in S, NEW n \in M
      PROVE  /\ Emptied(n, RemoveFromSet(n, x[1], x[2], NoKey), k, {x})
             /\ RemoveFromSet(n, x[1], x[2], NoKey) \in Manager
  <2>1. BlockOut(n, RemoveFromSet(n, x[1], x[2], NoKey), k, x[1], x[2])
    BY <1>1, <1>2, BlockRemoved
  <2>2. {x} = {<<x[1], x[2]>>}
    BY <1>1
  <2>3. Emptied(n, RemoveFromSet(n, x[1], x[2], NoKey), k, {<<x[1], x[2]>>}) /\ RemoveFromSet(n, x[1], x[2], NoKey) \in Manager
    BY <2>1, BlockOutIsEmptied
  <2> QED BY <2>2, <2>3
<1>3. \A x \in S, n \in M : RemoveFromSet(n, x[1], x[2], NoKey) \in M
  BY <1>2 DEF Emptied, Held
<1>4. b \in M
  BY <1>1 DEF Fits
<1>5. b \in J[{}]
  BY <1>4 DEF Emptied
<1>6. ASSUME NEW X \in SUBSET S, NEW x \in S \ X, NEW n \in J[X]
      PROVE  RemoveFromSet(n, x[1], x[2], NoKey) \in J[X \cup {x}]
  <2> DEFINE r == RemoveFromSet(n, x[1], x[2], NoKey)
  <2>1. n \in Manager /\ Emptied(b, n, k, X)
    OBVIOUS
  <2>2. n \in M
    BY <1>1, <2>1 DEF Emptied, Held
  <2>3. Emptied(n, r, k, {x}) /\ r \in Manager
    BY <1>2, <2>2
  <2> HIDE DEF r, M
  <2>4. \A t, y : <<t, y>> \in X \cup {x} <=> <<t, y>> \in X \/ <<t, y>> \in {x}
    OBVIOUS
  <2>5. Emptied(b, r, k, X \cup {x})
    BY <2>1, <2>3, <2>4 DEF Emptied
  <2> QED BY <2>3, <2>5 DEF r
<1>7. AllBlocksOut(b, S) \in J[S]
  <2> HIDE DEF J, M
  <2> QED BY <1>1, <1>3, <1>4, <1>5, <1>6, BlocksOutLoop
<1>8. Emptied(b, AllBlocksOut(b, S), k, S)
  BY <1>7
<1> QED BY <1>8 DEF S

\* r is b without those sets of X that nothing uses.
Pruned(b, r, k, X) ==
    /\ Fits(r, k)
    /\ \A t : t \in DOMAIN r.setMap <=> t \in DOMAIN b.setMap /\ ~(t \in X /\ Unused(b, t))
    /\ \A t \in DOMAIN r.setMap : r.setMap[t] = b.setMap[t]
    /\ (\A t \in X : t \notin DOMAIN b.setMap \/ ~Unused(b, t)) => r = b

\* A set goes, and no other set changes.
LEMMA ClearedIsPruned ==
    ASSUME NEW k, NEW n \in Manager, NEW r, NEW s, Cleared(n, r, k, s)
    PROVE  Pruned(n, r, k, {s}) /\ r \in Manager
<1>1. Touches(n, r, s) /\ r \in Manager
  BY DEF Cleared, Touches
<1>2. (\A t \in DOMAIN n.setMap : t \in Sets) /\ (\A t \in DOMAIN r.setMap : t \in Sets)
  BY <1>1, ManagerFacts, MapFacts
<1>3. \A t : t \in DOMAIN r.setMap <=> t \in DOMAIN n.setMap /\ ~(t \in {s} /\ Unused(n, t))
  BY <1>1, <1>2 DEF Cleared, Touches, SameAt
<1>4. \A t \in DOMAIN r.setMap : r.setMap[t] = n.setMap[t]
  BY <1>1, <1>2 DEF Cleared, Touches, SameAt
<1> QED BY <1>1, <1>3, <1>4 DEF Cleared, Pruned

\* The loop that deletes the sets nothing uses.
LEMMA UnusedPruned ==
    ASSUME NEW b, NEW k, Fits(b, k), NEW S \in SUBSET Sets, IsFiniteSet(S)
    PROVE  Pruned(b, AllDeleted(b, S), k, S)
<1> DEFINE M == {m \in Manager : Fits(m, k)}
           J == [X \in SUBSET S |-> {r \in Manager : Pruned(b, r, k, X)}]
<1>2. ASSUME NEW x \in S, NEW n \in M
      PROVE  /\ Pruned(n, modifyCacheForCacheDeletion(n, x, "soft"), k, {x})
             /\ modifyCacheForCacheDeletion(n, x, "soft") \in Manager
  <2>1. Cleared(n, modifyCacheForCacheDeletion(n, x, "soft"), k, x)
    BY <1>2, SetCleared
  <2> QED BY <2>1, ClearedIsPruned
<1>3. \A x \in S, n \in M : modifyCacheForCacheDeletion(n, x, "soft") \in M
  BY <1>2 DEF Pruned
<1>4. b \in M
  BY DEF Fits
<1>5. b \in J[{}]
  BY <1>4 DEF Pruned
<1>6. ASSUME NEW X \in SUBSET S, NEW x \in S \ X, NEW n \in J[X]
      PROVE  modifyCacheForCacheDeletion(n, x, "soft") \in J[X \cup {x}]
  <2> DEFINE r == modifyCacheForCacheDeletion(n, x, "soft")
  <2>1. n \in Manager /\ Pruned(b, n, k, X)
    OBVIOUS
  <2>2. n \in M
    BY <2>1 DEF Pruned
  <2>3. Pruned(n, r, k, {x}) /\ r \in Manager
    BY <1>2, <2>2
  <2> HIDE DEF r, M
  <2>4. \A t \in DOMAIN n.setMap : Unused(n, t) <=> Unused(b, t)
    BY <2>1 DEF Pruned, Unused
  <2>5. \A t : t \in DOMAIN r.setMap <=> t \in DOMAIN b.setMap /\ ~(t \in X \cup {x} /\ Unused(b, t))
    BY <2>1, <2>3, <2>4 DEF Pruned
  <2>6. \A t \in DOMAIN r.setMap : r.setMap[t] = b.setMap[t]
    BY <2>1, <2>3 DEF Pruned
  <2>7. ASSUME \A t \in X \cup {x} : t \notin DOMAIN b.setMap \/ ~Unused(b, t) PROVE r = b
    <3>1. n = b
      BY <2>1, <2>7 DEF Pruned
    <3> QED BY <2>3, <2>7, <3>1 DEF Pruned
  <2>8. Pruned(b, r, k, X \cup {x})
    BY <2>3, <2>5, <2>6, <2>7 DEF Pruned
  <2> QED BY <2>3, <2>8 DEF r
<1>7. AllDeleted(b, S) \in J[S]
  <2> HIDE DEF J, M
  <2> QED BY <1>3, <1>4, <1>5, <1>6, ClearLoop
<1> QED BY <1>7

-----------------------------------------------------------------------------
(* A restore, seen from the sets of the policies *)

\* What a set that a policy refers to lacks in the kernel k is in the lines T.
CoveredAt(m, k, T, s) ==
    Held(m, s) =>
        /\ s \in DOMAIN k \/ Line("create", s, s) \in T
        /\ \A x \in DOMAIN m.setMap[s].ipPodKey :
              \/ s \in DOMAIN k /\ x \in k[s]
              \/ Line("add", s, x) \in T

\* From k to h nothing goes of the sets that policies refer to.
KeepsHeld(m, k, h) ==
    \A s \in Sets : Held(m, s) /\ s \in DOMAIN k => s \in DOMAIN h /\ k[s] \in SUBSET h[s]

\* The line l is done in the kernel h.
DoneIn(l, h) ==
    /\ \A s : l = Line("create", s, s) => s \in DOMAIN h
    /\ \A s, x : l = Line("add", s, x) => s \in DOMAIN h /\ x \in h[s]

\* A file has all that the dirty cache has.
LEMMA FileCovers ==
    ASSUME NEW m, NEW k, Fits(m, k)
    PROVE  \A s \in Sets : CoveredAt(m, k, fileCreatorForApply(m), s)
<1> SUFFICES ASSUME NEW s \in Sets PROVE CoveredAt(m, k, fileCreatorForApply(m), s)
  OBVIOUS
<1>1. PendingAt(m, k, s)
  BY DEF Fits, FitsAt
<1>2. Line("create", s, s) \in fileCreatorForApply(m) <=> s \in toAddOrUpdate(m)
  BY InFile
<1>3. \A x : Line("add", s, x) \in fileCreatorForApply(m) <=>
             s \in toAddOrUpdate(m) /\ x \in memberDiff(m, s).add
  BY InFile
<1> QED BY <1>1, <1>2, <1>3 DEF CoveredAt, PendingAt

\* As long as the kernel keeps these sets, the cache fits it.
LEMMA StillFits ==
    ASSUME NEW m, NEW k, NEW h, Fits(m, k), KeepsHeld(m, k, h)
    PROVE  Fits(m, h)
  BY DEF Fits, FitsAt, PendingAt, KeepsHeld

\* An accepted line takes nothing from a set that a policy refers to.
LEMMA LineKeepsHeld ==
    ASSUME Fits(mgr, kernel), kernel \in Kernels, NEW l \in fileCreatorForApply(mgr), Accepted(l)
    PROVE  KeepsHeld(mgr, kernel, Executed(l)) /\ DoneIn(l, Executed(l))
<1>0. mgr \in Manager /\ \A s \in Sets : KeptAt(mgr, s)
  BY DEF Fits, FitsAt
<1>1. \A s \in DOMAIN kernel : s \in Sets /\ kernel[s] \in SUBSET Elements
  BY MapFacts DEF Kernels
<1>2. \A v : \A s \in DOMAIN kernel :
         LET h == [kernel EXCEPT ![s] = v] IN
         DOMAIN h = DOMAIN kernel /\ h[s] = v /\ \A t \in DOMAIN kernel \ {s} : h[t] = kernel[t]
  OBVIOUS
<1>3. \A s \in toAddOrUpdate(mgr) : s \in Sets
  BY <1>0, DiffFacts DEF toAddOrUpdate
<1>4. \A s \in DOMAIN mgr.toDestroy : s \in Sets
  BY <1>0, DiffFacts
<1>5. LineKinds(mgr, l)
  BY FileKinds
<1> DEFINE h == Executed(l)
<1>6. CASE \E s \in toAddOrUpdate(mgr) : l = Line("create", s, s)
  <2>1. PICK s \in toAddOrUpdate(mgr) : l = Line("create", s, s)
    BY <1>6
  <2>2. h = IF s \in DOMAIN kernel THEN kernel ELSE Extended(kernel, s, {})
    BY <2>1, LineFacts DEF Executed
  <2>3. s \in Sets /\ {} \in SUBSET Elements
    BY <1>3
  <2>4. s \in DOMAIN h /\ \A t \in DOMAIN kernel : t \in DOMAIN h /\ h[t] = kernel[t]
    <3>1. IsWith(Extended(kernel, s, {}), kernel, s, {})
      BY <2>3, ExtendedFacts DEF Kernels
    <3>2. CASE s \in DOMAIN kernel
      BY <2>2, <3>2
    <3>3. CASE s \notin DOMAIN kernel
      <4>1. IsWith(h, kernel, s, {})
        BY <2>2, <3>1, <3>3
      <4> HIDE DEF h
      <4> QED BY <3>3, <4>1 DEF IsWith
    <3> QED BY <3>2, <3>3
  <2> HIDE DEF h
  <2>5. \A t, x : l # Line("add", t, x)
    BY <2>1, LineFacts
  <2>6. \A t : l = Line("create", t, t) => t = s
    BY <2>1, LineFacts
  <2>7. KeepsHeld(mgr, kernel, h) /\ DoneIn(l, h)
    BY <2>4, <2>5, <2>6 DEF KeepsHeld, DoneIn
  <2> QED BY <2>7 DEF h
<1>7. CASE \E s \in toAddOrUpdate(mgr) : \E x \in memberDiff(mgr, s).del : l = Line("del", s, x)
  <2>1. PICK s \in toAddOrUpdate(mgr) : \E x \in memberDiff(mgr, s).del : l = Line("del", s, x)
    BY <1>7
  <2>2. PICK x \in memberDiff(mgr, s).del : l = Line("del", s, x)
    BY <2>1
  <2>3. l.set = s /\ l.op = "del" /\ l.member = x
    BY <2>2, LineFacts
  <2>4. h = [kernel EXCEPT ![s] = kernel[s] \ {x}] /\ s \in DOMAIN kernel
    BY <2>3 DEF Executed, Accepted
  <2>5. ~Held(mgr, s)
    BY <1>0, <1>3 DEF KeptAt
  <2>6. DOMAIN h = DOMAIN kernel /\ \A t \in DOMAIN kernel \ {s} : h[t] = kernel[t]
    BY <1>2, <2>4
  <2>7. (\A t, y : l # Line("add", t, y)) /\ (\A t : l # Line("create", t, t))
    BY <2>2, LineFacts
  <2> HIDE DEF h
  <2>8. KeepsHeld(mgr, kernel, h) /\ DoneIn(l, h)
    BY <2>5, <2>6, <2>7 DEF KeepsHeld, DoneIn
  <2> QED BY <2>8 DEF h
<1>8. CASE \E s \in toAddOrUpdate(mgr) : \E x \in memberDiff(mgr, s).add : l = Line("add", s, x)
  <2>1. PICK s \in toAddOrUpdate(mgr) : \E x \in memberDiff(mgr, s).add : l = Line("add", s, x)
    BY <1>8
  <2>2. PICK x \in memberDiff(mgr, s).add : l = Line("add", s, x)
    BY <2>1
  <2>3. l.set = s /\ l.op = "add" /\ l.member = x
    BY <2>2, LineFacts
  <2>4. h = [kernel EXCEPT ![s] = kernel[s] \cup {x}] /\ s \in DOMAIN kernel
    BY <2>3 DEF Executed, Accepted
  <2>5. DOMAIN h = DOMAIN kernel /\ h[s] = kernel[s] \cup {x} /\ \A t \in DOMAIN kernel \ {s} : h[t] = kernel[t]
    BY <1>2, <2>4
  <2>6. \A t : l # Line("create", t, t)
    BY <2>2, LineFacts
  <2>7. \A t, y : l = Line("add", t, y) => t = s /\ y = x
    BY <2>2, LineFacts
  <2> HIDE DEF h
  <2>8. KeepsHeld(mgr, kernel, h) /\ DoneIn(l, h)
    BY <2>4, <2>5, <2>6, <2>7 DEF KeepsHeld, DoneIn
  <2> QED BY <2>8 DEF h
<1>9. CASE \E s \in DOMAIN mgr.toDestroy : l = Line("flush", s, s)
  <2>1. PICK s \in DOMAIN mgr.toDestroy : l = Line("flush", s, s)
    BY <1>9
  <2>2. l.set = s /\ l.op = "flush"
    BY <2>1, LineFacts
  <2>3. h = [kernel EXCEPT ![s] = {}] /\ s \in DOMAIN kernel
    BY <2>2 DEF Executed, Accepted
  <2>4. ~Held(mgr, s)
    BY <1>0, <1>4 DEF KeptAt
  <2>5. DOMAIN h = DOMAIN kernel /\ \A t \in DOMAIN kernel \ {s} : h[t] = kernel[t]
    BY <1>2, <2>3
  <2>6. (\A t, y : l # Line("add", t, y)) /\ (\A t : l # Line("create", t, t))
    BY <2>1, LineFacts
  <2> HIDE DEF h
  <2>7. KeepsHeld(mgr, kernel, h) /\ DoneIn(l, h)
    BY <2>4, <2>5, <2>6 DEF KeepsHeld, DoneIn
  <2> QED BY <2>7 DEF h
<1>10. CASE \E s \in DOMAIN mgr.toDestroy : l = Line("destroy", s, s)
  <2>1. PICK s \in DOMAIN mgr.toDestroy : l = Line("destroy", s, s)
    BY <1>10
  <2>2. l.set = s /\ l.op = "destroy"
    BY <2>1, LineFacts
  <2>3. h = Without(kernel, {s})
    BY <2>2 DEF Executed
  <2>4. ~Held(mgr, s)
    BY <1>0, <1>4 DEF KeptAt
  <2>5. \A t \in DOMAIN kernel \ {s} : t \in DOMAIN h /\ h[t] = kernel[t]
    <3>1. IsWithout(Without(kernel, {s}), kernel, s)
      BY WithoutFacts DEF Kernels
    <3>2. IsWithout(h, kernel, s)
      BY <2>3, <3>1
    <3> HIDE DEF h
    <3> QED BY <3>2 DEF IsWithout
  <2>6. (\A t, y : l # Line("add", t, y)) /\ (\A t : l # Line("create", t, t))
    BY <2>1, LineFacts
  <2> HIDE DEF h
  <2>7. KeepsHeld(mgr, kernel, h) /\ DoneIn(l, h)
    BY <2>4, <2>5, <2>6 DEF KeepsHeld, DoneIn
  <2> QED BY <2>7 DEF h
<1> QED BY <1>5, <1>6, <1>7, <1>8, <1>9, <1>10 DEF LineKinds

\* A line done, or found done, is not missed.
LEMMA LineNotMissed ==
    ASSUME NEW m, NEW k, NEW h, NEW T, NEW U, NEW l, KeepsHeld(m, k, h),
           \A s \in Sets : Held(m, s) =>
               /\ l = Line("create", s, s) => s \in DOMAIN h
               /\ \A x \in DOMAIN m.setMap[s].ipPodKey :
                     l = Line("add", s, x) => s \in DOMAIN h /\ x \in h[s],
           \A s \in Sets : CoveredAt(m, k, T, s),
           \A s, x : /\ Line("add", s, x) \in T => Line("add", s, x) \in U \cup {l}
                     /\ Line("create", s, x) \in T => Line("create", s, x) \in U \cup {l}
    PROVE  \A s \in Sets : CoveredAt(m, h, U, s)
<1> SUFFICES ASSUME NEW s \in Sets, Held(m, s)
             PROVE  /\ s \in DOMAIN h \/ Line("create", s, s) \in U
                    /\ \A x \in DOMAIN m.setMap[s].ipPodKey :
                          \/ s \in DOMAIN h /\ x \in h[s]
                          \/ Line("add", s, x) \in U
  BY DEF CoveredAt
<1>1. /\ s \in DOMAIN k \/ Line("create", s, s) \in T
      /\ \A x \in DOMAIN m.setMap[s].ipPodKey :
            (s \in DOMAIN k /\ x \in k[s]) \/ Line("add", s, x) \in T
  BY DEF CoveredAt
<1>2. s \in DOMAIN k => s \in DOMAIN h /\ k[s] \in SUBSET h[s]
  BY DEF KeepsHeld
<1>3. s \in DOMAIN h \/ Line("create", s, s) \in U
  BY <1>1, <1>2
<1>4. ASSUME NEW x \in DOMAIN m.setMap[s].ipPodKey
      PROVE  (s \in DOMAIN h /\ x \in h[s]) \/ Line("add", s, x) \in U
  BY <1>1, <1>2
<1> QED BY <1>3, <1>4

\* The cache and the kernel, a restore under way or not.
KernelInv ==
    /\ Fits(mgr, kernel) /\ kernel \in Kernels
    /\ restore.todo \in SUBSET fileCreatorForApply(mgr)
    /\ restore.done \in SUBSET fileCreatorForApply(mgr)
    /\ restore.on => \A s \in Sets : CoveredAt(mgr, kernel, restore.todo, s)
    /\ ~restore.on => restore.todo = {} /\ restore.done = {}

\* A line runs.
LEMMA LineRunsKernel ==
    ASSUME KernelInv, RestoreShape(restore), NEW l \in restore.todo, LineRuns(l)
    PROVE  KernelInv' /\ KeepsHeld(mgr, kernel, kernel')
<1>1. /\ Accepted(l) /\ mgr' = mgr /\ kernel' = Executed(l)
      /\ restore' = [restore EXCEPT !.todo = restore.todo \ {l}, !.done = restore.done \cup {l}]
  BY DEF LineRuns
<1>2. restore'.on = restore.on /\ restore'.todo = restore.todo \ {l} /\ restore'.done = restore.done \cup {l}
  BY <1>1 DEF RestoreShape
<1>3. restore.on /\ l \in fileCreatorForApply(mgr)
  BY DEF KernelInv
<1>4. KeepsHeld(mgr, kernel, kernel') /\ DoneIn(l, kernel')
  BY <1>1, <1>3, LineKeepsHeld DEF KernelInv
<1>5. kernel' \in Kernels
  BY <1>1, <1>3, ExecutedIsKernel DEF KernelInv, Fits
<1>6. Fits(mgr', kernel')
  BY <1>1, <1>4, StillFits DEF KernelInv
<1>7. \A s \in Sets : CoveredAt(mgr, kernel, restore.todo, s)
  BY <1>3 DEF KernelInv
<1>8. \A s \in Sets : Held(mgr, s) =>
               /\ l = Line("create", s, s) => s \in DOMAIN kernel'
               /\ \A x \in DOMAIN mgr.setMap[s].ipPodKey :
                     l = Line("add", s, x) => s \in DOMAIN kernel' /\ x \in kernel'[s]
  BY <1>4 DEF DoneIn
<1>9. \A s, x : /\ Line("add", s, x) \in restore.todo => Line("add", s, x) \in restore'.todo \cup {l}
                /\ Line("create", s, x) \in restore.todo => Line("create", s, x) \in restore'.todo \cup {l}
  BY <1>2
<1>10. \A s \in Sets : CoveredAt(mgr, kernel', restore'.todo, s)
  BY <1>4, <1>7, <1>8, <1>9, LineNotMissed
<1>11. /\ restore'.todo \in SUBSET fileCreatorForApply(mgr')
       /\ restore'.done \in SUBSET fileCreatorForApply(mgr')
  BY <1>1, <1>2, <1>3 DEF KernelInv
<1>12. restore'.on
  BY <1>2, <1>3
<1> QED BY <1>1, <1>4, <1>5, <1>6, <1>10, <1>11, <1>12 DEF KernelInv

\* A line the kernel refuses is skipped: what it was to bring is there.
LEMMA LineSkippedKernel ==
    ASSUME KernelInv, RestoreShape(restore), NEW l \in restore.todo, LineSkipped(l)
    PROVE  KernelInv' /\ KeepsHeld(mgr, kernel, kernel')
<1> DEFINE U == restore.todo \ ({l} \cup Aborted(l))
<1>1. /\ Next1(l) /\ ~Accepted(l) /\ mgr' = mgr /\ kernel' = kernel
      /\ restore' = [restore EXCEPT !.todo = U, !.done = {}, !.try = restore.try + 1]
  BY DEF LineSkipped
<1>2. restore'.on = restore.on /\ restore'.todo = U /\ restore'.done = {}
  <2> HIDE DEF U
  <2> QED BY <1>1 DEF RestoreShape
<1>3. restore.on
  BY DEF KernelInv
<1>4. KeepsHeld(mgr, kernel, kernel)
  BY DEF KeepsHeld
<1>5. \A s \in Sets : CoveredAt(mgr, kernel, restore.todo, s)
  BY <1>3 DEF KernelInv
<1>6. \A s : l # Line("create", s, s)
  <2> SUFFICES ASSUME NEW s, l = Line("create", s, s) PROVE FALSE
    OBVIOUS
  <2>1. l.op = "create"
    BY LineFacts
  <2> QED BY <1>1, <2>1 DEF Accepted
<1>7. ASSUME NEW s \in Sets, Held(mgr, s), NEW x \in DOMAIN mgr.setMap[s].ipPodKey, l = Line("add", s, x)
      PROVE  s \in DOMAIN kernel /\ x \in kernel[s]
  <2>1. l.op = "add" /\ l.set = s /\ l.member = x
    BY <1>7, LineFacts
  <2>2. Line("create", s, s) \notin restore.todo
    BY <1>1, <1>7, OrderFacts DEF Next1
  <2>3. s \in DOMAIN kernel
    BY <1>5, <1>7, <2>2 DEF CoveredAt
  <2>4. x \in IPs
    <3>1. PlainAt(mgr, s)
      BY DEF KernelInv, Fits, FitsAt
    <3>2. s \in HashSets /\ x \in Blocks[s]
      BY <1>7, <3>1 DEF PlainAt, Held
    <3> QED BY <3>2, DataPlaneAssumption
  <2> QED BY <1>1, <2>1, <2>3, <2>4 DEF Accepted
<1>8. \A s \in Sets : Held(mgr, s) =>
               /\ l = Line("create", s, s) => s \in DOMAIN kernel
               /\ \A x \in DOMAIN mgr.setMap[s].ipPodKey :
                     l = Line("add", s, x) => s \in DOMAIN kernel /\ x \in kernel[s]
  BY <1>6, <1>7
<1>9. \A k \in Aborted(l) : k.op = "destroy"
  BY DEF Aborted
<1>10. \A s, x : /\ Line("add", s, x) \in restore.todo => Line("add", s, x) \in U \cup {l}
                 /\ Line("create", s, x) \in restore.todo => Line("create", s, x) \in U \cup {l}
  <2>1. \A s, x : Line("add", s, x).op = "add" /\ Line("create", s, x).op = "create"
    BY LineFacts
  <2> QED BY <1>9, <2>1
<1>11. U \in SUBSET fileCreatorForApply(mgr)
  BY DEF KernelInv
<1> HIDE DEF U
<1>12. \A s \in Sets : CoveredAt(mgr, kernel, U, s)
  BY <1>4, <1>5, <1>8, <1>10, LineNotMissed
<1> QED BY <1>1, <1>2, <1>3, <1>4, <1>11, <1>12 DEF KernelInv

\* The file is run again from where it was.
LEMMA RerunKernel ==
    ASSUME KernelInv, RestoreShape(restore), Rerun
    PROVE  KernelInv' /\ KeepsHeld(mgr, kernel, kernel')
<1>1. /\ restore.on /\ mgr' = mgr /\ kernel' = kernel
      /\ restore' = [restore EXCEPT !.todo = restore.todo \cup restore.done, !.done = {}, !.try = restore.try + 1]
  BY DEF Rerun, MayBreak
<1>2. restore'.on = restore.on /\ restore'.todo = restore.todo \cup restore.done /\ restore'.done = {}
  BY <1>1 DEF RestoreShape
<1>3. \A s \in Sets : CoveredAt(mgr, kernel, restore'.todo, s)
  BY <1>1, <1>2 DEF KernelInv, CoveredAt
<1>4. restore'.todo \in SUBSET fileCreatorForApply(mgr)
  BY <1>2 DEF KernelInv
<1>5. KeepsHeld(mgr, kernel, kernel')
  BY <1>1 DEF KeepsHeld
<1> QED BY <1>1, <1>2, <1>3, <1>4, <1>5 DEF KernelInv

\* A step of the restore takes nothing from the sets that policies refer to.
LEMMA RestoreRunsKernel ==
    ASSUME KernelInv, RestoreShape(restore), RestoreRuns
    PROVE  KernelInv' /\ KeepsHeld(mgr, kernel, kernel') /\ mgr' = mgr
<1>1. mgr' = mgr
  BY DEF RestoreRuns, Rerun, LineRuns, LineSkipped
<1> QED BY <1>1, RerunKernel, LineRunsKernel, LineSkippedKernel DEF RestoreRuns

\* The restore begins.
LEMMA ApplyIPSetsKernel ==
    ASSUME KernelInv, ApplyIPSets
    PROVE  KernelInv' /\ mgr' = mgr /\ kernel' = kernel
<1>1. /\ restore' = [on |-> TRUE, todo |-> fileCreatorForApply(mgr), done |-> {}, try |-> 1]
      /\ mgr' = mgr /\ kernel' = kernel
  BY DEF ApplyIPSets
<1>2. restore'.on /\ restore'.todo = fileCreatorForApply(mgr) /\ restore'.done = {}
  BY <1>1
<1>3. \A s \in Sets : CoveredAt(mgr, kernel, fileCreatorForApply(mgr), s)
  BY FileCovers DEF KernelInv
<1> QED BY <1>1, <1>2, <1>3 DEF KernelInv

\* The restore fails, and the dirty cache is kept.
LEMMA ApplyFailsKernel ==
    ASSUME KernelInv, ApplyFails
    PROVE  KernelInv' /\ mgr' = mgr /\ kernel' = kernel
<1>1. restore' = NoRestore /\ mgr' = mgr /\ kernel' = kernel
  BY DEF ApplyFails
<1> QED BY <1>1, NoRestoreFacts DEF KernelInv

\* With all lines done the kernel has what the policies need, and nothing is dirty.
LEMMA ApplySucceedsKernel ==
    ASSUME KernelInv, ApplySucceeds
    PROVE  KernelInv' /\ mgr'.setMap = mgr.setMap /\ Dirty(mgr') = {} /\ kernel' = kernel
<1> DEFINE r == [NewIPSetManager(mgr.mode) EXCEPT !.setMap = mgr.setMap]
<1>1. restore.on /\ restore.todo = {} /\ restore' = NoRestore /\ mgr' = r /\ kernel' = kernel
  BY DEF ApplySucceeds
<1>2. mgr \in Manager
  BY DEF KernelInv, Fits
<1>3. r = [mode |-> mgr.mode, setMap |-> mgr.setMap, toCreate |-> << >>, toUpdate |-> << >>,
           toDestroy |-> << >>]
  BY DEF NewIPSetManager
<1>4. << >> \in Maps(Sets, Diffs) /\ DOMAIN << >> = {}
  BY EmptyMap
<1> HIDE DEF r
<1>5. r \in Manager
  BY <1>2, <1>3, <1>4, ManagerFacts DEF Manager
<1>6. /\ r.setMap = mgr.setMap /\ DOMAIN r.toCreate = {} /\ DOMAIN r.toUpdate = {} /\ DOMAIN r.toDestroy = {}
  BY <1>3, <1>4
<1>7. toAddOrUpdate(r) = {} /\ Dirty(r) = {}
  BY <1>6 DEF toAddOrUpdate, Dirty
<1>8. \A s : memberDiff(r, s).del = {}
  BY <1>6 DEF memberDiff, newMemberDiff
<1>9. ASSUME NEW s \in Sets PROVE FitsAt(r, kernel, s)
  <2>1. PlainAt(mgr, s) /\ CoveredAt(mgr, kernel, {}, s)
    BY <1>1 DEF KernelInv, Fits, FitsAt
  <2>2. Held(r, s) <=> Held(mgr, s)
    BY <1>6 DEF Held
  <2>3. PlainAt(r, s)
    BY <1>6, <2>1 DEF PlainAt
  <2>4. KeptAt(r, s)
    BY <1>6, <1>7, <1>8 DEF KeptAt, InOneMap
  <2>5. PendingAt(r, kernel, s)
    BY <1>6, <2>1, <2>2 DEF PendingAt, CoveredAt
  <2> QED BY <2>3, <2>4, <2>5 DEF FitsAt
<1>10. Fits(r, kernel)
  BY <1>5, <1>9 DEF Fits
<1> QED BY <1>1, <1>6, <1>7, <1>10, NoRestoreFacts DEF KernelInv

\* A manager without sets, and an empty kernel.
LEMMA EmptyFits ==
    ASSUME NEW mode \in Modes
    PROVE  /\ Fits(NewIPSetManager(mode), << >>) /\ << >> \in Kernels
           /\ DOMAIN NewIPSetManager(mode).setMap = {} /\ DOMAIN NewIPSetManager(mode).toDestroy = {}
<1> DEFINE m == NewIPSetManager(mode)
<1>1. Sound(m) /\ << >> \in Kernels
  BY NewManagerFacts
<1>2. /\ m.setMap = << >> /\ m.toCreate = << >> /\ m.toUpdate = << >> /\ m.toDestroy = << >>
  BY DEF NewIPSetManager
<1> HIDE DEF m
<1>3. DOMAIN m.setMap = {} /\ DOMAIN m.toCreate = {} /\ DOMAIN m.toUpdate = {} /\ DOMAIN m.toDestroy = {}
  BY <1>2, EmptyMap
<1>4. \A s \in Sets : FitsAt(m, << >>, s)
  BY <1>3 DEF FitsAt, PlainAt, KeptAt, PendingAt, Held, InOneMap, toAddOrUpdate
<1>5. Fits(m, << >>)
  BY <1>1, <1>4 DEF Fits, Sound
<1> QED BY <1>1, <1>3, <1>5 DEF m

-----------------------------------------------------------------------------
(* The policy thread by itself *)

\* The cached sets refer to p, and have its blocks; the kernel has both.
RefersTo(m, p) == \A s \in SetsOf[p] : s \in DOMAIN m.setMap /\ p \in m.setMap[s].refs
HasBlocks(m, p) == \A s \in SetsOf[p] : Blocks[s] \in SUBSET DOMAIN m.setMap[s].ipPodKey
InKernel(k, p) == \A s \in SetsOf[p] : s \in DOMAIN k /\ Blocks[s] \in SUBSET k[s]

\* Only a removal under way leaves a set that no policy refers to, and only a removal
\* under way or failed leaves sets to destroy.
CacheInv ==
    /\ \A s \in DOMAIN mgr.setMap :
          mgr.setMap[s].refs # {} \/ (np.pc = "unmember" /\ s \in SetsOf[np.now])
    /\ np.pc = "unmember" =>
          \A s \in SetsOf[np.now] : s \in DOMAIN mgr.setMap => np.now \notin mgr.setMap[s].refs
    /\ DOMAIN mgr.toDestroy # {} => removeFailed \/ np.pc \in {"unmember", "unapply"}
    /\ apply["netpol"] \in {"applied", "ok"} \/ np.pc = "rules" => Dirty(mgr) = {}

\* Where the thread is.
ThreadInv ==
    /\ np.pc \in {"references", "members", "apply", "rules"} => ~removeFailed
    /\ apply["netpol"] = "ok" => ~removeFailed
    /\ np.pc = "rules" => np.left = {}
    /\ np.pc \in {"members", "apply"} => np.now \in np.policies \ np.left
    /\ np.pc \in {"unrule", "unrefer", "unmember", "unapply"} => np.policies = {}
    /\ np.pc \in {"unrefer", "unmember", "unapply"} => np.now \notin installed

\* What the policies with rules, and those under way, have.
PolicyInv ==
    /\ \A p \in installed \cup (np.policies \ np.left) :
          RefersTo(mgr, p) /\ (HasBlocks(mgr, p) \/ (np.pc = "members" /\ p = np.now))
    /\ \A p \in installed : InKernel(kernel, p)

RInv == KernelInv /\ CacheInv /\ ThreadInv /\ PolicyInv

Alone == Threads = {"netpol"}

\* Outside the loops of a removal every cached set is referred to.
LEMMA AllHeld ==
    ASSUME CacheInv, np.pc # "unmember"
    PROVE  HeldAll(mgr)
  BY DEF CacheInv, HeldAll

\* Outside the loops of an addition the policies have all they need in the cache.
LEMMA AllCached ==
    ASSUME PolicyInv, np.pc # "members"
    PROVE  \A p \in installed \cup (np.policies \ np.left) : RefersTo(mgr, p) /\ HasBlocks(mgr, p)
  BY DEF PolicyInv

\* The thread is between two loops, its cache and kernel as they should be.
LEMMA BetweenLoops ==
    ASSUME np'.pc \in {"idle", "precaution", "references", "unrule", "rules"},
           apply'["netpol"] \in {"no", "called"},
           HeldAll(mgr'), DOMAIN mgr'.toDestroy # {} => removeFailed',
           np'.pc \in {"references", "rules"} => ~removeFailed',
           np'.pc = "rules" => np'.left = {} /\ Dirty(mgr') = {},
           np'.pc = "unrule" => np'.policies = {},
           \A p \in installed' \cup (np'.policies \ np'.left) : RefersTo(mgr', p) /\ HasBlocks(mgr', p),
           \A p \in installed' : InKernel(kernel', p)
    PROVE  CacheInv' /\ ThreadInv' /\ PolicyInv'
<1>1. CacheInv'
  BY DEF CacheInv, HeldAll
<1>2. ThreadInv'
  BY DEF ThreadInv
<1>3. PolicyInv'
  BY DEF PolicyInv
<1> QED BY <1>1, <1>2, <1>3

\* Nothing of it depends on the queue, the failures or the faults.
LEMMA RInvStays ==
    ASSUME RInv, UNCHANGED <<mgr, kernel, restore, installed, removeFailed, np, apply>>
    PROVE  RInv'
  BY DEF RInv, KernelInv, CacheInv, ThreadInv, PolicyInv

\* The cache, the kernel and the restore stay.
LEMMA KernelStays ==
    ASSUME KernelInv, UNCHANGED <<mgr, kernel, restore>>
    PROVE  KernelInv'
  BY DEF KernelInv

\* What is clean is in the kernel.
LEMMA CleanIsInKernel ==
    ASSUME Fits(mgr, kernel), Dirty(mgr) = {}, NEW p \in Policies, RefersTo(mgr, p), HasBlocks(mgr, p)
    PROVE  InKernel(kernel, p)
<1> SUFFICES ASSUME NEW s \in SetsOf[p] PROVE s \in DOMAIN kernel /\ Blocks[s] \in SUBSET kernel[s]
  BY DEF InKernel
<1>1. s \in Sets
  BY PolicySets
<1>2. PendingAt(mgr, kernel, s) /\ s \notin toAddOrUpdate(mgr)
  BY <1>1 DEF Fits, FitsAt, Dirty
<1>3. Held(mgr, s) /\ Blocks[s] \in SUBSET DOMAIN mgr.setMap[s].ipPodKey
  BY DEF RefersTo, HasBlocks, Held
<1> QED BY <1>2, <1>3 DEF PendingAt

\* The rules of a policy hold on to its sets as long as the kernel keeps them.
LEMMA RulesKept ==
    ASSUME NEW p \in Policies, RefersTo(mgr, p), InKernel(kernel, p), KeepsHeld(mgr, kernel, kernel')
    PROVE  InKernel(kernel', p)
<1> SUFFICES ASSUME NEW s \in SetsOf[p] PROVE s \in DOMAIN kernel' /\ Blocks[s] \in SUBSET kernel'[s]
  BY DEF InKernel
<1>1. s \in Sets
  BY PolicySets
<1>2. Held(mgr, s) /\ s \in DOMAIN kernel /\ Blocks[s] \in SUBSET kernel[s]
  BY DEF RefersTo, InKernel, Held
<1> QED BY <1>1, <1>2 DEF KeepsHeld

-----------------------------------------------------------------------------
(* The steps that leave the sets alone *)

\* AddPolicy, RemovePolicy and UpdatePolicy.
LEMMA EventsKeepRInv ==
    ASSUME DInv, RInv, NEW p \in Policies, AddPolicy(p) \/ RemovePolicy(p) \/ UpdatePolicy(p)
    PROVE  RInv'
<1>0. UNCHANGED <<mgr, kernel, restore, installed, removeFailed, apply>> /\ np.pc = "idle"
  BY DEF AddPolicy, RemovePolicy, UpdatePolicy, nvars
<1>1. CASE np' = np
  BY <1>0, <1>1, RInvStays
<1>2. CASE \E b \in BOOLEAN : np' = [Idle EXCEPT !.pc = "unrule", !.now = p, !.readd = b]
  <2>1. np'.pc = "unrule" /\ np'.policies = {} /\ np'.left = {}
    BY <1>2 DEF Idle
  <2>2. KernelInv'
    BY <1>0, KernelStays DEF RInv
  <2>3. HeldAll(mgr) /\ \A q \in installed : RefersTo(mgr, q) /\ HasBlocks(mgr, q) /\ InKernel(kernel, q)
    BY <1>0, AllHeld, AllCached DEF RInv, PolicyInv
  <2>4. DOMAIN mgr.toDestroy # {} => removeFailed
    BY <1>0 DEF RInv, CacheInv
  <2>5. apply["netpol"] = "no"
    BY <1>0, NetPolFacts DEF Calling
  <2>6. /\ np'.pc \in {"idle", "precaution", "references", "unrule", "rules"}
        /\ apply'["netpol"] \in {"no", "called"}
        /\ HeldAll(mgr') /\ (DOMAIN mgr'.toDestroy # {} => removeFailed')
        /\ np'.pc # "references" /\ np'.pc # "rules"
        /\ \A q \in installed' \cup (np'.policies \ np'.left) : RefersTo(mgr', q) /\ HasBlocks(mgr', q)
        /\ \A q \in installed' : InKernel(kernel', q)
    BY <1>0, <2>1, <2>3, <2>4, <2>5
  <2>7. CacheInv' /\ ThreadInv' /\ PolicyInv'
    BY <2>1, <2>6, BetweenLoops
  <2> QED BY <2>2, <2>7 DEF RInv
<1>3. AddPolicy(p) => np' = np
  BY DEF AddPolicy
<1>4. RemovePolicy(p) => np' = np \/ np' = [Idle EXCEPT !.pc = "unrule", !.now = p, !.readd = FALSE]
  BY DEF RemovePolicy, Idle
<1>5. UpdatePolicy(p) => np' = [Idle EXCEPT !.pc = "unrule", !.now = p, !.readd = TRUE]
  BY DEF UpdatePolicy
<1> QED BY <1>1, <1>2, <1>3, <1>4, <1>5

\* A step between two loops of the thread.
LEMMA RestsAgain ==
    ASSUME RInv, UNCHANGED <<mgr, kernel, restore>>, np.pc \notin {"members", "unmember"},
           np'.pc \in {"idle", "precaution", "references", "unrule", "rules"},
           apply'["netpol"] \in {"no", "called"},
           DOMAIN mgr.toDestroy # {} => removeFailed',
           np'.pc \in {"references", "rules"} => ~removeFailed',
           np'.pc = "rules" => np'.left = {} /\ Dirty(mgr) = {},
           np'.pc = "unrule" => np'.policies = {},
           installed' \cup (np'.policies \ np'.left) \in SUBSET (installed \cup (np.policies \ np.left)),
           \A p \in installed' : InKernel(kernel, p)
    PROVE  RInv'
<1>1. KernelInv'
  BY KernelStays DEF RInv
<1>2. HeldAll(mgr) /\ \A p \in installed \cup (np.policies \ np.left) : RefersTo(mgr, p) /\ HasBlocks(mgr, p)
  BY AllHeld, AllCached DEF RInv
<1>3. /\ HeldAll(mgr') /\ (DOMAIN mgr'.toDestroy # {} => removeFailed')
      /\ (np'.pc = "rules" => np'.left = {} /\ Dirty(mgr') = {})
      /\ \A p \in installed' \cup (np'.policies \ np'.left) : RefersTo(mgr', p) /\ HasBlocks(mgr', p)
      /\ \A p \in installed' : InKernel(kernel', p)
  BY <1>2
<1>4. CacheInv' /\ ThreadInv' /\ PolicyInv'
  BY <1>3, BetweenLoops
<1> QED BY <1>1, <1>4 DEF RInv

\* The call of apply after a step that sets it.
LEMMA NetPolCall ==
    ASSUME DInv, NEW v, apply' = [apply EXCEPT !["netpol"] = v]
    PROVE  apply'["netpol"] = v
  BY DEF DInv, CallInv

\* What the start of addPolicies leaves.
LEMMA AddingShape ==
    ASSUME DInv, NEW P, NEW batch, NEW R, Adding(P, batch, R)
    PROVE  /\ np'.pc \in {"precaution", "references"} /\ np'.policies = P /\ np'.left = P
           /\ np'.pc = "references" => ~removeFailed
           /\ apply'["netpol"] \in {"no", "called"}
<1>1. removeFailed \in BOOLEAN
  BY NetPolFacts
<1>2. np' = [Idle EXCEPT !.pc = IF removeFailed THEN "precaution" ELSE "references",
                          !.policies = P, !.left = P, !.batch = batch, !.retry = R]
  BY DEF Adding
<1>3. np'.pc = (IF removeFailed THEN "precaution" ELSE "references") /\ np'.policies = P /\ np'.left = P
  BY <1>2 DEF Idle
<1>4. apply'["netpol"] = IF removeFailed THEN "called" ELSE "no"
  BY NetPolCall DEF Adding
<1> QED BY <1>1, <1>3, <1>4

\* What AddNext leaves.
LEMMA AddNextShape ==
    ASSUME DInv, AddNext
    PROVE  /\ np'.pc \in {"idle", "precaution", "references"} /\ np'.policies \ np'.left = {}
           /\ np'.pc = "references" => ~removeFailed
           /\ apply'["netpol"] \in {"no", "called"}
<1>1. ASSUME NEW p \in np.retry, Adding({p}, FALSE, np.retry \ {p})
      PROVE  /\ np'.pc \in {"precaution", "references"} /\ np'.policies = {p} /\ np'.left = {p}
             /\ np'.pc = "references" => ~removeFailed
             /\ apply'["netpol"] \in {"no", "called"}
  BY <1>1, AddingShape
<1>2. CASE np' = Idle /\ ApplyTaken
  <2>1. apply'["netpol"] = "no"
    BY <1>2, NetPolCall DEF ApplyTaken
  <2> QED BY <1>2, <2>1, IdleIsNetPol
<1> QED BY <1>1, <1>2 DEF AddNext

\* addPoliciesWithRetry begins, the precaution is done, the sets of a policy are
\* applied, the rules go in, or one of these fails.
LEMMA AddsKeepRInv ==
    ASSUME DInv, RInv, addPoliciesWithRetry \/ PrecautionDone \/ SetsApplied \/ AddRules \/ AddFails
    PROVE  RInv'
<1> USE NetPolFacts
<1>0. UNCHANGED <<mgr, kernel, restore, removeFailed>>
  BY DEF addPoliciesWithRetry, PrecautionDone, SetsApplied, AddRules, AddFails, nvars
<1>1. \A p \in installed : InKernel(kernel, p)
  BY DEF RInv, PolicyInv
<1>2. CASE addPoliciesWithRetry
  <2>1. np.pc = "idle" /\ UNCHANGED installed /\ Adding(queue, TRUE, queue)
    BY <1>2 DEF addPoliciesWithRetry
  <2>2. /\ np'.pc \in {"precaution", "references"} /\ np'.policies = queue /\ np'.left = queue
        /\ np'.pc = "references" => ~removeFailed
        /\ apply'["netpol"] \in {"no", "called"}
    BY <2>1, AddingShape
  <2>3. DOMAIN mgr.toDestroy # {} => removeFailed'
    BY <1>0, <2>1 DEF RInv, CacheInv
  <2> QED BY <1>0, <1>1, <2>1, <2>2, <2>3, RestsAgain
<1>3. CASE PrecautionDone
  <2>1. /\ np.pc = "precaution" /\ apply["netpol"] = "ok" /\ UNCHANGED installed
        /\ np' = [np EXCEPT !.pc = "references"] /\ apply' = [apply EXCEPT !["netpol"] = "no"]
    BY <1>3 DEF PrecautionDone, Applied, ApplyTaken
  <2>2. np'.pc = "references" /\ np'.policies = np.policies /\ np'.left = np.left
    BY <2>1 DEF NetPol
  <2>3. apply'["netpol"] = "no"
    BY <2>1, NetPolCall
  <2>4. ~removeFailed' /\ DOMAIN mgr.toDestroy = {}
    BY <1>0, <2>1 DEF RInv, ThreadInv, CacheInv, Dirty
  <2> QED BY <1>0, <1>1, <2>1, <2>2, <2>3, <2>4, RestsAgain
<1>4. CASE SetsApplied
  <2>1. /\ np.pc = "apply" /\ apply["netpol"] = "ok" /\ UNCHANGED installed
        /\ np' = [np EXCEPT !.pc = IF np.left = {} THEN "rules" ELSE "references"]
        /\ apply' = [apply EXCEPT !["netpol"] = "no"]
    BY <1>4 DEF SetsApplied, Applied, ApplyTaken
  <2>2. /\ np'.pc = (IF np.left = {} THEN "rules" ELSE "references")
        /\ np'.policies = np.policies /\ np'.left = np.left
    BY <2>1 DEF NetPol
  <2>3. apply'["netpol"] = "no"
    BY <2>1, NetPolCall
  <2>4. ~removeFailed' /\ DOMAIN mgr.toDestroy = {} /\ Dirty(mgr) = {}
    BY <1>0, <2>1 DEF RInv, ThreadInv, CacheInv, Dirty
  <2> QED BY <1>0, <1>1, <2>1, <2>2, <2>3, <2>4, RestsAgain
<1>5. CASE AddRules
  <2>1. np.pc = "rules" /\ installed' = installed \cup np.policies
    BY <1>5 DEF AddRules
  <2>2. np.left = {} /\ ~removeFailed /\ Dirty(mgr) = {} /\ DOMAIN mgr.toDestroy = {}
    BY <2>1 DEF RInv, ThreadInv, CacheInv, Dirty
  <2>3. /\ np'.pc \in {"idle", "precaution", "references"} /\ np'.policies \ np'.left = {}
        /\ apply'["netpol"] \in {"no", "called"}
    <3>1. CASE np.batch
      <4>1. np' = Idle /\ UNCHANGED apply
        BY <1>5, <3>1 DEF AddRules
      <4>2. apply["netpol"] = "no"
        BY <2>1 DEF Calling
      <4> QED BY <4>1, <4>2, IdleIsNetPol
    <3>2. CASE ~np.batch
      <4>1. AddNext
        BY <1>5, <3>2 DEF AddRules
      <4> QED BY <4>1, AddNextShape
    <3> QED BY <3>1, <3>2
  <2>4. \A p \in np.policies : InKernel(kernel, p)
    <3> SUFFICES ASSUME NEW p \in np.policies PROVE InKernel(kernel, p)
      OBVIOUS
    <3>1. p \in Policies /\ p \in np.policies \ np.left
      BY <2>2
    <3>2. RefersTo(mgr, p) /\ HasBlocks(mgr, p)
      BY <2>1, <3>1, AllCached DEF RInv
    <3> QED BY <2>2, <3>1, <3>2, CleanIsInKernel DEF RInv, KernelInv
  <2>5. \A p \in installed' : InKernel(kernel, p)
    BY <1>1, <2>1, <2>4
  <2> QED BY <1>0, <2>1, <2>2, <2>3, <2>5, RestsAgain
<1>6. CASE AddFails
  <2>1. np.pc \in {"precaution", "apply", "rules"} /\ UNCHANGED installed /\ AddNext
    BY <1>6 DEF AddFails, ApplyFailed
  <2>2. /\ np'.pc \in {"idle", "precaution", "references"} /\ np'.policies \ np'.left = {}
        /\ np'.pc = "references" => ~removeFailed
        /\ apply'["netpol"] \in {"no", "called"}
    BY <2>1, AddNextShape
  <2>3. DOMAIN mgr.toDestroy # {} => removeFailed'
    BY <1>0, <2>1 DEF RInv, CacheInv
  <2> QED BY <1>0, <1>1, <2>1, <2>2, <2>3, RestsAgain
<1> QED BY <1>2, <1>3, <1>4, <1>5, <1>6

\* The rules of a policy go out, and the removal ends or fails.
LEMMA RemovesKeepRInv ==
    ASSUME DInv, RInv, RemoveRules \/ Removed \/ RemoveFails
    PROVE  RInv'
<1> USE NetPolFacts
<1>0. UNCHANGED <<mgr, kernel, restore>>
  BY DEF RemoveRules, Removed, RemoveFails, nvars
<1>1. \A p \in installed : InKernel(kernel, p)
  BY DEF RInv, PolicyInv
<1>2. CASE RemoveRules /\ np' = Idle /\ UNCHANGED installed
  <2>1. np.pc = "unrule" /\ UNCHANGED <<removeFailed, apply, installed>>
    BY <1>2 DEF RemoveRules
  <2>2. apply["netpol"] = "no"
    BY <2>1 DEF Calling
  <2>3. DOMAIN mgr.toDestroy # {} => removeFailed'
    BY <1>0, <2>1 DEF RInv, CacheInv
  <2> QED BY <1>0, <1>1, <1>2, <2>1, <2>2, <2>3, RestsAgain, IdleIsNetPol
<1>3. CASE RemoveRules /\ installed' = installed \ {np.now} /\ np' = [np EXCEPT !.pc = "unrefer"]
  <2>1. np.pc = "unrule" /\ UNCHANGED <<removeFailed, apply>>
    BY <1>3 DEF RemoveRules
  <2>2. np'.pc = "unrefer" /\ np'.now = np.now /\ np'.policies = np.policies /\ np'.left = np.left
    BY <1>3 DEF NetPol
  <2>3. apply["netpol"] = "no" /\ np.policies = {}
    BY <2>1 DEF Calling, RInv, ThreadInv
  <2>4. KernelInv'
    BY <1>0, KernelStays DEF RInv
  <2>5. CacheInv'
    BY <1>0, <2>1, <2>2, <2>3 DEF RInv, CacheInv
  <2>6. ThreadInv'
    BY <1>3, <2>1, <2>2, <2>3 DEF ThreadInv
  <2>7. PolicyInv'
    BY <1>0, <1>3, <2>1, <2>2, <2>3, AllCached DEF RInv, PolicyInv
  <2> QED BY <2>4, <2>5, <2>6, <2>7 DEF RInv
<1>4. CASE Removed
  <2>1. np.pc = "unapply" /\ apply["netpol"] = "ok" /\ np' = Idle /\ UNCHANGED <<installed, removeFailed>>
    BY <1>4 DEF Removed, Applied
  <2>2. apply'["netpol"] = "no"
    BY <1>4, NetPolCall DEF Removed, ApplyTaken
  <2>3. DOMAIN mgr.toDestroy = {}
    BY <2>1 DEF RInv, CacheInv, Dirty
  <2> QED BY <1>0, <1>1, <2>1, <2>2, <2>3, RestsAgain, IdleIsNetPol
<1>5. CASE RemoveFails
  <2>1. np.pc = "unapply" /\ np' = Idle /\ UNCHANGED installed /\ removeFailed' = TRUE
    BY <1>5 DEF RemoveFails, ApplyFailed
  <2>2. apply'["netpol"] = "no"
    BY <1>5, NetPolCall DEF RemoveFails, ApplyTaken
  <2> QED BY <1>0, <1>1, <2>1, <2>2, RestsAgain, IdleIsNetPol
<1> QED BY <1>2, <1>3, <1>4, <1>5 DEF RemoveRules

-----------------------------------------------------------------------------
(* The calls of applyDataPlaneNow *)

\* The call goes on: the cached sets stay, and the kernel keeps what policies need.
LEMMA CallMoves ==
    ASSUME DInv, RInv, UNCHANGED <<np, installed>>, mgr'.setMap = mgr.setMap,
           mgr' = mgr \/ Dirty(mgr') = {}, KernelInv', KeepsHeld(mgr, kernel, kernel'),
           apply'["netpol"] \in {"applied", "ok"} => Dirty(mgr') = {},
           apply'["netpol"] = "ok" => ~removeFailed',
           removeFailed' = removeFailed \/ (~removeFailed' /\ Dirty(mgr') = {})
    PROVE  RInv'
<1> USE NetPolFacts
<1>1. DOMAIN mgr'.toDestroy # {} => mgr' = mgr
  BY DEF Dirty
<1>2. CacheInv'
  <2>1. \A s \in DOMAIN mgr'.setMap :
          mgr'.setMap[s].refs # {} \/ (np'.pc = "unmember" /\ s \in SetsOf[np'.now])
    BY DEF RInv, CacheInv
  <2>2. np'.pc = "unmember" =>
          \A s \in SetsOf[np'.now] : s \in DOMAIN mgr'.setMap => np'.now \notin mgr'.setMap[s].refs
    BY DEF RInv, CacheInv
  <2>3. DOMAIN mgr'.toDestroy # {} => removeFailed' \/ np'.pc \in {"unmember", "unapply"}
    BY <1>1 DEF RInv, CacheInv, Dirty
  <2>4. np'.pc = "rules" => Dirty(mgr') = {}
    BY DEF RInv, CacheInv
  <2> QED BY <2>1, <2>2, <2>3, <2>4 DEF CacheInv
<1>3. ThreadInv'
  BY DEF RInv, ThreadInv
<1>4. \A p : (RefersTo(mgr', p) <=> RefersTo(mgr, p)) /\ (HasBlocks(mgr', p) <=> HasBlocks(mgr, p))
  BY DEF RefersTo, HasBlocks
<1>5. \A p \in installed : InKernel(kernel', p)
  BY RulesKept DEF RInv, PolicyInv
<1>6. PolicyInv'
  BY <1>4, <1>5 DEF RInv, PolicyInv
<1> QED BY <1>2, <1>3, <1>6 DEF RInv

\* The kernel that stays keeps everything.
LEMMA SameKernelKeeps ==
    ASSUME UNCHANGED kernel
    PROVE  KeepsHeld(mgr, kernel, kernel')
  BY DEF KeepsHeld

\* The steps of the call, of the restore in it, and of the flag behind it.
LEMMA CallsKeepRInv ==
    ASSUME DInv, RInv, ApplyBegins("netpol") \/ ApplyEnds("netpol")
                       \/ setRemovePolicyFailureFalse("netpol") \/ RestoreRuns
    PROVE  RInv'
<1> USE NetPolFacts
<1>0. KernelInv /\ RestoreShape(restore)
  BY DEF RInv, DInv, CallInv
<1>1. CASE ApplyBegins("netpol") /\ ApplyIPSets
  <2>1. KernelInv' /\ mgr' = mgr /\ kernel' = kernel
    BY <1>0, <1>1, ApplyIPSetsKernel
  <2>2. UNCHANGED <<installed, removeFailed, np>>
    BY <1>1 DEF ApplyBegins
  <2>3. apply'["netpol"] \in {"running", "applied"}
    BY <1>1, NetPolCall DEF ApplyBegins
  <2>4. apply'["netpol"] = "applied" => Dirty(mgr') = {}
    BY <1>1, <2>1, NetPolCall DEF ApplyBegins
  <2> QED BY <2>1, <2>2, <2>3, <2>4, CallMoves, SameKernelKeeps
<1>2. CASE ApplyBegins("netpol") /\ ~ApplyIPSets
  <2>1. /\ Dirty(mgr) = {} /\ UNCHANGED <<mgr, kernel, restore, installed, removeFailed, np>>
        /\ apply' = [apply EXCEPT !["netpol"] = "applied"]
    BY <1>2 DEF ApplyBegins, nvars
  <2>2. KernelInv' /\ apply'["netpol"] = "applied"
    BY <1>0, <2>1, KernelStays, NetPolCall
  <2> QED BY <2>1, <2>2, CallMoves, SameKernelKeeps
<1>3. CASE ApplyEnds("netpol")
  <2>0. UNCHANGED <<installed, removeFailed, np>>
    BY <1>3 DEF ApplyEnds
  <2>1. CASE ApplySucceeds
    <3>1. KernelInv' /\ mgr'.setMap = mgr.setMap /\ Dirty(mgr') = {} /\ kernel' = kernel
      BY <1>0, <2>1, ApplySucceedsKernel
    <3>2. apply'["netpol"] \in {"applied", "failed"}
      BY <1>3, NetPolCall DEF ApplyEnds
    <3> QED BY <2>0, <3>1, <3>2, CallMoves, SameKernelKeeps
  <2>2. CASE ApplyFails /\ apply' = [apply EXCEPT !["netpol"] = "failed"]
    <3>1. KernelInv' /\ mgr' = mgr /\ kernel' = kernel
      BY <1>0, <2>2, ApplyFailsKernel
    <3>2. apply'["netpol"] = "failed"
      BY <2>2, NetPolCall
    <3> QED BY <2>0, <3>1, <3>2, CallMoves, SameKernelKeeps
  <2> QED BY <1>3, <2>1, <2>2 DEF ApplyEnds
<1>4. CASE setRemovePolicyFailureFalse("netpol")
  <2>1. /\ apply["netpol"] = "applied" /\ removeFailed' = FALSE
        /\ apply' = [apply EXCEPT !["netpol"] = "ok"] /\ UNCHANGED <<mgr, kernel, restore, installed, np>>
    BY <1>4 DEF setRemovePolicyFailureFalse, nvars
  <2>2. KernelInv' /\ apply'["netpol"] = "ok" /\ Dirty(mgr) = {}
    BY <1>0, <2>1, KernelStays, NetPolCall DEF RInv, CacheInv
  <2> QED BY <2>1, <2>2, CallMoves, SameKernelKeeps
<1>5. CASE RestoreRuns
  <2>1. KernelInv' /\ KeepsHeld(mgr, kernel, kernel') /\ mgr' = mgr
    BY <1>0, <1>5, RestoreRunsKernel
  <2>2. UNCHANGED <<installed, removeFailed, np, apply>>
    BY <1>5 DEF RestoreRuns, dpvars
  <2>3. apply["netpol"] \in {"applied", "ok"} => Dirty(mgr) = {}
    BY DEF RInv, CacheInv
  <2>4. apply["netpol"] = "ok" => ~removeFailed
    BY DEF RInv, ThreadInv
  <2> QED BY <2>1, <2>2, <2>3, <2>4, CallMoves
<1> QED BY <1>1, <1>2, <1>3, <1>4, <1>5

\* Everything starts over.
LEMMA PanicKeepsRInv ==
    ASSUME DInv, RInv, ProcessPanics
    PROVE  RInv'
<1>1. /\ mgr' = NewIPSetManager(mgr.mode) /\ kernel' = << >> /\ restore' = NoRestore
      /\ installed' = {} /\ removeFailed' = FALSE /\ np' = Idle /\ apply' = [t \in Threads |-> "no"]
  BY DEF ProcessPanics, Panic
<1>2. mgr.mode \in Modes /\ "netpol" \in Threads
  BY ManagerFacts, NetPolFacts DEF RInv, KernelInv, Fits
<1>3. /\ Fits(mgr', kernel') /\ kernel' \in Kernels
      /\ DOMAIN mgr'.setMap = {} /\ DOMAIN mgr'.toDestroy = {}
  BY <1>1, <1>2, EmptyFits
<1>4. KernelInv'
  BY <1>1, <1>3, NoRestoreFacts DEF KernelInv
<1>5. HeldAll(mgr') /\ apply'["netpol"] = "no"
  BY <1>1, <1>2, <1>3 DEF HeldAll
<1>6. np'.pc = "idle" /\ np'.policies = {}
  BY <1>1, IdleIsNetPol
<1>7. CacheInv' /\ ThreadInv' /\ PolicyInv'
  BY <1>1, <1>3, <1>5, <1>6, BetweenLoops
<1> QED BY <1>4, <1>7 DEF RInv

\* At first.
LEMMA RInitHolds == DInit => RInv
<1> SUFFICES ASSUME DInit PROVE RInv
  OBVIOUS
<1>1. PICK mode \in Modes : mgr = NewIPSetManager(mode)
  BY DEF DInit, NInit
<1>2. kernel = << >> /\ restore = NoRestore /\ installed = {} /\ removeFailed = FALSE /\ np = Idle
  BY DEF DInit, NInit
<1>3. PICK threads \in Workloads : apply = [t \in threads |-> "no"]
  BY DEF DInit
<1>4. apply["netpol"] = "no"
  BY <1>3, DataPlaneAssumption
<1>5. /\ Fits(mgr, kernel) /\ kernel \in Kernels
      /\ DOMAIN mgr.setMap = {} /\ DOMAIN mgr.toDestroy = {}
  BY <1>1, <1>2, EmptyFits
<1>6. KernelInv
  BY <1>2, <1>5, NoRestoreFacts DEF KernelInv
<1>7. np.pc = "idle" /\ np.policies = {}
  BY <1>2, IdleIsNetPol
<1>8. CacheInv /\ ThreadInv /\ PolicyInv
  BY <1>2, <1>4, <1>5, <1>7 DEF CacheInv, ThreadInv, PolicyInv
<1> QED BY <1>6, <1>8 DEF RInv

-----------------------------------------------------------------------------
(* The loops of the policy thread *)

\* An operation under the lock.
LEMMA ChangeKernel ==
    ASSUME KernelInv, NEW r, Fits(r, kernel), Change(r)
    PROVE  KernelInv' /\ mgr' = r /\ UNCHANGED <<kernel, restore>>
<1>1. ~restore.on /\ mgr' = r /\ UNCHANGED <<kernel, restore>>
  BY DEF Change, Unlocked
<1>2. restore.todo = {} /\ restore.done = {}
  BY <1>1 DEF KernelInv
<1> QED BY <1>1, <1>2 DEF KernelInv

\* createIPSetsAndReferences, the references.
LEMMA AddReferencesKeepsRInv ==
    ASSUME DInv, RInv, NEW p \in np.left, AddReferences(p)
    PROVE  RInv'
<1> DEFINE r == AllReferred(mgr, p, SetsOf[p])
<1>0. p \in Policies /\ np \in NetPol /\ np.left \in SUBSET np.policies
  BY NetPolFacts
<1>1. Change(r)
  BY Zenon DEF AddReferences, AllReferred
<1>2. /\ np.pc = "references" /\ np' = [np EXCEPT !.pc = "members", !.now = p, !.left = np.left \ {p}]
      /\ UNCHANGED <<installed, removeFailed, apply>>
  BY DEF AddReferences
<1>3. np'.pc = "members" /\ np'.now = p /\ np'.left = np.left \ {p} /\ np'.policies = np.policies
  BY <1>0, <1>2 DEF NetPol
<1>4. apply["netpol"] = "no" /\ ~removeFailed
  BY <1>2, NetPolFacts DEF Calling, RInv, ThreadInv
<1>5. HeldAll(mgr) /\ NoneToDestroy(mgr) /\ Fits(mgr, kernel)
  BY <1>2, <1>4, AllHeld DEF RInv, CacheInv, NoneToDestroy, KernelInv
<1>6. Grown(mgr, r, kernel, p, SetsOf[p])
  BY <1>0, <1>5, ReferencesGrow
<1> HIDE DEF r
<1>7. Fits(r, kernel) /\ HeldAll(r) /\ NoneToDestroy(r)
  BY <1>6 DEF Grown
<1>8. KernelInv' /\ mgr' = r /\ UNCHANGED <<kernel, restore>>
  BY <1>1, <1>7, ChangeKernel DEF RInv
<1>9. CacheInv'
  BY <1>2, <1>3, <1>4, <1>7, <1>8 DEF CacheInv, HeldAll, NoneToDestroy
<1>10. ThreadInv'
  BY <1>0, <1>2, <1>3, <1>4 DEF ThreadInv
<1>11. \A q : RefersTo(mgr, q) => RefersTo(r, q)
  BY <1>6 DEF Grown, RefersTo
<1>12. \A q : RefersTo(mgr, q) /\ HasBlocks(mgr, q) => HasBlocks(r, q)
  BY <1>6 DEF Grown, RefersTo, HasBlocks
<1>13. RefersTo(r, p)
  BY <1>6 DEF Grown, RefersTo
<1>14. \A q \in installed \cup (np.policies \ np.left) : RefersTo(mgr, q) /\ HasBlocks(mgr, q)
  BY <1>2, AllCached DEF RInv
<1>15. \A q \in installed' \cup (np'.policies \ np'.left) :
          RefersTo(mgr', q) /\ (HasBlocks(mgr', q) \/ (np'.pc = "members" /\ q = np'.now))
  BY <1>2, <1>3, <1>8, <1>11, <1>12, <1>13, <1>14
<1>16. PolicyInv'
  BY <1>2, <1>8, <1>15 DEF PolicyInv, RInv
<1> QED BY <1>8, <1>9, <1>10, <1>16 DEF RInv

\* createIPSetsAndReferences, the members.
LEMMA AddMembersKeepsRInv ==
    ASSUME DInv, RInv, AddMembers
    PROVE  RInv'
<1> DEFINE p == np.now
           r == AllBlocksIn(mgr, BlocksOf(p))
<1>1. Change(r)
  BY Zenon DEF AddMembers, AllBlocksIn
<1>2. /\ np.pc = "members" /\ np' = [np EXCEPT !.pc = "apply"]
      /\ apply' = [apply EXCEPT !["netpol"] = "called"] /\ UNCHANGED <<installed, removeFailed>>
  BY DEF AddMembers, CallApply
<1>0. p \in np.policies \ np.left /\ p \in Policies /\ np \in NetPol
  BY <1>2, NetPolFacts DEF RInv, ThreadInv
<1>3. np'.pc = "apply" /\ np'.now = np.now /\ np'.left = np.left /\ np'.policies = np.policies
  BY <1>0, <1>2 DEF NetPol
<1>4. apply'["netpol"] = "called" /\ ~removeFailed
  BY <1>2, NetPolCall DEF RInv, ThreadInv
<1>5. HeldAll(mgr) /\ NoneToDestroy(mgr) /\ Fits(mgr, kernel) /\ RefersTo(mgr, p)
  BY <1>0, <1>2, <1>4, AllHeld DEF RInv, CacheInv, NoneToDestroy, KernelInv, PolicyInv
<1>6. \A s \in SetsOf[p] : Held(mgr, s)
  BY <1>5 DEF RefersTo, Held
<1> HIDE DEF p
<1>7. Filled(mgr, r, kernel, BlocksOf(p))
  BY <1>0, <1>5, <1>6, BlocksFill
<1> HIDE DEF r
<1>8. Fits(r, kernel) /\ HeldAll(r) /\ NoneToDestroy(r)
  BY <1>5, <1>7 DEF Filled, HeldAll
<1>9. KernelInv' /\ mgr' = r /\ UNCHANGED <<kernel, restore>>
  BY <1>1, <1>8, ChangeKernel DEF RInv
<1>10. CacheInv'
  BY <1>3, <1>4, <1>8, <1>9 DEF CacheInv, HeldAll, NoneToDestroy
<1>11. ThreadInv'
  BY <1>0, <1>2, <1>3, <1>4 DEF ThreadInv, p
<1>12. \A q : RefersTo(mgr, q) => RefersTo(r, q)
  BY <1>7 DEF Filled, RefersTo
<1>13. \A q : RefersTo(mgr, q) /\ HasBlocks(mgr, q) => HasBlocks(r, q)
  BY <1>7 DEF Filled, RefersTo, HasBlocks
<1>14. HasBlocks(r, p)
  <2> SUFFICES ASSUME NEW s \in SetsOf[p], NEW x \in Blocks[s] PROVE x \in DOMAIN r.setMap[s].ipPodKey
    BY DEF HasBlocks
  <2>1. <<s, x>> \in BlocksOf(p) /\ <<s, x>>[1] = s /\ <<s, x>>[2] = x
    BY <1>0, PolicySets
  <2> QED BY <1>7, <2>1 DEF Filled
<1>15. \A q \in installed \cup (np.policies \ np.left) : RefersTo(mgr, q) /\ (HasBlocks(mgr, q) \/ q = p)
  BY <1>2 DEF RInv, PolicyInv, p
<1>16. \A q \in installed' \cup (np'.policies \ np'.left) : RefersTo(mgr', q) /\ HasBlocks(mgr', q)
  BY <1>2, <1>3, <1>9, <1>12, <1>13, <1>14, <1>15
<1>17. PolicyInv'
  BY <1>2, <1>9, <1>16 DEF PolicyInv, RInv
<1> QED BY <1>9, <1>10, <1>11, <1>17 DEF RInv

\* deleteIPSetsAndReferences, the references.
LEMMA DeleteReferencesKeepsRInv ==
    ASSUME DInv, RInv, DeleteReferences
    PROVE  RInv'
<1> DEFINE p == np.now
           r == AllDropped(mgr, p, SetsOf[p])
<1>1. Change(r)
  BY Zenon DEF DeleteReferences, AllDropped
<1>2. /\ np.pc = "unrefer" /\ np' = [np EXCEPT !.pc = "unmember"]
      /\ UNCHANGED <<installed, removeFailed, apply>>
  BY DEF DeleteReferences
<1>0. p \in Policies /\ p \notin installed /\ np.policies = {} /\ np \in NetPol
  BY <1>2, NetPolFacts DEF RInv, ThreadInv, DInv, QueueInv, Removing
<1>3. np'.pc = "unmember" /\ np'.now = np.now /\ np'.left = np.left /\ np'.policies = np.policies
  BY <1>0, <1>2 DEF NetPol
<1>4. apply["netpol"] = "no"
  BY <1>2, NetPolFacts DEF Calling
<1>5. HeldAll(mgr) /\ Fits(mgr, kernel)
  BY <1>2, AllHeld DEF RInv, KernelInv
<1> HIDE DEF p
<1>6. Unreferred(mgr, r, kernel, p, SetsOf[p])
  BY <1>0, <1>5, ReferencesDrop
<1> HIDE DEF r
<1>7. KernelInv' /\ mgr' = r /\ UNCHANGED <<kernel, restore>>
  BY <1>1, <1>6, ChangeKernel DEF RInv, Unreferred
<1>8. \A s \in DOMAIN r.setMap : r.setMap[s].refs # {} \/ s \in SetsOf[p]
  BY <1>5, <1>6 DEF Unreferred, HeldAll
<1>9. \A s \in SetsOf[p] : s \in DOMAIN r.setMap => p \notin r.setMap[s].refs
  BY <1>6 DEF Unreferred
<1>10. CacheInv'
  BY <1>2, <1>3, <1>4, <1>7, <1>8, <1>9 DEF CacheInv, p
<1>11. ThreadInv'
  BY <1>0, <1>2, <1>3, <1>4 DEF ThreadInv, p
<1>12. ASSUME NEW q \in installed PROVE RefersTo(r, q) /\ HasBlocks(r, q)
  <2>1. RefersTo(mgr, q) /\ HasBlocks(mgr, q) /\ q # p
    BY <1>0, <1>2, AllCached DEF RInv
  <2> QED BY <1>6, <2>1 DEF Unreferred, RefersTo, HasBlocks
<1>13. PolicyInv'
  BY <1>0, <1>2, <1>3, <1>7, <1>12 DEF PolicyInv, RInv
<1> QED BY <1>7, <1>10, <1>11, <1>13 DEF RInv

\* Reconcile finds sets to delete only between the loops of a removal.
LEMMA ReconcileKeepsRInv ==
    ASSUME DInv, RInv, PeriodicReconcile
    PROVE  RInv'
<1> DEFINE S == DOMAIN mgr.setMap
           r == AllDeleted(mgr, S)
<1>1. Change(r)
  BY Zenon DEF PeriodicReconcile, Reconcile, AllDeleted
<1>2. UNCHANGED <<installed, removeFailed, apply, np>>
  BY DEF PeriodicReconcile, dpvars
<1>3. Fits(mgr, kernel) /\ mgr \in Manager
  BY DEF RInv, KernelInv, Fits
<1>4. S \in SUBSET Sets /\ IsFiniteSet(S)
  <2>1. S \in SUBSET Sets
    BY <1>3, ManagerFacts, MapFacts
  <2>2. IsFiniteSet(HashSets) /\ IsFiniteSet(ListSets)
    BY NPMAssumption
  <2>3. IsFiniteSet(Sets)
    BY <2>2, FS_Union DEF Sets
  <2> QED BY <2>1, <2>3, FS_Subset
<1>5. Pruned(mgr, r, kernel, S)
  <2> HIDE DEF S
  <2> QED BY <1>3, <1>4, UnusedPruned
<1> HIDE DEF r
<1>6. KernelInv' /\ mgr' = r /\ UNCHANGED <<kernel, restore>>
  BY <1>1, <1>5, ChangeKernel DEF RInv, Pruned
<1>7. CASE np.pc # "unmember"
  <2>1. HeldAll(mgr)
    BY <1>7, AllHeld DEF RInv
  <2>2. r = mgr
    BY <1>5, <2>1 DEF Pruned, HeldAll, Unused
  <2> QED BY <1>2, <1>6, <2>2, RInvStays
<1>8. CASE np.pc = "unmember"
  <2>0. \A s \in DOMAIN r.setMap : s \in DOMAIN mgr.setMap /\ r.setMap[s] = mgr.setMap[s]
    BY <1>5 DEF Pruned
  <2>1. apply["netpol"] = "no" /\ np.policies = {}
    BY <1>8, NetPolFacts DEF Calling, RInv, ThreadInv
  <2>2. CacheInv'
    BY <1>2, <1>6, <1>8, <2>0, <2>1 DEF RInv, CacheInv
  <2>3. ThreadInv'
    BY <1>2 DEF RInv, ThreadInv
  <2>4. ASSUME NEW q \in installed PROVE RefersTo(r, q) /\ HasBlocks(r, q)
    <3>1. RefersTo(mgr, q) /\ HasBlocks(mgr, q)
      BY <1>8, AllCached DEF RInv
    <3>2. \A s \in SetsOf[q] : s \in DOMAIN r.setMap
      BY <1>5, <3>1 DEF Pruned, Unused, RefersTo
    <3> QED BY <2>0, <3>1, <3>2 DEF RefersTo, HasBlocks
  <2>5. PolicyInv'
    BY <1>2, <1>6, <2>1, <2>4 DEF PolicyInv, RInv
  <2> QED BY <1>6, <2>2, <2>3, <2>5 DEF RInv
<1> QED BY <1>7, <1>8

\* deleteIPSetsAndReferences, the members and the sets nothing needs.
LEMMA DeleteMembersKeepsRInv ==
    ASSUME DInv, RInv, DeleteMembers
    PROVE  RInv'
<1> DEFINE p == np.now
           b == AllBlocksOut(mgr, BlocksOf(p))
           r == AllDeleted(b, SetsOf[p])
<1>1. Change(r)
  BY Zenon DEF DeleteMembers, AllBlocksOut, AllDeleted
<1>2. /\ np.pc = "unmember" /\ np' = [np EXCEPT !.pc = "unapply"]
      /\ apply' = [apply EXCEPT !["netpol"] = "called"] /\ UNCHANGED <<installed, removeFailed>>
  BY DEF DeleteMembers, CallApply
<1>0. p \in Policies /\ p \notin installed /\ np.policies = {} /\ np \in NetPol
  BY <1>2, NetPolFacts DEF RInv, ThreadInv, DInv, QueueInv, Removing
<1>3. np'.pc = "unapply" /\ np'.now = np.now /\ np'.left = np.left /\ np'.policies = np.policies
  BY <1>0, <1>2 DEF NetPol
<1>4. apply'["netpol"] = "called"
  BY <1>2, NetPolCall
<1>5. Fits(mgr, kernel)
  BY DEF RInv, KernelInv
<1>6. /\ \A s \in DOMAIN mgr.setMap : mgr.setMap[s].refs # {} \/ s \in SetsOf[p]
      /\ \A s \in SetsOf[p] : s \in DOMAIN mgr.setMap => p \notin mgr.setMap[s].refs
  BY <1>2 DEF RInv, CacheInv
<1> HIDE DEF p
<1>7. \A q \in Policies : q # p => \A s \in SetsOf[p] \cap SetsOf[q] : Blocks[s] = {}
  BY <1>0, DataPlaneAssumption
<1>8. SetsOf[p] \in SUBSET Sets /\ IsFiniteSet(SetsOf[p])
  BY <1>0, PolicySets
<1>9. \A s \in DOMAIN mgr.setMap : s \in Sets /\ PlainAt(mgr, s)
  BY <1>5, ManagerFacts, MapFacts DEF Fits, FitsAt
<1>10. \A c \in BlocksOf(p) : ~Held(mgr, c[1])
  <2> SUFFICES ASSUME NEW c \in BlocksOf(p), Held(mgr, c[1]) PROVE FALSE
    OBVIOUS
  <2>1. c[1] \in SetsOf[p] /\ c[2] \in Blocks[c[1]]
    BY <1>0, PolicySets
  <2>2. PICK q \in mgr.setMap[c[1]].refs : TRUE
    BY DEF Held
  <2>3. q \in Policies /\ c[1] \in SetsOf[q]
    BY <1>9, <2>2 DEF Held, PlainAt
  <2>4. q # p
    BY <1>6, <2>1, <2>2 DEF Held
  <2> QED BY <1>7, <2>1, <2>3, <2>4
<1>11. Emptied(mgr, b, kernel, BlocksOf(p))
  BY <1>0, <1>5, <1>10, BlocksEmpty
<1> HIDE DEF b
<1>12. Pruned(b, r, kernel, SetsOf[p])
  BY <1>8, <1>11, UnusedPruned DEF Emptied
<1> HIDE DEF r
<1>13. KernelInv' /\ mgr' = r /\ UNCHANGED <<kernel, restore>>
  BY <1>1, <1>12, ChangeKernel DEF RInv, Pruned
<1>14. HeldAll(r)
  <2> SUFFICES ASSUME NEW s \in DOMAIN r.setMap, r.setMap[s].refs = {} PROVE FALSE
    BY DEF HeldAll
  <2>1. s \in DOMAIN b.setMap /\ r.setMap[s] = b.setMap[s]
    BY <1>12 DEF Pruned
  <2>2. s \in DOMAIN mgr.setMap /\ b.setMap[s].refs = mgr.setMap[s].refs
    BY <1>11, <2>1 DEF Emptied
  <2>3. s \in SetsOf[p]
    BY <1>6, <2>1, <2>2
  <2>4. \A x \in DOMAIN mgr.setMap[s].ipPodKey : <<s, x>> \in BlocksOf(p)
    BY <1>0, <1>9, <2>2, <2>3, PolicySets DEF PlainAt
  <2>5. DOMAIN b.setMap[s].ipPodKey = {}
    BY <1>11, <2>2, <2>4 DEF Emptied
  <2> QED BY <1>12, <2>1, <2>3, <2>5 DEF Pruned, Unused
<1>15. CacheInv'
  BY <1>3, <1>4, <1>13, <1>14 DEF CacheInv, HeldAll
<1>16. ThreadInv'
  BY <1>0, <1>2, <1>3, <1>4 DEF ThreadInv, p
<1>17. ASSUME NEW q \in installed PROVE RefersTo(r, q) /\ HasBlocks(r, q)
  <2>1. RefersTo(mgr, q) /\ HasBlocks(mgr, q) /\ q # p /\ q \in Policies
    BY <1>0, <1>2, AllCached, NetPolFacts DEF RInv
  <2>2. ASSUME NEW s \in SetsOf[q]
        PROVE  /\ s \in DOMAIN r.setMap /\ q \in r.setMap[s].refs
               /\ Blocks[s] \in SUBSET DOMAIN r.setMap[s].ipPodKey
    <3>1. s \in DOMAIN mgr.setMap /\ q \in mgr.setMap[s].refs /\ Blocks[s] \in SUBSET DOMAIN mgr.setMap[s].ipPodKey
      BY <2>1 DEF RefersTo, HasBlocks
    <3>2. s \in DOMAIN b.setMap /\ q \in b.setMap[s].refs
      BY <1>11, <3>1 DEF Emptied
    <3>3. ASSUME NEW x \in Blocks[s] PROVE x \in DOMAIN b.setMap[s].ipPodKey
      <4>1. s \notin SetsOf[p]
        BY <1>7, <2>1, <3>3
      <4>2. <<s, x>> \notin BlocksOf(p)
        BY <1>0, <4>1, PolicySets
      <4> QED BY <1>11, <3>1, <3>3, <4>2 DEF Emptied
    <3>4. s \in DOMAIN r.setMap /\ r.setMap[s] = b.setMap[s]
      BY <1>12, <3>2 DEF Pruned, Unused
    <3> QED BY <3>2, <3>3, <3>4
  <2> QED BY <2>2 DEF RefersTo, HasBlocks
<1>18. PolicyInv'
  BY <1>0, <1>2, <1>3, <1>13, <1>17 DEF PolicyInv, RInv
<1> QED BY <1>13, <1>15, <1>16, <1>18 DEF RInv

-----------------------------------------------------------------------------
(* RInv is inductive for a policy thread by itself *)

\* A step of the data plane keeps what the policies need.
LEMMA NextKeepsRInv ==
    ASSUME DInv, RInv, Alone, [DNext]_dvars
    PROVE  RInv'
<1>1. ASSUME NEW p \in Policies, AddPolicy(p) \/ RemovePolicy(p) \/ UpdatePolicy(p) PROVE RInv'
  BY <1>1, EventsKeepRInv
<1>2. CASE NetPolSteps
  BY <1>2, AddsKeepRInv, RemovesKeepRInv, AddReferencesKeepsRInv, AddMembersKeepsRInv,
     DeleteReferencesKeepsRInv, DeleteMembersKeepsRInv DEF NetPolSteps
<1>3. CASE Applying
  BY <1>3, CallsKeepRInv, PanicKeepsRInv DEF Applying, Alone
<1>4. CASE ApplyDataPlane
  BY <1>4 DEF ApplyDataPlane, Alone
<1>5. CASE PeriodicReconcile
  BY <1>5, ReconcileKeepsRInv
<1>6. CASE UNCHANGED dvars
  <2>1. UNCHANGED <<mgr, kernel, restore, installed, removeFailed, np, apply>>
    BY <1>6 DEF dvars, nvars, dpvars
  <2> QED BY <2>1, RInvStays
<1> QED BY <1>1, <1>2, <1>3, <1>4, <1>5, <1>6 DEF DNext

\* No thread comes or goes.
LEMMA ThreadsAreFixed ==
    ASSUME DInv, [DNext]_dvars
    PROVE  Threads' = Threads
<1>1. \A t, v : DOMAIN [apply EXCEPT ![t] = v] = DOMAIN apply
  OBVIOUS
<1>2. ASSUME NEW t, NEW v, apply' = [apply EXCEPT ![t] = v] PROVE Threads' = Threads
  BY <1>2 DEF Threads
<1>3. ASSUME UNCHANGED apply PROVE Threads' = Threads
  BY <1>3 DEF Threads
<1>4. AddNext \/ ApplyTaken => Threads' = Threads
  BY <1>2 DEF AddNext, ApplyTaken, Adding
<1>5. ASSUME NEW p \in Policies, AddPolicy(p) \/ RemovePolicy(p) \/ UpdatePolicy(p) PROVE Threads' = Threads
  BY <1>3, <1>5 DEF AddPolicy, RemovePolicy, UpdatePolicy
<1>6. ASSUME NEW p, AddReferences(p) PROVE Threads' = Threads
  BY <1>3, <1>6 DEF AddReferences
<1>7. CASE NetPolSteps
  <2>1. addPoliciesWithRetry => Threads' = Threads
    BY <1>2 DEF addPoliciesWithRetry, Adding
  <2>2. AddMembers \/ DeleteMembers => Threads' = Threads
    BY <1>2 DEF AddMembers, DeleteMembers, CallApply
  <2>3. PrecautionDone \/ SetsApplied \/ AddFails \/ Removed \/ RemoveFails => Threads' = Threads
    BY <1>4 DEF PrecautionDone, SetsApplied, AddFails, Removed, RemoveFails
  <2>4. AddRules => Threads' = Threads
    BY <1>3, <1>4 DEF AddRules
  <2>5. RemoveRules \/ DeleteReferences => Threads' = Threads
    BY <1>3 DEF RemoveRules, DeleteReferences
  <2> QED BY <1>6, <1>7, <2>1, <2>2, <2>3, <2>4, <2>5 DEF NetPolSteps
<1>8. CASE Applying
  <2>1. ASSUME NEW t \in Threads, ApplyBegins(t) \/ ApplyEnds(t) \/ setRemovePolicyFailureFalse(t)
        PROVE  Threads' = Threads
    BY <1>2, <2>1 DEF ApplyBegins, ApplyEnds, setRemovePolicyFailureFalse
  <2>2. RestoreRuns => Threads' = Threads
    BY <1>3 DEF RestoreRuns, dpvars
  <2>3. ProcessPanics => Threads' = Threads
    BY DEF ProcessPanics, Threads
  <2> QED BY <1>8, <2>1, <2>2, <2>3 DEF Applying
<1>9. ApplyDataPlane => Threads' = Threads
  BY <1>2 DEF ApplyDataPlane
<1>10. PeriodicReconcile \/ UNCHANGED dvars => Threads' = Threads
  BY <1>3 DEF PeriodicReconcile, dpvars, dvars
<1> QED BY <1>5, <1>7, <1>8, <1>9, <1>10 DEF DNext

\* As long as a policy has rules in iptables, every set they match on is in the
\* kernel with the policy's CIDR blocks, whatever restore failed on the way
\* (dataplane.go: addPolicies, RemovePolicy, previousRemovePolicyIPSetsFailed).
THEOREM RulesKeepTheirSets == DSpec => []RulesHaveSets
<1> DEFINE Inv == DInv /\ (Alone => RInv)
<1>1. DInit => Inv
  BY DInitHolds, RInitHolds
<1>2. Inv /\ [DNext]_dvars => Inv'
  <2> SUFFICES ASSUME Inv, [DNext]_dvars PROVE Inv'
    OBVIOUS
  <2>1. DInv'
    BY NextKeepsDInv
  <2>2. Alone' => Alone
    BY ThreadsAreFixed DEF Alone
  <2>3. Alone => RInv'
    BY NextKeepsRInv
  <2> QED BY <2>1, <2>2, <2>3
<1>3. Inv => RulesHaveSets
  BY DEF RInv, PolicyInv, InKernel, RulesHaveSets, Alone
<1> QED BY <1>1, <1>2, <1>3, PTL DEF DSpec

=============================================================================
