--------------------------- MODULE IPAMPool_proofs ---------------------------
(***************************************************************************)
(* The first pool monitor for every number of pods, every number of failed *)
(* patches and restarts and every set of scalers that ask for at least one *)
(* free IP: no count goes below zero, neither of the table nor of the NNC  *)
(* nor the request itself, and DNC is only asked for IPs that are pending. *)
(*                                                                         *)
(* The table's counts stay above zero as long as what is listed is pending *)
(* (ListedPending): DNC takes the listed IPs, a new process rebuilds the   *)
(* table from the list.  The list is read in one step and published in a   *)
(* later one, up to Attempts times; it stays right because nobody but the  *)
(* monitor marks IPs (SpecInv).  The request stays above zero because a    *)
(* scale-down is decided on when at least one IP is free, and is then by   *)
(* no more than was requested (DecreaseInv); the spec it was decided on is *)
(* still the monitor's when the IPs are marked.                            *)
(***************************************************************************)
EXTENDS IPAMPool, TLAPS

\* Every scaler DNC writes leaves at least one IP free.  With less the monitor
\* would scale down a pool it has requested nothing for.
OneIsFree == \A s \in Scalers : Rounded(clampScaler(s).batch, clampScaler(s).request) >= 1

NNCs == [requested : Nat, listed : Nat, taken : Nat, scaler : Scalers]
Specs == [requested : Nat, listed : Nat]

\* The counts of the pool, of the NNC and of what is on its way.
CountInv ==
    /\ pool \in Pool
    /\ nnc \in NNCs /\ nnc.taken <= nnc.listed
    /\ transit \in [given : Nat, taken : Nat] /\ transit.taken <= pool.pend
    /\ wanted \in Nat /\ exhausted \in BOOLEAN

\* What is listed and not yet taken is pending.
ListedPending == nnc.listed - nnc.taken <= pool.pend - transit.taken

\* The monitor's own state.
LoopInv ==
    /\ meta \in [batch : Nat \ {0}, max : Nat, minFree : Nat, maxFree : Nat, exhausted : BOOLEAN]
    /\ pmSpec \in Specs
    /\ pm \in [pc : PCs, n : Nat, spec : Specs, tries : 0 .. Attempts]
    /\ ~At("wait") => meta.minFree >= 1

\* A spec about to be published lists what is pending, and perhaps IPs that
\* have left the node since.
SpecInv == pm.pc \in Patching => pm.spec.listed >= pool.pend - transit.taken

\* A scale-down is by one IP at least and by no more than was requested.
DecreaseInv == At("mark") => 1 <= pm.n /\ pm.n <= pmSpec.requested

PoolInv == CountInv /\ ListedPending /\ LoopInv /\ SpecInv /\ DecreaseInv

-----------------------------------------------------------------------------
(* Arithmetic *)

\* The least and the most of two integers.
LEMMA LeastMost ==
    ASSUME NEW a \in Int, NEW b \in Int
    PROVE  /\ Least(a, b) \in {a, b} /\ Least(a, b) <= a /\ Least(a, b) <= b
           /\ Most(a, b) \in {a, b} /\ Most(a, b) >= a /\ Most(a, b) >= b
  BY DEF Least, Most

\* A clamped scaler has a batch, a maximum and percentages above zero
\* (monitor.go: clampScaler).
LEMMA ClampedScaler ==
    ASSUME NEW s \in [batch : Int, max : Int, request : Int, release : Int]
    PROVE  /\ clampScaler(s).batch \in Nat \ {0} /\ clampScaler(s).max \in Nat \ {0}
           /\ clampScaler(s).request \in Nat /\ clampScaler(s).release \in Nat
<1> DEFINE max == IF s.max < 1 THEN OptMaxIPs ELSE s.max
           request == Least(Most(s.request, 1), 100)
           batch == Least(Most(s.batch, 1), max)
           release == Most(s.release, request + 100)
<1>1. max \in Nat \ {0}
  BY MonitorConstants
<1>2. request \in Nat
  BY DEF Least, Most
<1>3. clampScaler(s) = [batch |-> batch, max |-> max, request |-> request, release |-> release]
  BY DEF clampScaler
<1> HIDE DEF max, request
<1>4. batch \in Nat \ {0} /\ release \in Nat
  BY <1>1, <1>2 DEF Least, Most
<1> HIDE DEF batch, release
<1> QED BY <1>1, <1>2, <1>3, <1>4

\* A part of a batch in whole IPs.
LEMMA RoundedType ==
    ASSUME NEW b \in Nat, NEW p \in Nat
    PROVE  Rounded(b, p) \in Nat
<1>1. b * p \in Nat
  BY SMT
<1> DEFINE x == b * p
<1> HIDE DEF x
<1>2. x \in Nat => (x + 50) \div 100 \in Nat
  BY SMT
<1> QED BY <1>1, <1>2 DEF Rounded, x

\* A number and the number it leaves when divided.
LEMMA Remainder ==
    ASSUME NEW r \in Nat, NEW b \in Nat \ {0}
    PROVE  /\ r % b \in Nat /\ r % b <= r /\ r % b < b
           /\ r % b = 0 /\ r >= 1 => b <= r
<1>1. r = b * (r \div b) + (r % b) /\ r % b \in 0 .. b - 1 /\ r \div b \in Nat
  BY SMT
<1>2. b * (r \div b) \in Nat
  BY <1>1, SMT
<1>3. r \div b >= 1 => b * (r \div b) >= b
  BY <1>1, SMT
<1>4. r \div b = 0 => b * (r \div b) = 0
  BY <1>1, SMT
<1> DEFINE q == r \div b
           m == r % b
           x == b * q
<1> HIDE DEF q, m, x
<1> QED BY <1>1, <1>2, <1>3, <1>4 DEF q, m, x

\* What reconcile works with, also when the subnet is exhausted.
LEMMA EffectiveType ==
    ASSUME LoopInv
    PROVE  /\ Effective.batch \in Nat \ {0} /\ Effective.max \in Nat
           /\ Effective.minFree \in Nat /\ Effective.maxFree \in Nat
           /\ ~At("wait") => Effective.minFree >= 1
  BY DEF LoopInv, Effective

-----------------------------------------------------------------------------
(* Pods, DNC and the NNC reconciler *)

\* The monitor is not concerned.
Others == UNCHANGED <<pmSpec, meta, pm>>

\* MonitorInit: StartRequest IPs, all free, and a monitor that waits.
LEMMA InitPoolInv == MonitorInit => PoolInv
<1> SUFFICES ASSUME MonitorInit PROVE PoolInv
  OBVIOUS
<1> USE PoolConstants, MonitorConstants DEF MonitorInit, PoolInit
<1>1. CountInv
  <2>1. PICK s \in Scalers : nnc = [requested |-> StartRequest, listed |-> 0, taken |-> 0, scaler |-> s]
    OBVIOUS
  <2>2. nnc \in NNCs /\ nnc.taken <= nnc.listed
    BY <2>1 DEF NNCs
  <2>3. pool \in Pool /\ transit \in [given : Nat, taken : Nat] /\ transit.taken <= pool.pend
    BY DEF Pool
  <2>4. wanted \in Nat
    OBVIOUS
  <2>5. exhausted \in BOOLEAN
    BY Zenon
  <2> QED BY <2>2, <2>3, <2>4, <2>5, Zenon DEF CountInv
<1>2. LoopInv
  BY DEF LoopInv, Waiting, Spec0, Specs, PCs, At
<1>3. SpecInv /\ ListedPending /\ DecreaseInv
  BY DEF SpecInv, At, Waiting, ListedPending, Patching, DecreaseInv
<1> QED BY <1>1, <1>2, <1>3 DEF PoolInv

\* The loop's part of the invariant needs only that the pool's own is kept and
\* that nothing more is pending.
LEMMA OthersKeepPoolInv ==
    ASSUME PoolInv, Others, CountInv', ListedPending',
           pool'.pend - transit'.taken <= pool.pend - transit.taken
    PROVE  PoolInv'
<1>1. LoopInv' /\ DecreaseInv'
  BY DEF PoolInv, LoopInv, DecreaseInv, Others, At
<1>2. SpecInv'
  <2>1. /\ pool.pend \in Nat /\ transit.taken \in Nat /\ pool'.pend \in Nat /\ transit'.taken \in Nat
        /\ pm.spec.listed \in Nat
    BY DEF PoolInv, CountInv, Pool, LoopInv, Specs
  <2> QED BY <2>1 DEF PoolInv, SpecInv, Others
<1> QED BY <1>1, <1>2 DEF PoolInv

\* The pods, the scaler and the subnet change; pods get and give back IPs.
LEMMA PodsKeepPoolInv ==
    ASSUME PoolInv, Others,
           Schedule \/ SetScaler \/ SetExhausted \/ AssignIP \/ ReleaseIP \/ Programmed
    PROVE  PoolInv'
<1> USE PoolConstants DEF PoolInv
<1>0. pool.pend \in Nat /\ transit.taken \in Nat
  BY DEF CountInv, Pool
<1>2. CASE Schedule \/ SetExhausted
  <2>1. UNCHANGED <<pool, nnc, transit>>
    BY <1>2 DEF Schedule, SetExhausted
  <2>2. wanted' \in Nat
    BY <1>2 DEF Schedule, SetExhausted, CountInv
  <2>3. exhausted' \in BOOLEAN
    BY <1>2, Zenon DEF Schedule, SetExhausted, CountInv
  <2>4. CountInv' /\ ListedPending'
    BY <2>1, <2>2, <2>3 DEF CountInv, ListedPending
  <2> QED BY <1>0, <2>1, <2>4, OthersKeepPoolInv
<1>3. CASE SetScaler
  <2>1. PICK s \in Scalers : nnc' = [nnc EXCEPT !.scaler = s]
    BY <1>3 DEF SetScaler
  <2>2. nnc' \in NNCs /\ nnc'.listed = nnc.listed /\ nnc'.taken = nnc.taken
    BY <2>1 DEF CountInv, NNCs
  <2>3. CountInv' /\ ListedPending' /\ pool' = pool /\ transit' = transit
    BY <1>3, <2>2 DEF SetScaler, CountInv, ListedPending
  <2> QED BY <1>0, <2>3, OthersKeepPoolInv
<1>4. CASE AssignIP \/ ReleaseIP \/ Programmed
  <2>1. pool' \in Pool /\ pool'.pend = pool.pend
    <3>1. pool.prog \in Nat /\ pool.avail \in Nat /\ pool.assigned \in Nat /\ pool.pend \in Nat /\ wanted \in Nat
      BY DEF CountInv, Pool
    <3>2. CASE AssignIP
      <4>1. pool.avail - 1 \in Nat /\ pool.assigned + 1 \in Nat
        BY <3>1, <3>2 DEF AssignIP
      <4>2. pool' = [prog |-> pool.prog, avail |-> pool.avail - 1,
                     assigned |-> pool.assigned + 1, pend |-> pool.pend]
        BY <3>2 DEF AssignIP, CountInv, Pool
      <4> QED BY <3>1, <4>1, <4>2 DEF Pool
    <3>3. CASE ReleaseIP
      <4>1. pool.avail + 1 \in Nat /\ pool.assigned - 1 \in Nat
        BY <3>1, <3>3 DEF ReleaseIP
      <4>2. pool' = [prog |-> pool.prog, avail |-> pool.avail + 1,
                     assigned |-> pool.assigned - 1, pend |-> pool.pend]
        BY <3>3 DEF ReleaseIP, CountInv, Pool
      <4> QED BY <3>1, <4>1, <4>2 DEF Pool
    <3>4. CASE Programmed
      <4>1. pool.avail + pool.prog \in Nat /\ 0 \in Nat
        BY <3>1
      <4>2. pool' = [prog |-> 0, avail |-> pool.avail + pool.prog,
                     assigned |-> pool.assigned, pend |-> pool.pend]
        BY <3>4 DEF Programmed, CountInv, Pool
      <4> QED BY <3>1, <4>1, <4>2 DEF Pool
    <3> QED BY <1>4, <3>2, <3>3, <3>4
  <2>2. CountInv' /\ ListedPending' /\ transit' = transit
    BY <1>4, <2>1 DEF AssignIP, ReleaseIP, Programmed, CountInv, ListedPending
  <2> QED BY <1>0, <2>1, <2>2, OthersKeepPoolInv
<1> QED BY <1>2, <1>3, <1>4

\* DNC takes back what is listed, all of it pending.
LEMMA DNCKeepsPoolInv ==
    ASSUME PoolInv, Others, DNC
    PROVE  PoolInv'
<1> USE DEF PoolInv
<1>1. /\ pool.pend \in Nat /\ nnc.listed \in Nat /\ nnc.taken \in Nat
      /\ transit.taken \in Nat /\ transit.given \in Nat /\ nnc.requested \in Nat
      /\ Allocated \in Int
  BY DEF CountInv, Pool, NNCs, Allocated, Total
<1> DEFINE back == nnc.listed - nnc.taken
           new == Most(0, nnc.requested - (Allocated - back))
<1>2. back \in Nat /\ new \in Nat
  BY <1>1, LeastMost DEF CountInv
<1>3. /\ nnc' = [nnc EXCEPT !.taken = nnc.listed]
      /\ transit' = [given |-> transit.given + new, taken |-> transit.taken + back]
      /\ UNCHANGED <<pool, wanted, exhausted>>
  BY DEF DNC
<1> HIDE DEF new
<1>4. nnc' \in NNCs /\ nnc'.taken = nnc'.listed /\ transit' \in [given : Nat, taken : Nat]
  BY <1>1, <1>2, <1>3 DEF CountInv, NNCs
<1>5. transit'.taken = transit.taken + back /\ transit'.taken <= pool.pend
  BY <1>1, <1>2, <1>3 DEF ListedPending
<1>6. CountInv'
  <2>1. nnc'.taken <= nnc'.listed
    BY <1>4 DEF NNCs
  <2> QED BY <1>3, <1>4, <1>5, <2>1 DEF CountInv
<1>7. ListedPending' /\ pool'.pend - transit'.taken <= pool.pend - transit.taken
  BY <1>1, <1>2, <1>3, <1>4, <1>5 DEF ListedPending, NNCs
<1> QED BY <1>6, <1>7, OthersKeepPoolInv

\* The NNC reconciler deletes what DNC has taken and adds what it has given.
LEMMA ReconcileNCKeepsPoolInv ==
    ASSUME PoolInv, Others, ReconcileNC
    PROVE  PoolInv'
<1> USE DEF PoolInv
<1>1. /\ pool.pend \in Nat /\ nnc.listed \in Nat /\ nnc.taken \in Nat
      /\ transit.taken \in Nat /\ transit.given \in Nat
  BY DEF CountInv, Pool, NNCs
<1>2. /\ pool' \in Pool /\ pool'.pend = pool.pend - transit.taken
      /\ transit' = [given |-> 0, taken |-> 0]
      /\ UNCHANGED <<nnc, wanted, exhausted>>
  <2>1. /\ pool.prog + transit.given \in Nat /\ pool.avail \in Nat
        /\ pool.assigned \in Nat /\ pool.pend - transit.taken \in Nat
    BY <1>1 DEF CountInv, Pool
  <2>2. pool' = [prog |-> pool.prog + transit.given, avail |-> pool.avail,
                 assigned |-> pool.assigned, pend |-> pool.pend - transit.taken]
    BY DEF ReconcileNC, CountInv, Pool
  <2>3. pool' \in Pool /\ pool'.pend = pool.pend - transit.taken
    BY <2>1, <2>2 DEF Pool
  <2> QED BY <2>3 DEF ReconcileNC
<1>3. CountInv'
  BY <1>2 DEF CountInv, Pool
<1>4. ListedPending' /\ pool'.pend - transit'.taken <= pool.pend - transit.taken
  BY <1>1, <1>2 DEF ListedPending
<1> QED BY <1>3, <1>4, OthersKeepPoolInv

-----------------------------------------------------------------------------
(* The loop *)

\* A step of the loop that leaves the pool alone and publishes nothing.
LEMMA LoopKeepsPoolInv ==
    ASSUME PoolInv, UNCHANGED poolVars, LoopInv', DecreaseInv', pm'.pc \notin Patching
    PROVE  PoolInv'
<1>1. CountInv' /\ ListedPending'
  BY DEF PoolInv, CountInv, ListedPending, poolVars
<1>2. SpecInv'
  BY DEF SpecInv
<1> QED BY <1>1, <1>2 DEF PoolInv

\* An NNC is received, or the state of the subnet, or the ticker fires.
LEMMA ReceiveKeepsPoolInv ==
    ASSUME PoolInv, OneIsFree, ReceiveNNC \/ ReceiveCSS \/ Tick
    PROVE  PoolInv'
<1> USE PoolConstants, MonitorConstants DEF PoolInv
<1>1. UNCHANGED poolVars
  BY DEF ReceiveNNC, ReceiveCSS, Tick
<1>0. pm \in [pc : PCs, n : Nat, spec : Specs, tries : 0 .. Attempts]
  BY DEF LoopInv
<1>5. PICK pc \in {"wait", "reconcile"} : Goto(pc, 0) /\ (At("wait") \/ pc = "reconcile")
  BY DEF ReceiveNNC, ReceiveCSS, Tick
<1>2. /\ pm'.pc \in {"wait", "reconcile"}
      /\ pm' \in [pc : PCs, n : Nat, spec : Specs, tries : 0 .. Attempts]
      /\ At("wait") \/ pm'.pc = "reconcile"
  BY <1>0, <1>5 DEF Goto, PCs
<1>3. DecreaseInv' /\ pm'.pc \notin Patching
  BY <1>2 DEF DecreaseInv, At, Patching
<1>4. LoopInv'
  <2>1. CASE ReceiveNNC
    <3> DEFINE s == clampScaler(nnc.scaler)
    <3>1. nnc.scaler \in Scalers /\ nnc.requested \in Nat /\ nnc.listed \in Nat
      BY DEF CountInv, NNCs
    <3>2. nnc.scaler \in [batch : Int, max : Int, request : Int, release : Int]
      BY <3>1
    <3>3. /\ s.batch \in Nat \ {0} /\ s.max \in Nat /\ s.request \in Nat /\ s.release \in Nat
      BY <3>2, ClampedScaler
    <3>4. Rounded(s.batch, s.request) \in Nat /\ Rounded(s.batch, s.release) \in Nat
      BY <3>3, RoundedType
    <3>5. Rounded(s.batch, s.request) >= 1
      BY <3>1 DEF OneIsFree
    <3>6. meta' = [meta EXCEPT !.batch = s.batch, !.max = s.max,
                               !.minFree = Rounded(s.batch, s.request),
                               !.maxFree = Rounded(s.batch, s.release)]
      BY <2>1 DEF ReceiveNNC
    <3> HIDE DEF s
    <3>7. /\ meta' \in [batch : Nat \ {0}, max : Nat, minFree : Nat, maxFree : Nat, exhausted : BOOLEAN]
          /\ meta'.minFree >= 1
      BY <3>3, <3>4, <3>5, <3>6 DEF LoopInv
    <3>8. pmSpec' \in Specs
      BY <2>1, <3>1 DEF ReceiveNNC, LoopInv, Specs
    <3> QED BY <1>2, <3>7, <3>8 DEF LoopInv
  <2>2. CASE ReceiveCSS
    <3>1. /\ meta' \in [batch : Nat \ {0}, max : Nat, minFree : Nat, maxFree : Nat, exhausted : BOOLEAN]
          /\ meta'.minFree = meta.minFree
      BY <2>2 DEF ReceiveCSS, LoopInv, CountInv
    <3>2. At("wait")' <=> At("wait")
      BY <2>2 DEF ReceiveCSS, Goto, At, LoopInv
    <3> QED BY <1>2, <2>2, <3>1, <3>2 DEF ReceiveCSS, LoopInv
  <2>3. CASE Tick
    BY <1>2, <2>3 DEF Tick, LoopInv, At
  <2> QED BY <2>1, <2>2, <2>3
<1> QED BY <1>1, <1>3, <1>4, LoopKeepsPoolInv

\* reconcile: a scale-up asks for more than nothing; a scale-down is by a batch
\* or less, and by no more than was requested, as an IP is to stay free.
LEMMA DecideKeepsPoolInv ==
    ASSUME PoolInv, reconcile
    PROVE  PoolInv'
<1> USE DEF PoolInv
<1> DEFINE m == Effective
           r == pmSpec.requested
<1>1. At("reconcile") /\ UNCHANGED <<poolVars, pmSpec, meta>>
  BY DEF reconcile
<1>2. /\ m.batch \in Nat \ {0} /\ m.max \in Nat /\ m.minFree \in Nat /\ m.maxFree \in Nat
      /\ m.minFree >= 1
  BY <1>1, EffectiveType DEF At
<1>3. r \in Nat /\ pool.assigned \in Nat
  BY DEF LoopInv, Specs, CountInv, Pool
<1> HIDE DEF m, r
<1>4. r % m.batch \in Nat /\ r % m.batch <= r /\ r % m.batch < m.batch
      /\ (r % m.batch = 0 /\ r >= 1 => m.batch <= r)
  BY <1>2, <1>3, Remainder
<1> DEFINE rest == r % m.batch
           batch == m.batch
<1>5. Increased(m) \in Nat
  <2>1. r + m.batch - rest \in Nat
    <3> HIDE DEF rest, batch
    <3> QED BY <1>2, <1>3, <1>4 DEF rest
  <2>2. Increased(m) \in {r + m.batch - rest, m.max}
    BY DEF Increased, Least, r
  <2> HIDE DEF rest
  <2> QED BY <1>2, <2>1, <2>2
<1>6. r - pool.assigned >= m.minFree => DecreaseBy(m) \in Nat /\ 1 <= DecreaseBy(m) /\ DecreaseBy(m) <= r
  <2>1. DecreaseBy(m) = IF rest # 0 THEN rest ELSE m.batch
    BY DEF DecreaseBy, r
  <2> HIDE DEF rest, batch
  <2> QED BY <1>2, <1>3, <1>4, <2>1 DEF rest
<1>7. \E pc \in {"idle", "increase", "mark", "clean"}, n \in Nat :
         Goto(pc, n) /\ (pc = "mark" => 1 <= n /\ n <= r)
  <2>1. Decide
    BY DEF reconcile
  <2>2. CASE pmSpec.requested - pool.assigned < m.minFree
    <3>1. ~(pmSpec.requested - pool.assigned >= m.minFree)
      BY <1>2, <1>3, <2>2 DEF r
    <3>2. Goto("idle", 0) \/ Goto("increase", Increased(m))
      BY <2>1, <3>1 DEF Decide, m
    <3> QED BY <1>5, <3>2
  <2>3. CASE pmSpec.requested - pool.assigned >= m.minFree
    <3>1. DecreaseBy(m) \in Nat /\ 1 <= DecreaseBy(m) /\ DecreaseBy(m) <= r
      BY <1>6, <2>3 DEF r
    <3> QED BY <1>2, <1>3, <2>1, <2>3, <3>1 DEF Decide, m, r
  <2> QED BY <1>2, <1>3, <2>2, <2>3 DEF r
<1>8. PICK pc \in {"idle", "increase", "mark", "clean"}, n \in Nat :
         Goto(pc, n) /\ (pc = "mark" => 1 <= n /\ n <= r)
  BY <1>7
<1>9. pm' \in [pc : PCs, n : Nat, spec : Specs, tries : 0 .. Attempts] /\ pm'.pc = pc /\ pm'.n = n
  BY <1>8 DEF Goto, LoopInv, PCs
<1>10. LoopInv' /\ DecreaseInv' /\ pm'.pc \notin Patching
  BY <1>1, <1>8, <1>9 DEF LoopInv, DecreaseInv, At, Patching, r
<1> QED BY <1>1, <1>10, LoopKeepsPoolInv

\* MarkIPAsPendingRelease: what is free and no more; the request goes down by
\* as many.
LEMMA MarkKeepsPoolInv ==
    ASSUME PoolInv, MarkIPAsPendingRelease
    PROVE  PoolInv'
<1> USE DEF PoolInv
<1>1. /\ pool.prog \in Nat /\ pool.avail \in Nat /\ pool.assigned \in Nat /\ pool.pend \in Nat
      /\ transit.taken \in Nat /\ nnc.listed \in Nat /\ nnc.taken \in Nat
      /\ pm.n \in Nat /\ pmSpec.requested \in Nat
  BY DEF CountInv, Pool, NNCs, LoopInv, Specs
<1> DEFINE k == Least(pm.n, Free(pool))
<1>2. /\ At("mark") /\ MarkPending(k) /\ Goto("decrease", pmSpec.requested - k)
      /\ UNCHANGED <<nnc, transit, wanted, exhausted, pmSpec, meta>>
  <2>1. At("mark")
    BY DEF MarkIPAsPendingRelease
  <2>2. ~(pm.n < 1)
    BY <1>1, <2>1 DEF DecreaseInv
  <2> QED BY <2>2 DEF MarkIPAsPendingRelease
<1>3. k \in Nat /\ k <= pool.prog + pool.avail /\ k <= pmSpec.requested
  BY <1>1, <1>2 DEF Least, Free, DecreaseInv
<1> HIDE DEF k
<1> DEFINE l == Least(k, pool.prog)
<1>4. l \in Nat /\ l <= k /\ l <= pool.prog /\ k - l <= pool.avail
  BY <1>1, <1>3 DEF Least
<1>5. pool' = [pool EXCEPT !.prog = pool.prog - l, !.avail = pool.avail - (k - l), !.pend = pool.pend + k]
  BY <1>2 DEF MarkPending
<1> HIDE DEF l
<1>6. pool' \in Pool /\ pool'.pend = pool.pend + k
  <2>1. pool.prog - l \in Nat /\ pool.avail - (k - l) \in Nat /\ pool.pend + k \in Nat
    BY <1>1, <1>3, <1>4
  <2>2. pool' = [prog |-> pool.prog - l, avail |-> pool.avail - (k - l),
                 assigned |-> pool.assigned, pend |-> pool.pend + k]
    BY <1>5 DEF CountInv, Pool
  <2> QED BY <1>1, <2>1, <2>2 DEF Pool
<1>7. LoopInv' /\ SpecInv' /\ DecreaseInv'
  <2>1. pmSpec.requested - k \in Nat
    BY <1>1, <1>3
  <2>2. /\ pm' \in [pc : PCs, n : Nat, spec : Specs, tries : 0 .. Attempts] /\ pm'.pc = "decrease"
    BY <1>2, <2>1 DEF Goto, LoopInv, PCs
  <2> QED BY <1>2, <2>2 DEF LoopInv, SpecInv, DecreaseInv, At, Patching
<1>8. CountInv' /\ ListedPending'
  BY <1>1, <1>2, <1>3, <1>6 DEF CountInv, ListedPending
<1> QED BY <1>7, <1>8

\* createNNCSpecForCRD: GetPendingReleaseIPConfigs is read.
LEMMA SpecKeepsPoolInv ==
    ASSUME PoolInv, createNNCSpecForCRD
    PROVE  PoolInv'
<1> USE MonitorConstants DEF PoolInv
<1>1. /\ pm.pc \in {"increase", "decrease", "clean"}
      /\ pm' = [pm EXCEPT !.pc = Then(@), !.spec = [requested |-> pm.n, listed |-> pool.pend], !.tries = 0]
      /\ UNCHANGED <<poolVars, pmSpec, meta>>
  BY DEF createNNCSpecForCRD, NNCSpec
<1>2. pool.pend \in Nat /\ transit.taken \in Nat /\ pm.n \in Nat
  BY DEF CountInv, Pool, LoopInv
<1>3. Then(pm.pc) \in Patching
  BY <1>1 DEF Then, Patching
<1>4. /\ pm' \in [pc : PCs, n : Nat, spec : Specs, tries : 0 .. Attempts]
      /\ pm'.pc \in Patching /\ pm'.spec.listed = pool.pend
  <2> DEFINE pc == Then(pm.pc)
             spec == [requested |-> pm.n, listed |-> pool.pend]
  <2>1. pm' = [pm EXCEPT !.pc = pc, !.spec = spec, !.tries = 0]
    BY <1>1
  <2>2. pc \in PCs /\ spec \in Specs /\ spec.listed = pool.pend /\ 0 \in 0 .. Attempts
    BY <1>2, <1>3 DEF PCs, Specs
  <2> HIDE DEF pc, spec
  <2>3. pm \in [pc : PCs, n : Nat, spec : Specs, tries : 0 .. Attempts]
    BY DEF LoopInv
  <2>4. /\ pm' \in [pc : PCs, n : Nat, spec : Specs, tries : 0 .. Attempts]
        /\ pm'.pc = pc /\ pm'.spec = spec
    BY <2>1, <2>2, <2>3
  <2> QED BY <1>3, <2>2, <2>4 DEF pc
<1>5. LoopInv' /\ DecreaseInv'
  BY <1>1, <1>4 DEF LoopInv, DecreaseInv, At, Patching
<1>6. CountInv' /\ ListedPending' /\ SpecInv'
  BY <1>1, <1>2, <1>4 DEF poolVars, CountInv, ListedPending, SpecInv
<1> QED BY <1>5, <1>6

\* PatchSpec: the spec that is published lists every pending IP, so what it
\* lists and DNC has not taken is exactly what is pending, at the first try
\* and at every other one.
LEMMA PatchSpecRight ==
    ASSUME PoolInv, pm.pc \in Patching, PatchSpec(pm.spec) \/ UNCHANGED nnc
    PROVE  nnc' \in NNCs /\ nnc'.taken <= nnc'.listed
           /\ nnc'.listed - nnc'.taken <= pool.pend - transit.taken
<1>1. /\ pool.pend \in Nat /\ transit.taken \in Nat /\ transit.taken <= pool.pend
      /\ pm.spec.listed \in Nat /\ pm.spec.requested \in Nat
      /\ pm.spec.listed >= pool.pend - transit.taken
  BY DEF PoolInv, CountInv, Pool, LoopInv, Specs, SpecInv
<1>2. CASE PatchSpec(pm.spec)
  <2> DEFINE taken == pm.spec.listed - (pool.pend - transit.taken)
  <2>2. taken \in Nat /\ taken <= pm.spec.listed /\ pm.spec.listed - taken = pool.pend - transit.taken
    BY <1>1
  <2>3. nnc' = [nnc EXCEPT !.requested = pm.spec.requested, !.listed = pm.spec.listed, !.taken = taken]
    BY <1>2 DEF PatchSpec
  <2> HIDE DEF taken
  <2>4. nnc' \in NNCs /\ nnc'.listed = pm.spec.listed /\ nnc'.taken = taken
    BY <1>1, <2>2, <2>3 DEF PoolInv, CountInv, NNCs
  <2> QED BY <1>1, <2>2, <2>4
<1>3. CASE UNCHANGED nnc
  BY <1>3 DEF PoolInv, CountInv, ListedPending
<1> QED BY <1>2, <1>3

\* A new process: what is listed becomes pending again, everything else of
\* the node's IPs is there to be given out.
LEMMA NewProcessKeepsPoolInv ==
    ASSUME PoolInv, NewProcess(nnc'), UNCHANGED <<wanted, exhausted, pmSpec>>,
           nnc' \in NNCs, nnc'.taken <= nnc'.listed,
           nnc'.listed - nnc'.taken <= pool.pend - transit.taken
    PROVE  PoolInv'
<1> USE MonitorConstants DEF PoolInv
<1>1. /\ pool.prog \in Nat /\ pool.avail \in Nat /\ pool.assigned \in Nat /\ pool.pend \in Nat
      /\ transit.taken \in Nat /\ transit.given \in Nat /\ nnc'.listed \in Nat /\ nnc'.taken \in Nat
  BY DEF CountInv, Pool, NNCs
<1> DEFINE left == nnc'.listed - nnc'.taken
           prog == Allocated - pool.assigned - left
<1>2. left \in Nat /\ prog \in Nat
  BY <1>1 DEF Allocated, Total
<1>3. /\ pool' = [prog |-> prog, avail |-> 0, assigned |-> pool.assigned, pend |-> left]
      /\ transit' = [given |-> 0, taken |-> 0]
      /\ pm' = Waiting /\ meta' = [meta EXCEPT !.exhausted = FALSE]
  BY DEF NewProcess, Rebuild
<1> HIDE DEF prog
<1>4. ListedPending'
  BY <1>1, <1>3 DEF ListedPending
<1> HIDE DEF left
<1>5. CountInv'
  BY <1>1, <1>2, <1>3 DEF CountInv, Pool
<1>6. LoopInv'
  <2>1. meta' \in [batch : Nat \ {0}, max : Nat, minFree : Nat, maxFree : Nat, exhausted : BOOLEAN]
    BY <1>3 DEF LoopInv
  <2>2. pm' \in [pc : PCs, n : Nat, spec : Specs, tries : 0 .. Attempts] /\ pm'.pc = "wait"
    BY <1>3 DEF Waiting, Spec0, Specs, PCs
  <2> QED BY <2>1, <2>2 DEF LoopInv, At
<1>7. SpecInv' /\ DecreaseInv'
  BY <1>3 DEF SpecInv, DecreaseInv, At, Waiting, Patching
<1> QED BY <1>4, <1>5, <1>6, <1>7

\* The patch succeeds, or fails and may have been applied; a scale-down is
\* tried again, or ends the process.
LEMMA PatchKeepsPoolInv ==
    ASSUME PoolInv, Patched \/ NotPatched
    PROVE  PoolInv'
<1> USE MonitorConstants DEF PoolInv
<1>1. /\ pm.pc \in Patching /\ UNCHANGED <<wanted, exhausted>>
      /\ PatchSpec(pm.spec) \/ UNCHANGED nnc
  BY DEF Patched, NotPatched, PatchFails
<1>2. /\ nnc' \in NNCs /\ nnc'.taken <= nnc'.listed
      /\ nnc'.listed - nnc'.taken <= pool.pend - transit.taken
  BY <1>1, PatchSpecRight
<1>3. CASE /\ UNCHANGED <<pool, transit, meta>>
           /\ pmSpec' \in {pmSpec, pm.spec}
           /\ pm' = IdlePM
  <2>1. CountInv' /\ ListedPending'
    BY <1>1, <1>2, <1>3 DEF CountInv, ListedPending
  <2>2. pm' \in [pc : PCs, n : Nat, spec : Specs, tries : 0 .. Attempts] /\ pm'.pc = "idle"
    BY <1>3 DEF IdlePM, Waiting, Spec0, Specs, PCs
  <2>3. ~At("wait")
    BY <1>1 DEF At, Patching
  <2>4. LoopInv' /\ SpecInv' /\ DecreaseInv'
    BY <1>3, <2>2, <2>3 DEF LoopInv, SpecInv, DecreaseInv, At, Patching
  <2> QED BY <2>1, <2>4
<1>4. CASE /\ UNCHANGED <<pool, transit, meta, pmSpec>>
           /\ pm.tries + 1 < Attempts /\ pm' = [pm EXCEPT !.tries = @ + 1]
  <2>1. CountInv' /\ ListedPending'
    BY <1>1, <1>2, <1>4 DEF CountInv, ListedPending
  <2>2. /\ pm' \in [pc : PCs, n : Nat, spec : Specs, tries : 0 .. Attempts]
        /\ pm'.pc = pm.pc /\ pm'.spec = pm.spec
    BY <1>4 DEF LoopInv
  <2>3. LoopInv' /\ SpecInv' /\ DecreaseInv'
    BY <1>1, <1>4, <2>2 DEF LoopInv, SpecInv, DecreaseInv, At, Patching
  <2> QED BY <2>1, <2>3
<1>5. CASE NewProcess(nnc') /\ UNCHANGED pmSpec
  BY <1>1, <1>2, <1>5, NewProcessKeepsPoolInv
<1> QED BY <1>3, <1>4, <1>5 DEF Patched, NotPatched

\* The process ends at any point.
LEMMA CrashKeepsPoolInv ==
    ASSUME PoolInv, Crash
    PROVE  PoolInv'
<1>1. nnc' = nnc /\ NewProcess(nnc') /\ UNCHANGED <<wanted, exhausted, pmSpec>>
  BY DEF Crash
<1>2. /\ nnc' \in NNCs /\ nnc'.taken <= nnc'.listed
      /\ nnc'.listed - nnc'.taken <= pool.pend - transit.taken
  BY <1>1 DEF PoolInv, CountInv, ListedPending
<1> QED BY <1>1, <1>2, NewProcessKeepsPoolInv

\* Every step of the monitor, the pods, DNC and the reconciler keeps the invariant.
LEMMA NextKeepsPoolInv == OneIsFree /\ PoolInv /\ [MonitorNext]_pvars => PoolInv'
<1> SUFFICES ASSUME OneIsFree, PoolInv, [MonitorNext]_pvars PROVE PoolInv'
  OBVIOUS
<1>1. CASE Step \/ NotPatched \/ Crash \/ Tick \/ ReceiveNNC \/ ReceiveCSS
  BY <1>1, ReceiveKeepsPoolInv, DecideKeepsPoolInv, MarkKeepsPoolInv, SpecKeepsPoolInv,
     PatchKeepsPoolInv, CrashKeepsPoolInv
  DEF Step
<1>2. CASE (Environment \/ Progress) /\ UNCHANGED <<pmSpec, meta, pm>>
  BY <1>2, PodsKeepPoolInv, DNCKeepsPoolInv, ReconcileNCKeepsPoolInv
  DEF Environment, Progress, Others
<1>3. CASE UNCHANGED pvars
  BY <1>3 DEF pvars, poolVars, PoolInv, CountInv, ListedPending, LoopInv, SpecInv, DecreaseInv, At
<1> QED BY <1>1, <1>2, <1>3 DEF MonitorNext

\* So it holds in every behaviour.
LEMMA PoolInvariant ==
    ASSUME OneIsFree
    PROVE  MonitorSpec => []PoolInv
<1>1. PoolInv /\ [MonitorNext]_pvars => PoolInv'
  BY NextKeepsPoolInv
<1> QED BY <1>1, InitPoolInv, PTL DEF MonitorSpec

-----------------------------------------------------------------------------

\* No count of the table or of the NNC, and no request of the monitor, goes
\* below zero, whatever becomes of its patches, wherever it panics or restarts
\* and whatever the pods do between its steps (monitor.go: reconcile,
\* decreasePoolSize).
THEOREM MonitorTypeCorrect ==
    ASSUME OneIsFree
    PROVE  MonitorSpec => []PoolTypeOK
<1>1. PoolInv => PoolTypeOK
  BY DEF PoolInv, CountInv, LoopInv, NNCs, Pool, PoolTypeOK, DecreaseInv, At
<1> QED BY <1>1, PoolInvariant, PTL

\* Every listed IP that DNC has still to take is PendingRelease in the table,
\* though a scale-down publishes its list up to Attempts times and DNC may act
\* on a patch that was reported as failed (monitor.go: decreasePoolSize,
\* cleanPendingRelease).
THEOREM OnlyPendingIsListed ==
    ASSUME OneIsFree
    PROVE  MonitorSpec => []ListedPending
<1>1. PoolInv => ListedPending
  BY DEF PoolInv
<1> QED BY <1>1, PoolInvariant, PTL

=============================================================================
