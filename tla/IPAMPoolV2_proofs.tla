-------------------------- MODULE IPAMPoolV2_proofs --------------------------
(***************************************************************************)
(* The second pool monitor for every number of pods, every set of scalers  *)
(* that state a maximum, and every number of failed patches and restarts:  *)
(* no count goes below zero, DNC is only asked for IPs that are pending,   *)
(* and the target is the least that leaves the buffer free.                *)
(*                                                                         *)
(* ListedArePending is what keeps the counts above zero (DNC takes the     *)
(* listed IPs, a new process rebuilds the table from the list).  A patch   *)
(* keeps it because the spec that is published was built while nobody but  *)
(* the monitor marks IPs: it lists all that are still pending (SpecInv).   *)
(***************************************************************************)
EXTENDS IPAMPoolV2, TLAPS

\* Every scaler DNC writes states a maximum; with a maximum of zero the batch
\* would be zero too and the code divides by it.
MaxIsSet == \A s \in Scalers : s.max >= 1

NNCs == [requested : Nat, listed : Nat, taken : Nat, scaler : Scalers]

\* The counts of the pool, of the NNC and of what is on its way.
CountInv ==
    /\ pool \in Pool
    /\ nnc \in NNCs /\ nnc.taken <= nnc.listed
    /\ transit \in [given : Nat, taken : Nat] /\ transit.taken <= pool.pend
    /\ wanted \in 0 .. MaxPods /\ exhausted \in BOOLEAN

\* The monitor's own state.
LoopInv ==
    /\ scaler \in [batch : Nat \ {0}, max : Nat \ {0}, percent : Nat, exhausted : BOOLEAN]
    /\ demand \in 0 .. MaxPods /\ request \in Nat
    /\ pm \in [pc : {"wait", "idle", "reconcile", "mark", "build", "patch"}, target : Nat,
               spec : [requested : Nat, listed : Nat]]

\* A spec about to be published lists what is pending, and perhaps IPs that
\* have left the node since.
SpecInv == At("patch") => pm.spec.listed >= pool.pend - transit.taken

PoolInv == CountInv /\ LoopInv /\ SpecInv /\ ListedArePending

-----------------------------------------------------------------------------
(* The scaling function *)

\* Division that rounds up.
LEMMA CeilDivIsLeast ==
    ASSUME NEW a \in Nat, NEW b \in Nat \ {0}
    PROVE  /\ CeilDiv(a, b) \in Nat
           /\ b * CeilDiv(a, b) >= a
           /\ b * (CeilDiv(a, b) - 1) < a
<1> DEFINE n == a + b - 1
           q == n \div b
<1>1. n \in Nat /\ b > 0
  OBVIOUS
<1>2. q \in Nat /\ b * q <= n /\ n < b * (q + 1)
  BY <1>1, SMT
<1>3. CeilDiv(a, b) = q
  BY DEF CeilDiv
<1> HIDE DEF q
<1>4. b * (q + 1) = b * q + b /\ b * (q - 1) = b * q - b /\ b * q \in Int
  BY <1>2, SMT
<1> QED BY <1>1, <1>2, <1>3, <1>4, SMT

\* The target before it is cut off at the maximum: a multiple of the batch,
\* enough for the pods and the buffer, and one batch less would not do
\* (monitor.go: calculateTargetIPCount).
LEMMA TargetProperties ==
    ASSUME NEW d \in Nat, NEW batch \in Nat \ {0}, NEW percent \in Nat
    PROVE  /\ calculateTargetIPCount(d, batch, percent) \in Nat
           /\ calculateTargetIPCount(d, batch, percent) % batch = 0
           /\ 100 * (calculateTargetIPCount(d, batch, percent) - d) >= percent * batch
           /\ ~(100 * ((calculateTargetIPCount(d, batch, percent) - batch) - d) >= percent * batch)
<1> DEFINE a == percent * batch + 100 * d
           q == CeilDiv(a, 100 * batch)
<1>1. a \in Nat /\ 100 * batch \in Nat \ {0}
  BY SMT
<1>2. q \in Nat /\ (100 * batch) * q >= a /\ (100 * batch) * (q - 1) < a
  BY <1>1, CeilDivIsLeast
<1>3. calculateTargetIPCount(d, batch, percent) = batch * q
  BY DEF calculateTargetIPCount
<1> HIDE DEF q
<1> DEFINE x == batch * q
           y == percent * batch
<1>4. x \in Nat /\ y \in Nat /\ (100 * batch) * q = 100 * x /\ (100 * batch) * (q - 1) = 100 * x - 100 * batch
  BY <1>2, SMT
<1>5. x % batch = 0
  BY <1>2, SMT
<1> HIDE DEF x
<1>6. 100 * (x - d) >= y
  BY <1>2, <1>4, SMT
<1>7. ~(100 * ((x - batch) - d) >= y)
  BY <1>2, <1>4, SMT
<1> QED BY <1>3, <1>4, <1>5, <1>6, <1>7 DEF x

\* The least and the most of two integers.
LEMMA LeastMost ==
    ASSUME NEW a \in Int, NEW b \in Int
    PROVE  /\ Least(a, b) \in {a, b} /\ Least(a, b) <= a /\ Least(a, b) <= b
           /\ Most(a, b) \in {a, b} /\ Most(a, b) >= a /\ Most(a, b) >= b
  BY DEF Least, Most

\* The target is a count, with or without an exhausted subnet.
LEMMA TargetType ==
    ASSUME LoopInv, NEW d \in Nat
    PROVE  Target(d) \in Nat
<1>1. scaler.batch \in Nat \ {0} /\ scaler.max \in Nat /\ scaler.percent \in Nat
  BY DEF LoopInv
<1>2. calculateTargetIPCount(d, 1, 100) \in Nat
  <2>1. 1 \in Nat \ {0} /\ 100 \in Nat
    OBVIOUS
  <2> QED BY ONLY d \in Nat, <2>1, TargetProperties, Zenon
<1>4. calculateTargetIPCount(d, scaler.batch, scaler.percent) \in Nat
  BY <1>1, TargetProperties, Zenon
<1>3. \A a, b \in Nat : Least(a, b) \in Nat
  BY DEF Least
<1> QED BY <1>1, <1>2, <1>3, <1>4 DEF Target, calculateTargetIPCountOrMax

\* Of two multiples of a number the smaller is smaller by that number at least.
LEMMA NextMultiple ==
    ASSUME NEW batch \in Nat \ {0}, NEW m \in Nat, NEW n \in Nat,
           m % batch = 0, n % batch = 0, n < m
    PROVE  n <= m - batch
<1> DEFINE p == m \div batch
           q == n \div batch
<1>1. p \in Int /\ q \in Int /\ m = batch * p /\ n = batch * q
  BY SMT
<1> HIDE DEF p, q
<1>2. q < p
  <2>1. p <= q => batch * p <= batch * q
    BY <1>1, SMT
  <2> QED BY <1>1, <2>1, SMT
<1>3. batch * (q + 1) <= batch * p
  BY <1>1, <1>2, SMT
<1>4. batch * (q + 1) = batch * q + batch
  BY <1>1, SMT
<1>5. batch * q + batch <= batch * p
  BY <1>3, <1>4
<1> QED BY <1>1, <1>5, SMT

\* The target with a batch and a buffer, cut off at the maximum
\* (monitor.go: calculateTargetIPCountOrMax).
LEMMA LeastTarget ==
    ASSUME NEW d \in Nat, NEW batch \in Nat \ {0}, NEW percent \in Nat, NEW max \in Nat,
           NEW t, t = calculateTargetIPCountOrMax(d, batch, max, percent)
    PROVE  /\ t <= max
           /\ t = max \/ (t % batch = 0 /\ 100 * (t - d) >= percent * batch)
           /\ \A n \in 0 .. t - 1 : n % batch = 0 => ~(100 * (n - d) >= percent * batch)
<1> DEFINE m == calculateTargetIPCount(d, batch, percent)
           buffer == percent * batch
<1>1. m \in Nat /\ m % batch = 0 /\ 100 * (m - d) >= buffer /\ ~(100 * ((m - batch) - d) >= buffer)
  BY ONLY d \in Nat, batch \in Nat \ {0}, percent \in Nat, TargetProperties, Zenon
<1>2. t = Least(m, max)
  BY Zenon DEF calculateTargetIPCountOrMax
<1>3. buffer \in Nat
  BY SMT
<1> HIDE DEF m, buffer
<1>4. t \in Nat /\ t <= max /\ t <= m /\ (t = max \/ t = m)
  BY <1>1, <1>2 DEF Least
<1>5. t = max \/ (t % batch = 0 /\ 100 * (t - d) >= buffer)
  BY ONLY <1>1, <1>4, Zenon
<1>6. ASSUME NEW n \in 0 .. t - 1, n % batch = 0 PROVE ~(100 * (n - d) >= buffer)
  <2>1. n \in Nat /\ n < m
    BY <1>1, <1>4
  <2>2. n <= m - batch
    BY <1>1, <1>6, <2>1, NextMultiple
  <2> QED BY <1>1, <1>3, <2>1, <2>2, SMT
<1> QED BY <1>4, <1>5, <1>6 DEF buffer

\* The scaling function meets its reference (TargetIsLeast) in every state.
LEMMA TargetMeetsReference ==
    ASSUME LoopInv, MaxPods \in Nat
    PROVE  TargetIsLeast
<1> SUFFICES ASSUME NEW d \in 0 .. MaxPods
             PROVE  LET batch == IF scaler.exhausted THEN 1 ELSE scaler.batch
                        buffer == IF scaler.exhausted THEN 100 ELSE scaler.percent * scaler.batch
                        enough(n) == 100 * (n - d) >= buffer
                        t == Target(d)
                    IN  /\ t <= scaler.max
                        /\ t = scaler.max \/ (t % batch = 0 /\ enough(t))
                        /\ \A n \in 0 .. t - 1 : n % batch = 0 => ~enough(n)
  BY DEF TargetIsLeast
<1>1. d \in Nat /\ scaler.batch \in Nat \ {0} /\ scaler.max \in Nat /\ scaler.percent \in Nat
  BY DEF LoopInv
<1>2. CASE scaler.exhausted
  <2> SUFFICES ASSUME NEW one, one = 1, NEW hundred, hundred = 100
               PROVE  /\ Target(d) <= scaler.max
                      /\ Target(d) = scaler.max \/ (Target(d) % one = 0 /\ 100 * (Target(d) - d) >= hundred)
                      /\ \A n \in 0 .. Target(d) - 1 : n % one = 0 => ~(100 * (n - d) >= hundred)
    BY <1>2, Zenon
  <2>1. Target(d) = calculateTargetIPCountOrMax(d, one, scaler.max, hundred)
    BY <1>2, Zenon DEF Target
  <2>2. one \in Nat \ {0} /\ hundred \in Nat
    OBVIOUS
  <2>4. hundred * one = hundred
    OBVIOUS
  <2>3. /\ Target(d) <= scaler.max
        /\ Target(d) = scaler.max \/ (Target(d) % one = 0 /\ 100 * (Target(d) - d) >= hundred * one)
        /\ \A n \in 0 .. Target(d) - 1 : n % one = 0 => ~(100 * (n - d) >= hundred * one)
    BY ONLY <1>1, <2>1, <2>2, LeastTarget, Zenon
  <2> DEFINE t == Target(d)
             bound == hundred * one
  <2> HIDE DEF t, bound
  <2>5. /\ t <= scaler.max
        /\ t = scaler.max \/ (t % one = 0 /\ 100 * (t - d) >= bound)
        /\ \A n \in 0 .. t - 1 : n % one = 0 => ~(100 * (n - d) >= bound)
    BY <2>3 DEF t, bound
  <2>6. bound = hundred
    BY <2>4 DEF bound
  <2>7. /\ t <= scaler.max
        /\ t = scaler.max \/ (t % one = 0 /\ 100 * (t - d) >= hundred)
        /\ \A n \in 0 .. t - 1 : n % one = 0 => ~(100 * (n - d) >= hundred)
    BY ONLY <2>5, <2>6
  <2> QED BY <2>7 DEF t
<1>3. CASE ~scaler.exhausted
  <2>1. Target(d) = calculateTargetIPCountOrMax(d, scaler.batch, scaler.max, scaler.percent)
    BY <1>3, Zenon DEF Target
  <2>2. /\ Target(d) <= scaler.max
        /\ Target(d) = scaler.max \/ (Target(d) % scaler.batch = 0
                                        /\ 100 * (Target(d) - d) >= scaler.percent * scaler.batch)
        /\ \A n \in 0 .. Target(d) - 1 :
              n % scaler.batch = 0 => ~(100 * (n - d) >= scaler.percent * scaler.batch)
    BY ONLY <1>1, <2>1, LeastTarget, Zenon
  <2> QED BY <1>3, <2>2, Zenon
<1> QED BY <1>2, <1>3

-----------------------------------------------------------------------------
(* Pods, DNC and the NNC reconciler *)

\* V2Init: StartRequest IPs, all free, and a monitor that waits.
LEMMA InitPoolInv == V2Init => PoolInv
<1> SUFFICES ASSUME V2Init PROVE PoolInv
  OBVIOUS
<1> USE PoolConstants DEF V2Init, PoolInit
<1>1. CountInv
  <2>1. PICK s \in Scalers : nnc = [requested |-> StartRequest, listed |-> 0, taken |-> 0, scaler |-> s]
    OBVIOUS
  <2>2. nnc \in NNCs /\ nnc.taken <= nnc.listed
    BY <2>1 DEF NNCs
  <2>3. pool \in Pool /\ transit \in [given : Nat, taken : Nat] /\ transit.taken <= pool.pend
    BY DEF Pool
  <2>4. wanted \in 0 .. MaxPods
    OBVIOUS
  <2>5. exhausted \in BOOLEAN
    BY Zenon
  <2> QED BY <2>2, <2>3, <2>4, <2>5, Zenon DEF CountInv
<1>2. LoopInv
  BY DEF LoopInv, Waiting, Spec0
<1>3. SpecInv /\ ListedArePending
  BY DEF SpecInv, At, Waiting, ListedArePending
<1> QED BY <1>1, <1>2, <1>3 DEF PoolInv

\* The pods, the scaler and the subnet change; pods get and give back IPs.
LEMMA PodsKeepPoolInv ==
    ASSUME PoolInv, Others,
           Schedule \/ SetScaler \/ SetExhausted \/ AssignIP \/ ReleaseIP \/ Programmed
    PROVE  PoolInv'
<1> USE PoolConstants DEF PoolInv, Others
<1>1. LoopInv'
  BY DEF LoopInv
<1>2. CASE Schedule \/ SetExhausted
  BY <1>1, <1>2 DEF Schedule, SetExhausted, CountInv, SpecInv, At, ListedArePending
<1>3. CASE SetScaler
  <2>1. PICK s \in Scalers : nnc' = [nnc EXCEPT !.scaler = s]
    BY <1>3 DEF SetScaler
  <2>2. nnc' \in NNCs /\ nnc'.listed = nnc.listed /\ nnc'.taken = nnc.taken
    BY <2>1 DEF CountInv, NNCs
  <2> QED BY <1>1, <1>3, <2>2 DEF SetScaler, CountInv, SpecInv, At, ListedArePending
<1>4. CASE AssignIP \/ ReleaseIP \/ Programmed
  <2>1. pool' \in Pool /\ pool'.pend = pool.pend
    <3>1. pool.prog \in Nat /\ pool.avail \in Nat /\ pool.assigned \in Nat /\ pool.pend \in Nat /\ wanted \in Nat
      BY DEF CountInv, Pool
    <3>2. CASE AssignIP
      <4>1. pool.avail - 1 \in Nat /\ pool.assigned + 1 \in Nat
        BY <3>1, <3>2 DEF AssignIP
      <4>2. pool' = [prog |-> pool.prog, avail |-> pool.avail - 1,
                     assigned |-> pool.assigned + 1, pend |-> pool.pend]
        BY <3>2 DEF AssignIP, CountInv, Pool
      <4> QED BY <3>1, <4>1, <4>2 DEF Pool
    <3>3. CASE ReleaseIP
      <4>1. pool.avail + 1 \in Nat /\ pool.assigned - 1 \in Nat
        BY <3>1, <3>3 DEF ReleaseIP
      <4>2. pool' = [prog |-> pool.prog, avail |-> pool.avail + 1,
                     assigned |-> pool.assigned - 1, pend |-> pool.pend]
        BY <3>3 DEF ReleaseIP, CountInv, Pool
      <4> QED BY <3>1, <4>1, <4>2 DEF Pool
    <3>4. CASE Programmed
      <4>1. pool.avail + pool.prog \in Nat /\ 0 \in Nat
        BY <3>1
      <4>2. pool' = [prog |-> 0, avail |-> pool.avail + pool.prog,
                     assigned |-> pool.assigned, pend |-> pool.pend]
        BY <3>4 DEF Programmed, CountInv, Pool
      <4> QED BY <3>1, <4>1, <4>2 DEF Pool
    <3> QED BY <1>4, <3>2, <3>3, <3>4
  <2> QED BY <1>1, <1>4, <2>1 DEF AssignIP, ReleaseIP, Programmed, CountInv, SpecInv, At, ListedArePending
<1> QED BY <1>2, <1>3, <1>4

\* DNC takes back what is listed, all of it pending.
LEMMA DNCKeepsPoolInv ==
    ASSUME PoolInv, Others, DNC
    PROVE  PoolInv'
<1> USE DEF PoolInv
<1>1. /\ pool.pend \in Nat /\ nnc.listed \in Nat /\ nnc.taken \in Nat
      /\ transit.taken \in Nat /\ transit.given \in Nat /\ nnc.requested \in Nat
      /\ Allocated \in Int
  BY DEF CountInv, Pool, NNCs, Allocated, Total
<1> DEFINE back == nnc.listed - nnc.taken
           new == Most(0, nnc.requested - (Allocated - back))
<1>2. back \in Nat /\ new \in Nat
  BY <1>1, LeastMost DEF CountInv
<1>3. /\ nnc' = [nnc EXCEPT !.taken = nnc.listed]
      /\ transit' = [given |-> transit.given + new, taken |-> transit.taken + back]
      /\ UNCHANGED <<pool, wanted, exhausted, scaler, demand, request, pm>>
  BY DEF DNC, Others
<1> HIDE DEF new
<1>4. nnc' \in NNCs /\ nnc'.taken = nnc'.listed /\ transit' \in [given : Nat, taken : Nat]
  BY <1>1, <1>2, <1>3 DEF CountInv, NNCs
<1>5. transit'.taken = transit.taken + back /\ transit'.taken <= pool.pend
  BY <1>1, <1>2, <1>3 DEF ListedArePending
<1>6. CountInv' /\ LoopInv'
  <2>1. nnc'.taken <= nnc'.listed
    BY <1>4 DEF NNCs
  <2> QED BY <1>3, <1>4, <1>5, <2>1 DEF CountInv, LoopInv
<1>7. SpecInv' /\ ListedArePending'
  <2>1. pm'.spec.listed \in Nat
    BY <1>3 DEF LoopInv
  <2> QED BY <1>1, <1>2, <1>3, <1>4, <1>5, <2>1 DEF SpecInv, At, ListedArePending, NNCs
<1> QED BY <1>6, <1>7

\* The NNC reconciler deletes what DNC has taken and adds what it has given.
LEMMA ReconcileNCKeepsPoolInv ==
    ASSUME PoolInv, Others, ReconcileNC
    PROVE  PoolInv'
<1> USE DEF PoolInv
<1>1. /\ pool.pend \in Nat /\ nnc.listed \in Nat /\ nnc.taken \in Nat
      /\ transit.taken \in Nat /\ transit.given \in Nat
  BY DEF CountInv, Pool, NNCs
<1>2. /\ pool' \in Pool /\ pool'.pend = pool.pend - transit.taken
      /\ transit' = [given |-> 0, taken |-> 0]
      /\ UNCHANGED <<nnc, wanted, exhausted, scaler, demand, request, pm>>
  <2>1. /\ pool.prog + transit.given \in Nat /\ pool.avail \in Nat
        /\ pool.assigned \in Nat /\ pool.pend - transit.taken \in Nat
    BY <1>1 DEF CountInv, Pool
  <2>2. pool' = [prog |-> pool.prog + transit.given, avail |-> pool.avail,
                 assigned |-> pool.assigned, pend |-> pool.pend - transit.taken]
    BY DEF ReconcileNC, CountInv, Pool
  <2>3. pool' \in Pool /\ pool'.pend = pool.pend - transit.taken
    BY <2>1, <2>2 DEF Pool
  <2> QED BY <2>3 DEF ReconcileNC, Others
<1>3. CountInv' /\ LoopInv'
  BY <1>2 DEF CountInv, LoopInv, Pool
<1>4. SpecInv' /\ ListedArePending'
  BY <1>1, <1>2 DEF SpecInv, At, ListedArePending
<1> QED BY <1>3, <1>4

-----------------------------------------------------------------------------
(* The loop *)

\* Whatever the loop receives: demand, exhaustion, an NNC or a tick.
LEMMA ReceiveKeepsPoolInv ==
    ASSUME PoolInv, MaxIsSet, ReceiveDemand \/ ReceiveCSS \/ ReceiveNNC \/ Tick \/ reconcile
    PROVE  PoolInv'
<1> USE PoolConstants, V2Constants DEF PoolInv
<1>1. UNCHANGED poolVars
  BY DEF ReceiveDemand, ReceiveCSS, ReceiveNNC, Tick, reconcile
<1>2. CountInv' /\ ListedArePending'
  BY <1>1 DEF poolVars, CountInv, ListedArePending
<1>3. /\ pm'.pc \in {"wait", "idle", "reconcile", "mark"}
      /\ pm' \in [pc : {"wait", "idle", "reconcile", "mark", "build", "patch"}, target : Nat,
                  spec : [requested : Nat, listed : Nat]]
  <2>1. CASE ReceiveDemand \/ ReceiveCSS \/ ReceiveNNC \/ Tick
    BY <2>1 DEF ReceiveDemand, ReceiveCSS, ReceiveNNC, Tick, Received, Goto, LoopInv
  <2>2. CASE reconcile
    <3>1. Target(demand) \in Nat
      BY TargetType DEF LoopInv
    <3> QED BY <2>2, <3>1 DEF reconcile, LoopInv, IdlePM, Waiting, Spec0
  <2> QED BY <2>1, <2>2
<1>4. SpecInv'
  BY <1>3 DEF SpecInv, At
<1>5. LoopInv'
  <2>1. CASE ReceiveDemand \/ Tick \/ reconcile
    BY <1>3, <2>1 DEF ReceiveDemand, Tick, reconcile, LoopInv, CountInv
  <2>2. CASE ReceiveCSS
    BY <1>3, <2>2 DEF ReceiveCSS, LoopInv, CountInv
  <2>3. CASE ReceiveNNC
    <3> DEFINE s == nnc.scaler
               max == Least(s.max, DefaultMaxIPs)
               batch == Least(Most(s.batch, 1), max)
               percent == IF s.request < 0 THEN -s.request ELSE s.request
    <3>1. s.max \in Nat \ {0} /\ s.batch \in Int /\ s.request \in Int
      BY DEF CountInv, NNCs, MaxIsSet
    <3>2. max \in Nat \ {0}
      BY <3>1 DEF Least
    <3> HIDE DEF max
    <3>3. batch \in Nat \ {0}
      BY <3>1, <3>2 DEF Least, Most
    <3>4. percent \in Nat
      BY <3>1
    <3>5. scaler' = [scaler EXCEPT !.max = max, !.batch = batch, !.percent = percent]
      BY <2>3 DEF ReceiveNNC, max
    <3> HIDE DEF batch, percent
    <3>6. scaler' \in [batch : Nat \ {0}, max : Nat \ {0}, percent : Nat, exhausted : BOOLEAN]
      BY <3>2, <3>3, <3>4, <3>5 DEF LoopInv
    <3> QED BY <1>3, <2>3, <3>6 DEF ReceiveNNC, LoopInv, CountInv, NNCs
  <2> QED BY <2>1, <2>2, <2>3
<1> QED BY <1>2, <1>4, <1>5

\* MarkNIPsPendingRelease: there are as many free IPs as it marks.
LEMMA MarkKeepsPoolInv ==
    ASSUME PoolInv, MarkNIPsPendingRelease
    PROVE  PoolInv'
<1> USE DEF PoolInv
<1> DEFINE n == Most(0, request - pm.target)
<1>1. n \in Nat
  BY DEF LoopInv, Most
<1>2. /\ pool.prog \in Nat /\ pool.avail \in Nat /\ pool.assigned \in Nat /\ pool.pend \in Nat
      /\ transit.taken \in Nat /\ nnc.listed \in Nat /\ nnc.taken \in Nat
  BY DEF CountInv, Pool, NNCs
<1>3. At("mark") /\ UNCHANGED <<nnc, transit, wanted, exhausted, scaler, demand, request>>
  BY DEF MarkNIPsPendingRelease
<1>4. CASE n <= Free(pool) /\ MarkPending(n) /\ Goto("build")
  <2> HIDE DEF n
  <2> DEFINE l == Least(n, pool.prog)
  <2>1. l \in Nat /\ l <= n /\ l <= pool.prog /\ n - l <= pool.avail
    BY <1>1, <1>2, <1>4 DEF Least, Free
  <2>2. pool' = [pool EXCEPT !.prog = pool.prog - l, !.avail = pool.avail - (n - l), !.pend = pool.pend + n]
    BY <1>4 DEF MarkPending
  <2> HIDE DEF l
  <2>3. pool' \in Pool /\ pool'.pend = pool.pend + n
    <3>1. pool.prog - l \in Nat /\ pool.avail - (n - l) \in Nat /\ pool.pend + n \in Nat
      BY <1>1, <1>2, <2>1
    <3>2. pool' = [prog |-> pool.prog - l, avail |-> pool.avail - (n - l),
                   assigned |-> pool.assigned, pend |-> pool.pend + n]
      BY <2>2 DEF CountInv, Pool
    <3> QED BY <1>2, <3>1, <3>2 DEF Pool
  <2>4. LoopInv' /\ SpecInv'
    BY <1>3, <1>4 DEF Goto, LoopInv, SpecInv, At
  <2>5. CountInv' /\ ListedArePending'
    BY <1>1, <1>2, <1>3, <2>3 DEF CountInv, ListedArePending
  <2> QED BY <2>4, <2>5
<1>5. CASE UNCHANGED pool /\ pm' = IdlePM
  BY <1>3, <1>5 DEF CountInv, LoopInv, SpecInv, ListedArePending, At, IdlePM, Waiting, Spec0
<1> QED BY <1>4, <1>5 DEF MarkNIPsPendingRelease

\* buildNNCSpec: GetPendingReleaseIPConfigs is read.
LEMMA BuildKeepsPoolInv ==
    ASSUME PoolInv, buildNNCSpec
    PROVE  PoolInv'
<1> USE DEF PoolInv
<1>1. /\ pm' = [pm EXCEPT !.pc = "patch", !.spec = [requested |-> pm.target, listed |-> pool.pend]]
      /\ UNCHANGED <<poolVars, scaler, demand, request>>
  BY DEF buildNNCSpec, NNCSpec
<1>2. pool.pend \in Nat /\ transit.taken \in Nat /\ pm.target \in Nat
  BY DEF CountInv, Pool, LoopInv
<1>3. LoopInv' /\ pm'.spec.listed = pool.pend
  BY <1>1, <1>2 DEF LoopInv
<1>4. CountInv' /\ ListedArePending' /\ SpecInv'
  BY <1>1, <1>2, <1>3 DEF poolVars, CountInv, ListedArePending, SpecInv
<1> QED BY <1>3, <1>4

\* PatchSpec: the spec that is published lists every pending IP, so what it
\* lists and DNC has not taken is exactly what is pending.
LEMMA PatchSpecRight ==
    ASSUME PoolInv, At("patch"), PatchSpec(pm.spec)
    PROVE  nnc' \in NNCs /\ nnc'.taken <= nnc'.listed
           /\ nnc'.listed - nnc'.taken = pool.pend - transit.taken
<1>1. /\ pool.pend \in Nat /\ transit.taken \in Nat /\ transit.taken <= pool.pend
      /\ pm.spec.listed \in Nat /\ pm.spec.requested \in Nat
      /\ pm.spec.listed >= pool.pend - transit.taken
  BY DEF PoolInv, CountInv, Pool, LoopInv, SpecInv
<1> DEFINE taken == pm.spec.listed - (pool.pend - transit.taken)
<1>2. taken \in Nat /\ taken <= pm.spec.listed /\ pm.spec.listed - taken = pool.pend - transit.taken
  BY <1>1
<1>3. nnc' = [nnc EXCEPT !.requested = pm.spec.requested, !.listed = pm.spec.listed, !.taken = taken]
  BY DEF PatchSpec
<1> HIDE DEF taken
<1>4. nnc' \in NNCs /\ nnc'.listed = pm.spec.listed /\ nnc'.taken = taken
  BY <1>1, <1>2, <1>3 DEF PoolInv, CountInv, NNCs
<1> QED BY <1>2, <1>4

\* The patch succeeds, or fails and may have been applied.
LEMMA PatchKeepsPoolInv ==
    ASSUME PoolInv, Patched \/ NotPatched
    PROVE  PoolInv'
<1> USE DEF PoolInv
<1>1. /\ At("patch") /\ pm' = IdlePM
      /\ UNCHANGED <<pool, transit, wanted, exhausted, scaler, demand>>
      /\ PatchSpec(pm.spec) \/ UNCHANGED nnc
      /\ request' \in {request, pm.target}
  BY DEF Patched, NotPatched, PatchFails
<1>2. /\ nnc' \in NNCs /\ nnc'.taken <= nnc'.listed
      /\ nnc'.listed - nnc'.taken <= pool.pend - transit.taken
  <2>1. pool.pend - transit.taken \in Int
    BY DEF CountInv, Pool
  <2> QED BY <1>1, <2>1, PatchSpecRight DEF CountInv, ListedArePending
<1>3. CountInv' /\ ListedArePending'
  BY <1>1, <1>2 DEF CountInv, ListedArePending
<1>4. LoopInv' /\ SpecInv'
  BY <1>1 DEF LoopInv, SpecInv, At, IdlePM, Waiting, Spec0
<1> QED BY <1>3, <1>4

\* A new process: what is listed becomes pending again, everything else of
\* the node's IPs is there to be given out.
LEMMA CrashKeepsPoolInv ==
    ASSUME PoolInv, Crash
    PROVE  PoolInv'
<1> USE PoolConstants DEF PoolInv
<1>1. /\ pool.prog \in Nat /\ pool.avail \in Nat /\ pool.assigned \in Nat /\ pool.pend \in Nat
      /\ transit.taken \in Nat /\ transit.given \in Nat /\ nnc.listed \in Nat /\ nnc.taken \in Nat
      /\ nnc.taken <= nnc.listed /\ nnc.listed - nnc.taken <= pool.pend - transit.taken
  BY DEF CountInv, Pool, NNCs, ListedArePending
<1> DEFINE left == nnc.listed - nnc.taken
           prog == Allocated - pool.assigned - left
<1>2. left \in Nat /\ prog \in Nat
  BY <1>1 DEF Allocated, Total
<1>3. /\ pool' = [prog |-> prog, avail |-> 0, assigned |-> pool.assigned, pend |-> left]
      /\ transit' = [given |-> 0, taken |-> 0]
      /\ pm' = Waiting /\ demand' = 0 /\ scaler' = [scaler EXCEPT !.exhausted = FALSE]
      /\ UNCHANGED <<nnc, wanted, exhausted, request>>
  BY DEF Crash, Rebuild
<1> HIDE DEF prog, left
<1>4. CountInv'
  BY <1>1, <1>2, <1>3 DEF CountInv, Pool
<1>5. LoopInv' /\ SpecInv'
  <2>1. scaler' \in [batch : Nat \ {0}, max : Nat \ {0}, percent : Nat, exhausted : BOOLEAN]
    BY <1>3 DEF LoopInv
  <2>2. 0 \in 0 .. MaxPods
    OBVIOUS
  <2> QED BY <1>3, <2>1, <2>2 DEF LoopInv, SpecInv, At, Waiting, Spec0
<1>6. ListedArePending'
  BY <1>1, <1>2, <1>3 DEF ListedArePending, left
<1> QED BY <1>4, <1>5, <1>6

\* Every step of the monitor, the pods, DNC and the reconciler keeps the invariant.
LEMMA NextKeepsPoolInv == MaxIsSet /\ PoolInv /\ [V2Next]_v2vars => PoolInv'
<1> SUFFICES ASSUME MaxIsSet, PoolInv, [V2Next]_v2vars PROVE PoolInv'
  OBVIOUS
<1>1. CASE V2Next
  BY <1>1, PodsKeepPoolInv, DNCKeepsPoolInv, ReconcileNCKeepsPoolInv, ReceiveKeepsPoolInv,
     MarkKeepsPoolInv, BuildKeepsPoolInv, PatchKeepsPoolInv, CrashKeepsPoolInv
  DEF V2Next, Step, Environment, Progress
<1>2. CASE UNCHANGED v2vars
  BY <1>2 DEF v2vars, poolVars, PoolInv, CountInv, LoopInv, SpecInv, At, ListedArePending
<1> QED BY <1>1, <1>2

\* So it holds in every behaviour.
LEMMA PoolInvariant ==
    ASSUME MaxIsSet
    PROVE  V2Spec => []PoolInv
<1>1. PoolInv /\ [V2Next]_v2vars => PoolInv'
  BY NextKeepsPoolInv
<1> QED BY <1>1, InitPoolInv, PTL DEF V2Spec

-----------------------------------------------------------------------------

\* No count of the pool, of the NNC or of what is on its way goes below zero,
\* whatever the monitor, DNC, the pods and restarts do (monitor.go, v2).
THEOREM PoolTypeCorrect ==
    ASSUME MaxIsSet
    PROVE  V2Spec => []V2TypeOK
<1>1. PoolInv => V2TypeOK
  BY DEF PoolInv, CountInv, LoopInv, NNCs, Pool, V2TypeOK
<1> QED BY <1>1, PoolInvariant, PTL

\* Every listed IP that DNC has still to take is PendingRelease, also after a
\* patch that failed, was applied all the same or was cut short by a restart
\* (monitor.go, v2: reconcile, buildNNCSpec).
THEOREM OnlyPendingListed ==
    ASSUME MaxIsSet
    PROVE  V2Spec => []ListedArePending
<1>1. PoolInv => ListedArePending
  BY DEF PoolInv
<1> QED BY <1>1, PoolInvariant, PTL

\* The request is the least multiple of the batch that leaves the buffer free,
\* for every demand, batch and buffer, or the maximum (monitor.go, v2:
\* calculateTargetIPCountOrMax).
THEOREM TargetRight ==
    ASSUME MaxIsSet
    PROVE  V2Spec => []TargetIsLeast
<1>1. PoolInv => TargetIsLeast
  BY TargetMeetsReference, PoolConstants DEF PoolInv
<1> QED BY <1>1, PoolInvariant, PTL

=============================================================================
