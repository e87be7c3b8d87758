------------------------- MODULE DomainConfigProofs -------------------------
(***************************************************************************)
(* Proofs about DomainConfig and WeightedSelection, for every set of       *)
(* values an operator may write.                                           *)
(***************************************************************************)
EXTENDS WeightedSelection, FiniteSetTheorems, WellFoundedInduction, TLAPS

Config == [routing : [Fields -> Int], threshold : Int \cup {NaN},
           gateways : UNION {[1..n -> GatewayConfig] : n \in 0..MaxGateways}]

\* What is stored is in the normal form WithDefaults produces.
Normal ==
    /\ raw \in RawConfig
    /\ stored \in Config
    /\ \A f \in Fields : stored.routing[f] > 0
    /\ ThresholdAccepted(stored.threshold)

\* WithDefaults leaves every integer field positive.
LEMMA DefaultedPositive ==
    ASSUME NEW routing \in [Fields -> Int]
    PROVE  /\ Defaulted(routing) \in [Fields -> Int]
           /\ \A f \in Fields : Defaulted(routing)[f] > 0
<1>1. \A f \in Fields : DefaultRoutingConfig[f] \in Int /\ DefaultRoutingConfig[f] > 0
    BY DEF DefaultRoutingConfig, Fields
<1> QED BY <1>1 DEF Defaulted

\* The normal form holds at the start and is kept by every reload.
LEMMA NormalForm == Spec => []Normal
<1>1. Init => Normal
    <2> SUFFICES ASSUME Init PROVE Normal
        OBVIOUS
    <2>1. DefaultRoutingConfig \in [Fields -> Int]
          /\ \A f \in Fields : DefaultRoutingConfig[f] > 0
        BY DEF DefaultRoutingConfig, Fields
    <2>2. <<>> \in [1..0 -> GatewayConfig] /\ 0 \in 0..MaxGateways
        BY RawAssumption
    <2>3. NoConfig.gateways \in UNION {[1..n -> GatewayConfig] : n \in 0..MaxGateways}
        BY <2>2 DEF NoConfig
    <2> QED BY <2>1, <2>3 DEF Init, Normal, NoConfig, Config,
                DefaultThreshold, ThresholdAccepted, NotPositive, AboveOne, One
<1>2. Normal /\ [Load]_vars => Normal'
    <2> SUFFICES ASSUME Normal, [Load]_vars PROVE Normal'
        OBVIOUS
    <2>1. CASE UNCHANGED vars
        BY <2>1 DEF Normal, vars
    <2>2. CASE Load
        <3>1. /\ raw.routing \in [Fields -> Int] /\ raw.threshold \in Int \cup {NaN}
              /\ raw \in Config
            BY RawAssumption DEF Normal, RawConfig, Config
        <3>2. /\ stored'.routing = Defaulted(raw.routing)
              /\ stored'.threshold = Normalised(raw.threshold)
              /\ stored' \in [routing : {Defaulted(raw.routing)},
                              threshold : {Normalised(raw.threshold)},
                              gateways : {raw.gateways}]
            BY <2>2, <3>1 DEF Load, WithDefaults, Config
        <3>3. Normalised(raw.threshold) \in Int \cup {NaN}
            BY <3>1 DEF Normalised, NotPositive, AboveOne, DefaultThreshold, One
        <3>4. ThresholdAccepted(stored'.threshold)
            BY <2>2 DEF Load, Validate
        <3>5. stored' \in Config
            BY <3>1, <3>2, <3>3, DefaultedPositive DEF Config
        <3> QED BY <2>2, <3>1, <3>2, <3>4, <3>5, DefaultedPositive
                DEF Normal, Load
    <2> QED BY <2>1, <2>2
<1> QED BY <1>1, <1>2, PTL DEF Spec

\* Current().WithDefaults() is what reload stored: a second normalisation of
\* any accepted configuration changes nothing.
THEOREM ReadersAgreeHolds == Spec => []ReadersAgree
<1>1. Normal => ReadersAgree
    <2> SUFFICES ASSUME Normal PROVE ReadersAgree
        OBVIOUS
    <2>1. Defaulted(stored.routing) = stored.routing
        BY DEF Normal, Config, Defaulted
    <2>2. Normalised(stored.threshold) = stored.threshold
        BY DEF Normal, Normalised, ThresholdAccepted
    <2> QED BY <2>1, <2>2 DEF Normal, Config, ReadersAgree, WithDefaults
<1> QED BY <1>1, NormalForm, PTL

\* Whatever the file says, an accepted configuration has positive counts and
\* durations and a gateway that can be routed to.
THEOREM UsableHolds == Spec => []Usable
<1>1. Init => Usable
    BY DEF Init, Usable, NoConfig, DefaultRoutingConfig, Fields
<1>2. Usable /\ Normal /\ Normal' /\ [Load]_vars => Usable'
    <2> SUFFICES ASSUME Usable, Normal, Normal', [Load]_vars PROVE Usable'
        OBVIOUS
    <2>1. CASE UNCHANGED vars
        BY <2>1 DEF Usable, vars
    <2>2. CASE Load
        <3>1. /\ stored' = WithDefaults(raw)
              /\ Validate(WithDefaults(raw))
            BY <2>2 DEF Load
        <3>2. \E i \in DOMAIN stored'.gateways :
                 stored'.gateways[i].enabled /\ stored'.gateways[i].weight > 0
            BY <3>1 DEF Validate
        <3> QED BY <3>2 DEF Usable, Normal
    <2> QED BY <2>1, <2>2
<1> QED BY <1>1, <1>2, NormalForm, PTL DEF Spec
-----------------------------------------------------------------------------
(* Induction, as the absence of a least counterexample.                    *)

\* A nonempty set of natural numbers has a least element.
LEMMA LeastNumber ==
    ASSUME NEW T \in SUBSET Nat, T # {}
    PROVE  \E m \in T : \A n \in T : m <= n
<1>1. PICK top \in T : TRUE
    OBVIOUS
<1> DEFINE S == 1..top
           U == {1..u : u \in {v \in T : v <= top}}
           R == StrictSubsetOrdering(S)
<1>2. IsFiniteSet(S)
    BY FS_Interval
<1>3. U \subseteq SUBSET S /\ U # {}
    BY <1>1
<1>4. IsWellFoundedOn(R, SUBSET S)
    <2> HIDE DEF S
    <2>1. IsWellFoundedOn(R, FiniteSubsetsOf(S))
        BY FS_StrictSubsetOrderingWellFounded
    <2> QED BY <1>2, <2>1, FS_FiniteSubsetsOfFinite
<1>5. PICK I \in U : \A J \in U : ~ (<<J, I>> \in R)
    <2> HIDE DEF S, U, R
    <2> QED BY <1>3, <1>4, WFMin
<1>6. PICK m \in T : m <= top /\ I = 1..m
    BY <1>5
<1>7. ASSUME NEW n \in T, ~ (m <= n) PROVE FALSE
    <2>1. n \in Nat /\ m \in Nat /\ n < m /\ n <= top
        BY <1>6, <1>7
    <2>2. 1..n \subseteq 1..m /\ m \in 1..m /\ m \notin 1..n
        BY <2>1
    <2>3. 1..n \in U /\ 1..n \in SUBSET S /\ 1..m \in SUBSET S
        BY <1>6, <2>1
    <2>4. <<1..n, 1..m>> \in R
        BY <2>2, <2>3 DEF StrictSubsetOrdering
    <2> QED BY <1>5, <1>6, <2>3, <2>4
<1> QED BY <1>7

\* The values that a loop over a list of length N takes after each element.
Iterates(f, N, S, start, step) ==
    /\ f \in [0..N -> S]
    /\ f[0] = start
    /\ \A k \in 1..N : f[k] = step[k][f[k - 1]]

\* A loop over a list of length N runs to its end: from a start in S and a step
\* that stays in S it defines the value after each element.
LEMMA LoopFact ==
    ASSUME NEW S, NEW N \in Nat, NEW start \in S, NEW step \in [1..N -> [S -> S]]
    PROVE  \E f : Iterates(f, N, S, start, step)
<1> DEFINE Runs(n, f) == f \in [0..n -> S] /\ f[0] = start
                         /\ \A k \in 1..n : f[k] = step[k][f[k - 1]]
           Bad == {n \in 0..N : ~ \E f : Runs(n, f)}
<1>1. N \notin Bad => \E f : Runs(N, f)
    OBVIOUS
<1>2. SUFFICES ASSUME Bad # {} PROVE FALSE
    BY <1>1 DEF Iterates
<1>3. PICK m \in Bad : \A n \in Bad : m <= n
    <2>1. Bad \in SUBSET Nat
        OBVIOUS
    <2> HIDE DEF Bad
    <2> QED BY <1>2, <2>1, LeastNumber
<1>4. m # 0
    <2>1. Runs(0, [k \in 0..0 |-> start])
        OBVIOUS
    <2> QED BY <2>1
<1>5. m - 1 \in 0..N /\ m - 1 \notin Bad
    <2>1. m \in 0..N
        BY <1>3
    <2> HIDE DEF Bad
    <2> QED BY <1>3, <1>4, <2>1
<1>6. PICK f : Runs(m - 1, f)
    BY <1>5
<1> DEFINE g == [k \in 0..m |-> IF k = m THEN step[m][f[m - 1]] ELSE f[k]]
<1>7. f[m - 1] \in S /\ m \in 1..N
    BY <1>3, <1>4, <1>6
<1>8. step[m][f[m - 1]] \in S
    BY <1>7
<1>9. g \in [0..m -> S]
    <2>1. \A k \in 0..m : k # m => k \in 0..(m - 1)
        BY <1>7
    <2> QED BY <1>6, <1>8, <2>1
<1>10. \A k \in 1..m : g[k] = step[k][g[k - 1]]
    <2> SUFFICES ASSUME NEW k \in 1..m PROVE g[k] = step[k][g[k - 1]]
        OBVIOUS
    <2>1. k - 1 \in 0..m /\ k - 1 # m /\ k \in 0..m
        BY <1>7
    <2>2. g[k - 1] = f[k - 1]
        BY <2>1
    <2>3. CASE k = m
        BY <2>1, <2>2, <2>3
    <2>4. CASE k # m
        <3>1. k \in 1..(m - 1)
            BY <1>7, <2>4
        <3> QED BY <1>6, <2>1, <2>2, <2>4, <3>1
    <2> QED BY <2>3, <2>4
<1>11. g[0] = start
    BY <1>4, <1>6, <1>7
<1>12. Runs(m, g)
    <2> HIDE DEF g
    <2> QED BY <1>9, <1>10, <1>11
<1> QED BY <1>3, <1>12

-----------------------------------------------------------------------------
(* Weighted selection.                                                     *)

Candidate == {gateway \in GatewayConfig : gateway.weight \in Nat \ {0}}

\* The gateways of a stored configuration that are candidates for routing.
LEMMA CandidatesFact ==
    ASSUME NEW c \in Config, NEW healthy
    PROVE  SnapshotOf(c, healthy) \in Seq(Candidate)
<1> DEFINE N == Len(c.gateways)
           Taken(i) == i \in healthy /\ c.gateways[i].enabled /\ c.gateways[i].weight > 0
           Loop(f) == f = [i \in 0..N |->
                             IF i = 0 THEN <<>>
                             ELSE IF Taken(i) THEN Append(f[i - 1], c.gateways[i])
                                              ELSE f[i - 1]]
           step == [k \in 1..N |-> [s \in Seq(Candidate) |->
                      IF Taken(k) THEN Append(s, c.gateways[k]) ELSE s]]
<1>1. c.gateways \in Seq(GatewayConfig) /\ N \in Nat
    BY DEF Config
<1>2. \A i \in 1..N : Taken(i) => c.gateways[i] \in Candidate
    <2>1. \A i \in 1..N : c.gateways[i] \in GatewayConfig
        BY <1>1
    <2>2. \A g \in GatewayConfig : g.weight \in Int
        BY RawAssumption DEF GatewayConfig
    <2> QED BY <2>1, <2>2 DEF Candidate
<1>3. step \in [1..N -> [Seq(Candidate) -> Seq(Candidate)]]
    BY <1>2
<1>4. PICK f \in [0..N -> Seq(Candidate)] :
        f[0] = <<>> /\ \A k \in 1..N : f[k] = step[k][f[k - 1]]
    <2> DEFINE S == Seq(Candidate)
               start == <<>>
    <2>1. start \in S
        OBVIOUS
    <2>2. N \in Nat /\ step \in [1..N -> [S -> S]]
        BY <1>1, <1>3
    <2>3. \E f : Iterates(f, N, S, start, step)
        <3> HIDE DEF step, N, S, start
        <3> QED BY <2>1, <2>2, LoopFact
    <2> HIDE DEF step, N
    <2> QED BY <2>3 DEF Iterates
<1>5. \A k \in 1..N : f[k] = IF Taken(k) THEN Append(f[k - 1], c.gateways[k]) ELSE f[k - 1]
    <2> SUFFICES ASSUME NEW k \in 1..N
                 PROVE  f[k] = IF Taken(k) THEN Append(f[k - 1], c.gateways[k]) ELSE f[k - 1]
        OBVIOUS
    <2>1. f[k - 1] \in Seq(Candidate)
        BY <1>1, <1>4
    <2> QED BY <1>4, <2>1
<1>6. Loop(f)
    <2> HIDE DEF N, step, Taken
    <2>1. \A k \in 0..N : k # 0 => k \in 1..N
        BY <1>1
    <2>2. \A k \in 0..N : f[k] =
             IF k = 0 THEN <<>>
             ELSE IF Taken(k) THEN Append(f[k - 1], c.gateways[k]) ELSE f[k - 1]
        BY <1>4, <1>5, <2>1
    <2> QED BY <2>2
<1> DEFINE next == CHOOSE h : Loop(h)
<1>7. Loop(next)
    <2> HIDE DEF Loop
    <2> QED BY <1>6
<1>8. SnapshotOf(c, healthy) = next[N]
    BY DEF SnapshotOf
<1> DEFINE Bad == {i \in 0..N : next[i] \notin Seq(Candidate)}
<1>9. SUFFICES ASSUME Bad # {} PROVE FALSE
    <2>1. N \in 0..N
        BY <1>1
    <2> HIDE DEF next, N
    <2> QED BY <1>8, <2>1
<1>10. PICK m \in Bad : \A n \in Bad : m <= n
    <2>1. Bad \in SUBSET Nat
        BY <1>1
    <2> HIDE DEF Bad
    <2> QED BY <1>9, <2>1, LeastNumber
<1> HIDE DEF next, N, Taken
<1>11. m # 0
    BY <1>1, <1>7, <1>10
<1>12. m \in 1..N /\ m - 1 \in 0..N /\ m - 1 \notin Bad
    BY <1>1, <1>10, <1>11
<1>13. next[m] = IF Taken(m) THEN Append(next[m - 1], c.gateways[m]) ELSE next[m - 1]
    BY <1>7, <1>11, <1>12
<1>14. next[m - 1] \in Seq(Candidate)
    BY <1>12
<1>15. next[m] \in Seq(Candidate)
    <2>1. CASE Taken(m)
        <3>1. c.gateways[m] \in Candidate
            BY <1>2, <1>12, <2>1
        <3> QED BY <1>13, <1>14, <2>1, <3>1
    <2>2. CASE ~ Taken(m)
        BY <1>13, <1>14, <2>2
    <2> QED BY <2>1, <2>2
<1> QED BY <1>10, <1>15

\* The running sums of a list of candidates: they begin at 0 and each adds the
\* weight of one candidate, so they grow strictly.
LEMMA RunningFact ==
    ASSUME NEW c \in Seq(Candidate)
    PROVE  LET run == Running(c)
           IN  /\ run \in [0..Len(c) -> Nat]
               /\ run[0] = 0
               /\ \A k \in 1..Len(c) : run[k] = run[k - 1] + c[k].weight
<1> DEFINE N == Len(c)
           Loop(f) == f = [k \in 0..N |-> IF k = 0 THEN 0 ELSE f[k - 1] + c[k].weight]
           step == [k \in 1..N |-> [s \in Nat |-> s + c[k].weight]]
<1>1. N \in Nat /\ \A k \in 1..N : c[k].weight \in Nat
    BY DEF Candidate
<1>2. step \in [1..N -> [Nat -> Nat]]
    BY <1>1
<1>3. PICK f : Iterates(f, N, Nat, 0, step)
    <2> HIDE DEF step, N
    <2> QED BY <1>1, <1>2, LoopFact
<1>4. f \in [0..N -> Nat] /\ f[0] = 0
    BY <1>3 DEF Iterates
<1>5. \A k \in 1..N : f[k] = f[k - 1] + c[k].weight
    <2> SUFFICES ASSUME NEW k \in 1..N PROVE f[k] = f[k - 1] + c[k].weight
        OBVIOUS
    <2>1. f[k - 1] \in Nat
        BY <1>1, <1>4
    <2> QED BY <1>3, <2>1 DEF Iterates
<1>6. Loop(f)
    <2> HIDE DEF N
    <2>1. \A k \in 0..N : k # 0 => k \in 1..N
        BY <1>1
    <2>2. \A k \in 0..N : f[k] = IF k = 0 THEN 0 ELSE f[k - 1] + c[k].weight
        BY <1>4, <1>5, <2>1
    <2> QED BY <1>4, <2>2
<1> DEFINE sum == CHOOSE h : Loop(h)
<1>7. Loop(sum)
    <2> HIDE DEF Loop
    <2> QED BY <1>6
<1>8. Running(c) = sum
    BY DEF Running
<1> HIDE DEF sum
<1> DEFINE Bad == {i \in 0..N : sum[i] \notin Nat}
<1>9. ASSUME Bad # {} PROVE FALSE
    <2>1. PICK m \in Bad : \A n \in Bad : m <= n
        <3>1. Bad \in SUBSET Nat
            BY <1>1
        <3> HIDE DEF Bad
        <3> QED BY <1>9, <3>1, LeastNumber
    <2>2. m \in 0..N
        BY <2>1
    <2>3. sum[m] = IF m = 0 THEN 0 ELSE sum[m - 1] + c[m].weight
        BY <1>7, <2>2
    <2>4. m # 0
        BY <2>1, <2>3
    <2>5. m - 1 \in 0..N /\ m \in 1..N
        BY <1>1, <2>2, <2>4
    <2>6. m - 1 \notin Bad
        <3> HIDE DEF Bad
        <3> QED BY <1>1, <2>1, <2>2
    <2>7. sum[m - 1] \in Nat
        BY <2>5, <2>6
    <2> QED BY <1>1, <2>1, <2>3, <2>4, <2>5, <2>7
<1>10. \A i \in 0..N : sum[i] \in Nat
    BY <1>9
<1>11. sum[0] = 0 /\ \A k \in 1..N : sum[k] = sum[k - 1] + c[k].weight
    BY <1>1, <1>7
<1>12. sum \in [0..N -> Nat]
    <2> HIDE DEF N
    <2> QED BY <1>7, <1>10
<1> QED BY <1>8, <1>11, <1>12

\* A longer list of candidates has a larger running sum.
LEMMA RunningGrows ==
    ASSUME NEW c \in Seq(Candidate)
    PROVE  \A i, j \in 0..Len(c) : i < j => Running(c)[i] < Running(c)[j]
<1> DEFINE N == Len(c)
           run == Running(c)
           Bad == {j \in 0..N : \E i \in 0..N : i < j /\ ~ (run[i] < run[j])}
<1>1. /\ N \in Nat /\ run \in [0..N -> Nat]
      /\ \A k \in 1..N : run[k] = run[k - 1] + c[k].weight /\ c[k].weight \in Nat \ {0}
    BY RunningFact DEF Candidate
<1> HIDE DEF run, N
<1>2. ASSUME Bad # {} PROVE FALSE
    <2>1. PICK m \in Bad : \A n \in Bad : m <= n
        <3>1. Bad \in SUBSET Nat
            BY <1>1
        <3> HIDE DEF Bad
        <3> QED BY <1>2, <3>1, LeastNumber
    <2>2. PICK i \in 0..N : i < m /\ ~ (run[i] < run[m])
        BY <2>1
    <2>3. m \in 0..N
        BY <2>1
    <2>4. m \in 1..N /\ m - 1 \in 0..N
        BY <1>1, <2>2, <2>3
    <2>5. m - 1 \notin Bad
        <3> HIDE DEF Bad
        <3> QED BY <1>1, <2>1, <2>3
    <2>6. i < m - 1 => run[i] < run[m - 1]
        BY <2>4, <2>5
    <2>7. run[m - 1] < run[m]
        <3>1. run[m - 1] \in Nat
            BY <1>1, <2>4
        <3>2. run[m] = run[m - 1] + c[m].weight /\ c[m].weight \in Nat \ {0}
            BY <1>1, <2>4
        <3> QED BY <3>1, <3>2
    <2> QED BY <1>1, <2>2, <2>3, <2>4, <2>6, <2>7
<1>3. \A i, j \in 0..N : i < j => run[i] < run[j]
    BY <1>2
<1> QED BY <1>3 DEF run, N

\* The slots of the candidate at position k are the weight[k] numbers from the
\* running sum before it, and every slot is some candidate's.
LEMMA SlotFact ==
    ASSUME NEW c \in Seq(Candidate), NEW count \in Nat, NEW k \in DOMAIN c
    PROVE  LET run == Running(c)
               slot == count % run[Len(c)]
           IN  selectWeighted(c, count) = k <=> run[k - 1] <= slot /\ slot < run[k]
<1> DEFINE N == Len(c)
           run == Running(c)
           slot == count % run[N]
           First(i) == SlotBelow(slot, run[i]) /\ \A j \in 1..(i - 1) : ~ SlotBelow(slot, run[j])
<1>1. /\ N \in Nat /\ DOMAIN c = 1..N /\ run \in [0..N -> Nat] /\ run[0] = 0
      /\ \A i, j \in 0..N : i < j => run[i] < run[j]
    BY RunningFact, RunningGrows
<1>2. selectWeighted(c, count) = CHOOSE i \in 1..N : First(i)
    BY <1>1 DEF selectWeighted
<1> HIDE DEF run, N
<1>3. run[N] \in Nat /\ run[N] > 0 /\ 0 \in 0..N /\ N \in 0..N
    BY <1>1
<1>4. slot \in Nat /\ slot < run[N]
    BY <1>3
<1> HIDE DEF slot
<1>5. \E i \in 1..N : First(i)
    <2> DEFINE T == {i \in 1..N : slot < run[i]}
    <2>1. T \in SUBSET Nat /\ N \in T
        BY <1>1, <1>4
    <2>2. PICK m \in T : \A n \in T : m <= n
        <3> HIDE DEF T
        <3> QED BY <2>1, LeastNumber
    <2>3. m \in 1..N /\ slot < run[m]
        BY <2>2
    <2>4. \A j \in 1..(m - 1) : ~ (slot < run[j])
        <3> SUFFICES ASSUME NEW j \in 1..(m - 1), slot < run[j] PROVE FALSE
            OBVIOUS
        <3>1. j \in 1..N /\ j < m
            BY <1>1, <2>3
        <3>2. j \in T
            BY <3>1
        <3> HIDE DEF T
        <3> QED BY <1>1, <2>2, <2>3, <3>1, <3>2
    <2> QED BY <2>3, <2>4 DEF SlotBelow
<1>6. \A i \in 1..N : First(i) => run[i - 1] <= slot /\ slot < run[i]
    <2> SUFFICES ASSUME NEW i \in 1..N, First(i) PROVE run[i - 1] <= slot /\ slot < run[i]
        OBVIOUS
    <2>1. slot < run[i] /\ \A j \in 1..(i - 1) : ~ (slot < run[j])
        BY DEF SlotBelow
    <2>2. CASE i = 1
        BY <1>1, <1>4, <2>1, <2>2
    <2>3. CASE i # 1
        <3>1. i - 1 \in 1..(i - 1) /\ i - 1 \in 0..N
            BY <1>1, <2>3
        <3>2. run[i - 1] \in Nat /\ ~ (slot < run[i - 1])
            BY <1>1, <2>1, <3>1
        <3> QED BY <1>4, <2>1, <3>2
    <2> QED BY <2>2, <2>3
<1>7. \A i, j \in 1..N : /\ run[i - 1] <= slot /\ slot < run[i]
                         /\ run[j - 1] <= slot /\ slot < run[j] => i = j
    <2> SUFFICES ASSUME NEW i \in 1..N, NEW j \in 1..N, i < j,
                        slot < run[i], run[j - 1] <= slot
                 PROVE  FALSE
        BY <1>1
    <2>1. i \in 0..N /\ j - 1 \in 0..N /\ i <= j - 1
        BY <1>1
    <2>2. run[i] \in Nat /\ run[j - 1] \in Nat /\ run[i] <= run[j - 1]
        BY <1>1, <2>1
    <2> QED BY <1>4, <2>2
<1>8. (CHOOSE i \in 1..N : First(i)) \in 1..N /\ First(CHOOSE i \in 1..N : First(i))
    <2> HIDE DEF First
    <2> QED BY <1>5
<1> HIDE DEF First
<1>9. selectWeighted(c, count) = k <=> run[k - 1] <= slot /\ slot < run[k]
    BY <1>1, <1>2, <1>6, <1>7, <1>8
<1> QED BY <1>9 DEF slot, run, N

\* A counter that advances by n has its remainder advanced by n, around the end.
LEMMA AroundFact ==
    ASSUME NEW total \in Nat \ {0}, NEW before \in Nat, NEW n \in 1..total
    PROVE  LET b == before % total
           IN  /\ b \in 0..(total - 1)
               /\ (before + n) % total = IF b + n < total THEN b + n ELSE b + n - total
<1> DEFINE b == before % total
           q == before \div total
           r == (before + n) % total
           p == (before + n) \div total
<1>1. b \in 0..(total - 1) /\ q \in Int /\ before = total * q + b
    OBVIOUS
<1>2. r \in 0..(total - 1) /\ p \in Int /\ before + n = total * p + r
    OBVIOUS
<1> HIDE DEF b, q, r, p
<1>3. total * (p - q) = b + n - r
    BY <1>1, <1>2
<1>4. p - q \in Int /\ total * (p - q) > -total /\ total * (p - q) < 2 * total
    BY <1>1, <1>2, <1>3
<1>5. \A d \in Int : d >= 2 => total * d >= 2 * total
    OBVIOUS
<1>6. \A d \in Int : d <= -1 => total * d <= -total
    OBVIOUS
<1>7. p - q = 0 \/ p - q = 1
    BY <1>4, <1>5, <1>6
<1>8. r = IF b + n < total THEN b + n ELSE b + n - total
    BY <1>1, <1>2, <1>3, <1>7
<1> QED BY <1>1, <1>8 DEF b, r

\* A list of candidates shares out a full round by weight, wherever the counter
\* stands.
LEMMA RoundFact ==
    ASSUME NEW c \in Seq(Candidate), NEW before \in Nat, NEW k \in DOMAIN c
    PROVE  Cardinality({n \in 1..Running(c)[Len(c)] : selectWeighted(c, before + n) = k})
             = c[k].weight
<1> DEFINE N == Len(c)
           run == Running(c)
           total == run[N]
           b == before % total
           slot(n) == IF b + n < total THEN b + n ELSE b + n - total
           A == {n \in 1..total : selectWeighted(c, before + n) = k}
           B == run[k - 1]..(run[k] - 1)
<1>1. /\ N \in Nat /\ k \in 1..N /\ run \in [0..N -> Nat] /\ run[0] = 0
      /\ run[k] = run[k - 1] + c[k].weight /\ c[k].weight \in Nat \ {0}
      /\ \A i, j \in 0..N : i < j => run[i] < run[j]
    BY RunningFact, RunningGrows DEF Candidate
<1>2. A = {n \in 1..total : run[k - 1] <= (before + n) % total /\ (before + n) % total < run[k]}
    <2>1. total \in Nat
        BY <1>1
    <2>2. \A n \in 1..total : before + n \in Nat
        BY <2>1
    <2> QED BY <2>2, SlotFact
<1> HIDE DEF run, N
<1>3. total \in Nat \ {0} /\ k - 1 \in 0..N /\ k \in 0..N /\ N \in 0..N
    BY <1>1
<1>4. run[k - 1] \in Nat /\ run[k] \in Nat /\ run[k] <= total
    <2>1. run[k - 1] \in Nat /\ run[k] \in Nat
        BY <1>1, <1>3
    <2>2. k = N \/ run[k] < total
        BY <1>1, <1>3
    <2>3. total \in Nat
        BY <1>3
    <2> QED BY <2>1, <2>2, <2>3
<1>5. b \in 0..(total - 1) /\ \A n \in 1..total : (before + n) % total = slot(n)
    <2> HIDE DEF total
    <2>1. 1 \in 1..total
        BY <1>3
    <2>2. \A n \in 1..total : b \in 0..(total - 1) /\ (before + n) % total = slot(n)
        <3> SUFFICES ASSUME NEW n \in 1..total
                     PROVE  b \in 0..(total - 1) /\ (before + n) % total = slot(n)
            OBVIOUS
        <3>1. total \in Nat \ {0}
            BY <1>3
        <3> QED BY <3>1, AroundFact
    <2> QED BY <2>1, <2>2
<1> HIDE DEF total, b
<1>6. A = {n \in 1..total : slot(n) \in B}
    <2>1. \A n \in 1..total : slot(n) \in Int
        BY <1>3, <1>5
    <2> QED BY <1>2, <1>4, <1>5, <2>1
<1>7. [n \in A |-> slot(n)] \in Bijection(A, B)
    <2> DEFINE f == [n \in A |-> slot(n)]
    <2> HIDE DEF A
    <2>1. f \in [A -> B]
        BY <1>6
    <2>2. \A m, n \in A : f[m] = f[n] => m = n
        BY <1>3, <1>5, <1>6
    <2>3. ASSUME NEW s \in B PROVE \E n \in A : f[n] = s
        <3> DEFINE n == IF s > b THEN s - b ELSE s - b + total
        <3>1. n \in 1..total /\ slot(n) = s
            BY <1>3, <1>4, <1>5
        <3> QED BY <1>6, <3>1
    <2> QED BY <2>1, <2>2, <2>3 DEF Bijection, Injection, Surjection, IsInjective
<1>8. IsFiniteSet(B) /\ Cardinality(B) = c[k].weight
    <2> DEFINE lo == run[k - 1]
               hi == run[k] - 1
    <2>1. lo \in Int /\ hi \in Int /\ lo <= hi /\ hi - lo + 1 = c[k].weight
        BY <1>1, <1>4
    <2>2. B = lo..hi
        OBVIOUS
    <2> HIDE DEF lo, hi
    <2>3. IsFiniteSet(lo..hi) /\ Cardinality(lo..hi) = hi - lo + 1
        BY <2>1, FS_Interval
    <2> QED BY <2>1, <2>2, <2>3
<1>9. IsFiniteSet(A)
    <2>1. 1 \in Int /\ total \in Int /\ A \subseteq 1..total
        BY <1>3
    <2>2. IsFiniteSet(1..total)
        BY <2>1, FS_Interval
    <2> HIDE DEF A
    <2> QED BY <2>1, <2>2, FS_Subset
<1>10. Cardinality(A) = Cardinality(B)
    <2> HIDE DEF A, B
    <2> QED BY <1>7, <1>9, FS_Bijection DEF ExistsBijection
<1>11. Cardinality(A) = c[k].weight
    BY <1>8, <1>10
<1> QED BY <1>11 DEF total, run, N

\* Whatever the file, the health of its gateways and the counter: each candidate
\* of a snapshot is chosen exactly as often in a round as its weight says.
THEOREM FairSharesHolds == Spec => []FairShares
<1>1. Normal => FairShares
    <2> SUFFICES ASSUME Normal,
                        NEW healthy \in SUBSET DOMAIN stored.gateways,
                        NEW before \in 0..MaxCounter,
                        NEW k \in DOMAIN SnapshotOf(stored, healthy)
                 PROVE  LET candidates == SnapshotOf(stored, healthy)
                            total == Running(candidates)[Len(candidates)]
                        IN  Cardinality({n \in 1..total :
                              selectWeighted(candidates, before + n) = k})
                                = candidates[k].weight
        BY DEF FairShares
    <2>1. SnapshotOf(stored, healthy) \in Seq(Candidate)
        BY CandidatesFact DEF Normal
    <2>2. before \in Nat
        BY CounterAssumption
    <2> QED BY <2>1, <2>2, RoundFact
<1> QED BY <1>1, NormalForm, PTL
=============================================================================
