-------------------------- MODULE StatsWindowProofs --------------------------
(***************************************************************************)
(* Proofs about the callback statistics of both repositories, for every    *)
(* set of events, every set of windows, every length of a bucket and any   *)
(* time.                                                                   *)
(***************************************************************************)
EXTENDS StatsWindow, FiniteSetTheorems, WellFoundedInduction, TLAPS

Buckets == {Truncate(time) : time \in Times}
Keep    == 2 * SmallestWindow

(* The types of the state, and that no call is ahead of the clock or has   *)
(* its event recorded before it recorded it.                               *)
StatsType ==
    /\ clock \in Times
    /\ rec \in [Event -> [pc : {"new", "record", "expire", "done"}, at : Nat,
                          window : Nat, status : Status]]
    /\ recorded \subseteq [id : Event, at : Nat, status : Status]
    /\ IsFiniteSet(recorded)
    /\ log \subseteq recorded
    /\ buckets \in [Buckets -> [successes : Nat, failures : Nat, expiresAt : Nat]]

CallsOK ==
    /\ \A e \in Event : rec[e].pc \in {"record", "expire"} =>
         rec[e].at <= clock /\ rec[e].window \in Windows
    /\ \A x \in recorded : x.at <= clock /\ rec[x.id].pc \in {"expire", "done"}

(* Memory: only events older than twice the smallest window are pruned.    *)
Retained == \A x \in recorded \ log : x.at < clock - Keep

(* Redis: a key lives for at least that long and two minutes more, and     *)
(* until then its counters are the events of its minute.                   *)
InMinute(b) == {x \in recorded : Truncate(x.at) = b}
Recent(b)   == b > clock - Keep - 2 * Minute

KeysLive ==
    \A b \in Buckets : buckets[b].expiresAt # 0 =>
        buckets[b].expiresAt >= b + Keep + 2 * Minute

CountersExact ==
    \A b \in Buckets : Recent(b) =>
        /\ buckets[b].successes = Count(InMinute(b), "success")
        /\ buckets[b].failures = Count(InMinute(b), "failure")

StatsInv == StatsType /\ CallsOK /\ Retained /\ KeysLive /\ CountersExact

-----------------------------------------------------------------------------
(* There is a smallest window.                                             *)
LEMMA SmallestFact ==
    /\ SmallestWindow \in Windows /\ SmallestWindow \in Nat
    /\ \A v \in Windows : SmallestWindow <= v
    /\ Keep \in Nat
    /\ \A v \in Windows : Retention(v) >= Keep /\ Retention(v) \in Nat
<1>1. Windows # {} /\ Windows \subseteq Nat
  BY StatsAssumption
<1>2. PICK top \in Windows : TRUE
  BY <1>1
<1>3. PICK w \in Windows : w <= top /\ \A v \in Windows : v <= top => w <= v
  <2> DEFINE S == 1..top
             T == {1..u : u \in {v \in Windows : v <= top}}
             R == StrictSubsetOrdering(S)
  <2>1. IsFiniteSet(S)
    BY <1>1, FS_Interval
  <2>2. T \subseteq SUBSET S /\ T # {}
    BY <1>1, <1>2
  <2>3. IsWellFoundedOn(R, SUBSET S)
    <3> HIDE DEF S
    <3>1. IsWellFoundedOn(R, FiniteSubsetsOf(S))
      BY FS_StrictSubsetOrderingWellFounded
    <3>2. QED
      BY <2>1, <3>1, FS_FiniteSubsetsOfFinite
  <2>4. PICK I \in T : \A J \in T : ~ (<<J, I>> \in R)
    <3> HIDE DEF S, T, R
    <3>1. QED
      BY <2>2, <2>3, WFMin
  <2>5. PICK w \in Windows : w <= top /\ I = 1..w
    BY <2>4
  <2>6. ASSUME NEW v \in Windows, v <= top, ~ (w <= v) PROVE FALSE
    <3>1. v \in Nat /\ w \in Nat /\ v < w
      BY <1>1, <2>6
    <3>2. 1..v \subseteq 1..w /\ w \in 1..w /\ w \notin 1..v
      BY <1>1, <2>6, <3>1
    <3>3. 1..v \in T /\ 1..v \in SUBSET S /\ 1..w \in SUBSET S
      BY <1>1, <2>5, <2>6
    <3>4. <<1..v, 1..w>> \in R
      BY <3>2, <3>3 DEF StrictSubsetOrdering
    <3>5. QED
      BY <2>4, <2>5, <3>3, <3>4
  <2>7. QED
    BY <2>5, <2>6
<1>4. \A v \in Windows : w <= v
  BY <1>1, <1>2, <1>3
<1>5. \E u \in Windows : \A v \in Windows : u <= v
  BY <1>3, <1>4
<1>6. SmallestWindow \in Windows /\ \A v \in Windows : SmallestWindow <= v
  BY <1>5 DEF SmallestWindow
<1>7. QED
  BY <1>1, <1>6 DEF Keep, Retention

(* A minute begins at or before each of its times, and less than a minute  *)
(* before.                                                                 *)
LEMMA TruncateFact ==
    ASSUME NEW time \in Int
    PROVE  /\ Truncate(time) \in Int
           /\ Truncate(time) <= time /\ time < Truncate(time) + Minute
BY StatsAssumption DEF Truncate

(* A key that may still be read has not expired.                           *)
LEMMA Unexpired ==
    ASSUME StatsType, KeysLive, NEW b \in Buckets, Recent(b)
    PROVE  Hash(b) = buckets[b]
<1>1. b \in Int /\ Keep \in Nat /\ Minute \in Nat /\ clock \in Nat
  BY StatsAssumption, SmallestFact, TruncateFact DEF StatsType, Buckets, Times
<1>2. buckets[b].expiresAt \in Nat
  BY DEF StatsType
<1>3. buckets[b].expiresAt # 0 => ~ (clock >= buckets[b].expiresAt)
  BY <1>1, <1>2 DEF KeysLive, Recent
<1>4. QED
  BY <1>3 DEF Hash
-----------------------------------------------------------------------------
(* Initially nothing is recorded and no key exists.                        *)
LEMMA StatsInit == Init => StatsInv
<1> SUFFICES ASSUME Init PROVE StatsInv
  OBVIOUS
<1>1. recorded = {} /\ log = {} /\ clock = 0 /\ rec = [e \in Event |-> IdleRec]
  BY DEF Init
<1>2. /\ buckets = [b \in Buckets |-> NoHash]
      /\ \A b \in Buckets : buckets[b].successes = 0 /\ buckets[b].failures = 0
                              /\ buckets[b].expiresAt = 0
  BY DEF Init, Buckets, NoHash
<1>3. StatsType
  BY <1>1, <1>2, FS_EmptySet, StatsAssumption
  DEF StatsType, Times, IdleRec, NoHash, Status
<1>4. CallsOK /\ Retained /\ KeysLive
  BY <1>1, <1>2 DEF CallsOK, Retained, KeysLive, IdleRec
<1>5. CountersExact
  <2>1. \A b, s : {x \in InMinute(b) : x.status = s} = {}
    BY <1>1 DEF InMinute
  <2>2. QED
    BY <1>2, <2>1, FS_EmptySet DEF CountersExact, Count
<1>6. QED
  BY <1>3, <1>4, <1>5 DEF StatsInv

(* The types and the times of the calls survive every step.                *)
LEMMA TypeStep == StatsInv /\ [Next]_vars => StatsType' /\ CallsOK'
<1> SUFFICES ASSUME StatsInv, [Next]_vars PROVE StatsType' /\ CallsOK'
  OBVIOUS
<1>t. StatsType /\ CallsOK /\ MaxClock \in Nat /\ Windows \subseteq Nat
  BY StatsAssumption DEF StatsInv
<1> DEFINE Call == [pc : {"new", "record", "expire", "done"}, at : Nat,
                    window : Nat, status : Status]
           HashType == [successes : Nat, failures : Nat, expiresAt : Nat]
<1>d. clock \in Nat /\ DoneRec \in Call /\ DoneRec.pc = "done" /\ NoHash \in HashType
  BY <1>t DEF StatsType, Times, DoneRec, IdleRec, NoHash, Status
<1>h. \A b \in Buckets : Hash(b) \in HashType
  BY <1>t, <1>d DEF StatsType, Hash
<1>1. CASE Tick
  BY <1>1, <1>t DEF Tick, StatsType, CallsOK, Times
<1>2. ASSUME NEW e \in Event, NEW w \in Windows, NEW s \in Status, RecordOutcome(e, w, s)
      PROVE  StatsType' /\ CallsOK'
  <2> DEFINE call == [pc |-> "record", at |-> clock, window |-> w, status |-> s]
  <2>1. call \in Call /\ call.pc = "record" /\ call.at = clock /\ call.window = w
    BY <1>t, <1>d
  <2>2. rec' = [rec EXCEPT ![e] = call] /\ rec[e].pc = "new"
        /\ UNCHANGED <<clock, log, buckets, recorded>>
    BY <1>2 DEF RecordOutcome
  <2> HIDE DEF call
  <2>3. rec' \in [Event -> Call] /\ \A d \in Event : rec'[d] = IF d = e THEN call ELSE rec[d]
    BY <1>t, <2>1, <2>2 DEF StatsType
  <2>4. StatsType'
    BY <1>t, <2>2, <2>3 DEF StatsType
  <2>5. \A x \in recorded : x.id # e /\ x.id \in Event
    BY <1>t, <2>2 DEF CallsOK, StatsType
  <2>6. CallsOK'
    BY <1>t, <1>d, <2>1, <2>2, <2>3, <2>5 DEF CallsOK
  <2>7. QED
    BY <2>4, <2>6
<1>3. ASSUME NEW e \in Event, RecordFails(e) PROVE StatsType' /\ CallsOK'
  <2>2. rec' = [rec EXCEPT ![e] = DoneRec]
        /\ UNCHANGED <<clock, log, buckets, recorded>>
    BY <1>3 DEF RecordFails
  <2>3. rec' \in [Event -> Call] /\ \A d \in Event : rec'[d] = IF d = e THEN DoneRec ELSE rec[d]
    BY <1>t, <1>d, <2>2 DEF StatsType
  <2>4. StatsType'
    BY <1>t, <2>2, <2>3 DEF StatsType
  <2>5. \A x \in recorded : x.id \in Event
    BY <1>t DEF StatsType
  <2>6. CallsOK'
    BY <1>t, <1>d, <2>2, <2>3, <2>5 DEF CallsOK
  <2>7. QED
    BY <2>4, <2>6
<1>4. ASSUME NEW e \in Event, Expire(e) PROVE StatsType' /\ CallsOK'
  <2> DEFINE b == Truncate(rec[e].at)
             h == IF Hash(b) = NoHash THEN NoHash
                  ELSE [Hash(b) EXCEPT !.expiresAt = clock + KeyTTL(rec[e].window)]
  <2>1. /\ rec' = [rec EXCEPT ![e] = DoneRec] /\ rec[e].pc = "expire"
        /\ buckets' = [buckets EXCEPT ![b] = h]
        /\ UNCHANGED <<clock, log, recorded>>
    BY <1>4 DEF Expire
  <2>2. rec' \in [Event -> Call] /\ \A d \in Event : rec'[d] = IF d = e THEN DoneRec ELSE rec[d]
    BY <1>t, <1>d, <2>1 DEF StatsType
  <2>3. b \in Buckets
    BY <1>t, <1>d, <2>1 DEF StatsType, CallsOK, Buckets, Times
  <2>4. h \in HashType
    <3>1. rec[e].window \in Nat /\ clock + KeyTTL(rec[e].window) \in Nat
      BY <1>t, <1>d, <2>1, StatsAssumption DEF StatsType, KeyTTL, Retention
    <3>2. Hash(b) \in HashType
      BY <1>h, <2>3
    <3>3. QED
      BY <1>d, <3>1, <3>2
  <2> HIDE DEF b, h
  <2>5. StatsType'
    <3>1. buckets' \in [Buckets -> HashType]
      BY <1>t, <2>1, <2>3, <2>4 DEF StatsType
    <3>2. QED
      BY <1>t, <2>1, <2>2, <3>1 DEF StatsType
  <2>6. \A x \in recorded : x.id \in Event
    BY <1>t DEF StatsType
  <2>7. CallsOK'
    BY <1>t, <1>d, <2>1, <2>2, <2>6 DEF CallsOK
  <2>8. QED
    BY <2>5, <2>7
<1>5. ASSUME NEW e \in Event, RecordEvent(e) PROVE StatsType' /\ CallsOK'
  <2> DEFINE event == [id |-> e, at |-> rec[e].at, status |-> rec[e].status]
             b == Truncate(rec[e].at)
             h == Increment(Hash(b), rec[e].status)
  <2>1. /\ rec' = [rec EXCEPT ![e].pc = "expire"] /\ rec[e].pc = "record"
        /\ buckets' = [buckets EXCEPT ![b] = h]
        /\ recorded' = recorded \cup {event} /\ clock' = clock
        /\ log' \subseteq log \cup {event}
    BY <1>5 DEF RecordEvent
  <2>2. /\ rec[e] \in Call /\ rec[e].at \in Nat /\ rec[e].status \in Status
        /\ rec[e].at <= clock /\ rec[e].window \in Windows
    BY <1>t, <2>1 DEF StatsType, CallsOK
  <2>3. event \in [id : Event, at : Nat, status : Status] /\ event.id = e
        /\ event.at = rec[e].at
    BY <2>2
  <2>4. b \in Buckets
    BY <1>t, <1>d, <2>2 DEF StatsType, Buckets, Times
  <2>5. h \in HashType
    <3>1. Hash(b) \in HashType
      BY <1>h, <2>4
    <3> HIDE DEF b
    <3>2. QED
      BY <3>1 DEF Increment
  <2> HIDE DEF event, b, h
  <2>6. /\ rec' \in [Event -> Call]
        /\ \A d \in Event : /\ rec'[d].pc = IF d = e THEN "expire" ELSE rec[d].pc
                            /\ rec'[d].at = rec[d].at /\ rec'[d].window = rec[d].window
    BY <1>t, <2>1 DEF StatsType
  <2>7. StatsType'
    <3>1. buckets' \in [Buckets -> HashType]
      BY <1>t, <2>1, <2>4, <2>5 DEF StatsType
    <3>2. IsFiniteSet(recorded')
      BY <1>t, <2>1, FS_AddElement DEF StatsType
    <3>3. QED
      BY <1>t, <2>1, <2>3, <2>6, <3>1, <3>2 DEF StatsType
  <2>8. \A x \in recorded : x.id \in Event
    BY <1>t DEF StatsType
  <2>9. CallsOK'
    BY <1>t, <2>1, <2>2, <2>3, <2>6, <2>8 DEF CallsOK
  <2>10. QED
    BY <2>7, <2>9
<1>6. CASE UNCHANGED vars
  BY <1>6, <1>t DEF vars, StatsType, CallsOK
<1>7. QED
  BY <1>1, <1>2, <1>3, <1>4, <1>5, <1>6 DEF Next
(* An insert prunes nothing that is within twice the smallest window of    *)
(* the present: its cutoff is that of an earlier time and a larger window. *)
LEMMA RetainedStep == StatsInv /\ [Next]_vars => Retained'
<1> SUFFICES ASSUME StatsInv, [Next]_vars PROVE Retained'
  OBVIOUS
<1>t. StatsType /\ CallsOK /\ Retained /\ clock \in Nat /\ Keep \in Nat
  BY SmallestFact DEF StatsInv, StatsType, Times
<1>x. \A x \in recorded : x.at \in Nat
  BY <1>t DEF StatsType
<1>k. Keep' = Keep
  BY DEF Keep, SmallestWindow
<1>1. CASE Tick
  BY <1>1, <1>t, <1>x, <1>k DEF Tick, Retained
<1>2. ASSUME NEW e \in Event, RecordEvent(e) PROVE Retained'
  <2> DEFINE event == [id |-> e, at |-> rec[e].at, status |-> rec[e].status]
             cutoff == rec[e].at - Retention(rec[e].window)
  <2>1. /\ log' = {x \in log : x.at >= cutoff} \cup {event}
        /\ recorded' = recorded \cup {event} /\ clock' = clock
        /\ rec[e].pc = "record"
    BY <1>2 DEF RecordEvent
  <2>2. rec[e].at \in Nat /\ rec[e].at <= clock /\ rec[e].window \in Windows
    BY <1>t, <2>1 DEF StatsType, CallsOK
  <2>3. Retention(rec[e].window) >= Keep /\ Retention(rec[e].window) \in Nat
    BY <2>2, SmallestFact
  <2>4. cutoff <= clock - Keep /\ cutoff \in Int
    BY <1>t, <2>2, <2>3
  <2> HIDE DEF cutoff, event
  <2>5. ASSUME NEW x \in recorded' \ log' PROVE x.at < clock - Keep
    <3>1. x \in recorded /\ x \notin log'
      BY <2>1, <2>5
    <3>2. CASE x \in log
      <4>1. ~ (x.at >= cutoff)
        BY <2>1, <3>1, <3>2
      <4>2. QED
        BY <1>t, <1>x, <2>4, <3>1, <4>1
    <3>3. CASE x \notin log
      BY <1>t, <3>1, <3>3 DEF Retained
    <3>4. QED
      BY <3>2, <3>3
  <2>6. QED
    BY <1>k, <2>1, <2>5 DEF Retained
<1>3. CASE UNCHANGED <<clock, log, recorded>>
  BY <1>3, <1>t, <1>k DEF Retained
<1>4. QED
  BY <1>1, <1>2, <1>3 DEF Next, vars, Expire, RecordFails, RecordOutcome

(* A new deadline counts from the server's time, which is no earlier than  *)
(* the minute of the key, with the retention of a window no smaller than   *)
(* the smallest; an increment keeps the deadline or starts a key without.  *)
LEMMA KeysStep == StatsInv /\ [Next]_vars => KeysLive'
<1> SUFFICES ASSUME StatsInv, [Next]_vars PROVE KeysLive'
  OBVIOUS
<1>t. /\ StatsType /\ CallsOK /\ KeysLive /\ clock \in Nat /\ Keep \in Nat
      /\ Minute \in Nat /\ MaxClock \in Nat
  BY SmallestFact, StatsAssumption DEF StatsInv, StatsType, Times
<1>k. Keep' = Keep /\ Buckets' = Buckets
  BY DEF Keep, SmallestWindow, Buckets, Times, Truncate
<1>b. Buckets \subseteq Int
  BY <1>t, TruncateFact DEF Buckets, Times
<1>h. \A b \in Buckets : /\ Hash(b).expiresAt \in {0, buckets[b].expiresAt}
                         /\ Hash(b) \in [successes : Nat, failures : Nat, expiresAt : Nat]
  BY <1>t DEF Hash, NoHash, StatsType
<1>m. ASSUME NEW b \in Buckets, NEW h, buckets' = [buckets EXCEPT ![b] = h],
             h.expiresAt # 0 => h.expiresAt >= b + Keep + 2 * Minute
      PROVE  KeysLive'
  <2>1. \A c \in Buckets : buckets'[c] = IF c = b THEN h ELSE buckets[c]
    BY <1>t, <1>m DEF StatsType
  <2>2. QED
    BY <1>t, <1>k, <1>m, <2>1 DEF KeysLive
<1>1. ASSUME NEW e \in Event, RecordEvent(e) PROVE KeysLive'
  <2> DEFINE b == Truncate(rec[e].at)
             h == Increment(Hash(b), rec[e].status)
  <2>1. buckets' = [buckets EXCEPT ![b] = h] /\ rec[e].pc = "record"
    BY <1>1 DEF RecordEvent
  <2>2. b \in Buckets
    BY <1>t, <2>1 DEF StatsType, CallsOK, Buckets, Times
  <2>3. h.expiresAt = Hash(b).expiresAt
    <3> HIDE DEF b
    <3>1. QED
      BY <1>h, <2>2 DEF Increment
  <2> HIDE DEF b, h
  <2>4. h.expiresAt # 0 => h.expiresAt >= b + Keep + 2 * Minute
    BY <1>t, <1>h, <2>2, <2>3 DEF KeysLive
  <2>5. QED
    BY <1>m, <2>1, <2>2, <2>4
<1>2. ASSUME NEW e \in Event, Expire(e) PROVE KeysLive'
  <2> DEFINE b == Truncate(rec[e].at)
             deadline == clock + KeyTTL(rec[e].window)
             h == IF Hash(b) = NoHash THEN NoHash
                  ELSE [Hash(b) EXCEPT !.expiresAt = deadline]
  <2>1. buckets' = [buckets EXCEPT ![b] = h] /\ rec[e].pc = "expire"
    BY <1>2 DEF Expire
  <2>2. rec[e].at \in Nat /\ rec[e].at <= clock /\ rec[e].window \in Windows
    BY <1>t, <2>1 DEF StatsType, CallsOK
  <2>3. b \in Buckets
    BY <1>t, <2>2 DEF StatsType, Buckets, Times
  <2>4. b <= rec[e].at /\ b \in Int
    BY <2>2, TruncateFact
  <2>5. deadline >= b + Keep + 2 * Minute /\ deadline \in Nat
    <3>1. Retention(rec[e].window) >= Keep /\ Retention(rec[e].window) \in Nat
      BY <2>2, SmallestFact
    <3> HIDE DEF b
    <3>2. QED
      BY <1>t, <2>2, <2>4, <3>1 DEF KeyTTL
  <2> HIDE DEF b, deadline
  <2>6. h.expiresAt \in {0, deadline}
    BY <1>h, <2>3 DEF NoHash
  <2> HIDE DEF h
  <2>7. QED
    BY <1>m, <2>1, <2>3, <2>5, <2>6
<1>3. CASE buckets' = buckets
  BY <1>3, <1>t, <1>k DEF KeysLive
<1>4. QED
  BY <1>1, <1>2, <1>3 DEF Next, vars, Tick, RecordFails, RecordOutcome

(* The counters of a key that may still be read are those of its minute:   *)
(* it has not expired, so an increment adds one to what it holds, and a    *)
(* deadline changes no counter.                                            *)
LEMMA CountersStep == StatsInv /\ [Next]_vars => CountersExact'
<1> SUFFICES ASSUME StatsInv, [Next]_vars PROVE CountersExact'
  OBVIOUS
<1>t. /\ StatsType /\ CallsOK /\ KeysLive /\ CountersExact /\ clock \in Nat /\ Keep \in Nat
      /\ Minute \in Nat /\ MaxClock \in Nat
  BY SmallestFact, StatsAssumption DEF StatsInv, StatsType, Times
<1>k. Keep' = Keep /\ Buckets' = Buckets
  BY DEF Keep, SmallestWindow, Buckets, Times, Truncate
<1>b. Buckets \subseteq Int
  BY <1>t, TruncateFact DEF Buckets, Times
<1>h. \A b \in Buckets : buckets[b] \in [successes : Nat, failures : Nat, expiresAt : Nat]
  BY <1>t DEF StatsType
<1>1. CASE clock' \in {clock, clock + 1} /\ UNCHANGED <<buckets, recorded>>
  <2>0. \A b, c, d, k, m \in Int : d >= c /\ b > d - k - 2 * m => b > c - k - 2 * m
    OBVIOUS
  <2>1. \A b \in Buckets : Recent(b)' => Recent(b)
    <3>1. TAKE b \in Buckets
    <3>2. b \in Int /\ clock' \in Nat /\ clock' >= clock
      BY <1>1, <1>t, <1>b
    <3>3. SUFFICES ASSUME b > clock' - Keep - 2 * Minute
                   PROVE  b > clock - Keep - 2 * Minute
      BY <1>k DEF Recent
    <3>4. clock \in Int /\ clock' \in Int /\ Keep \in Int /\ Minute \in Int
      BY <1>t, <3>2
    <3>5. QED
      BY <2>0, <3>2, <3>3, <3>4
  <2>2. \A b, s : Count(InMinute(b), s)' = Count(InMinute(b), s)
    BY <1>1 DEF Count, InMinute, Truncate
  <2>3. QED
    BY <1>1, <1>t, <1>k, <2>1, <2>2 DEF CountersExact
<1>2. ASSUME NEW e \in Event, Expire(e) PROVE CountersExact'
  <2> DEFINE b == Truncate(rec[e].at)
             h == IF Hash(b) = NoHash THEN NoHash
                  ELSE [Hash(b) EXCEPT !.expiresAt = clock + KeyTTL(rec[e].window)]
  <2>1. /\ buckets' = [buckets EXCEPT ![b] = h] /\ rec[e].pc = "expire"
        /\ UNCHANGED <<clock, recorded>>
    BY <1>2 DEF Expire
  <2>2. b \in Buckets
    BY <1>t, <2>1 DEF StatsType, CallsOK, Buckets, Times
  <2>3. Recent(b) => h.successes = buckets[b].successes /\ h.failures = buckets[b].failures
    <3>1. SUFFICES ASSUME Recent(b)
                   PROVE  h.successes = buckets[b].successes /\ h.failures = buckets[b].failures
      OBVIOUS
    <3>2. Hash(b) = buckets[b]
      BY <1>t, <2>2, <3>1, Unexpired
    <3> HIDE DEF b
    <3>3. QED
      BY <1>h, <2>2, <3>2 DEF NoHash
  <2> HIDE DEF b, h
  <2>4. \A c \in Buckets : buckets'[c] = IF c = b THEN h ELSE buckets[c]
    BY <1>t, <2>1, <2>2 DEF StatsType
  <2>5. \A c : Recent(c)' <=> Recent(c)
    BY <1>k, <2>1 DEF Recent
  <2>6. \A c, s : Count(InMinute(c), s)' = Count(InMinute(c), s)
    BY <2>1 DEF Count, InMinute, Truncate
  <2>7. QED
    BY <1>t, <1>k, <2>3, <2>4, <2>5, <2>6 DEF CountersExact
<1>3. ASSUME NEW e \in Event, RecordEvent(e) PROVE CountersExact'
  <2>p. PICK event, b, st, h :
          /\ event = [id |-> e, at |-> rec[e].at, status |-> rec[e].status]
          /\ b = Truncate(rec[e].at) /\ st = rec[e].status
          /\ h = Increment(Hash(b), st)
    OBVIOUS
  <2> DEFINE Of(c, s) == {x \in InMinute(c) : x.status = s}
  <2>1. /\ buckets' = [buckets EXCEPT ![b] = h] /\ rec[e].pc = "record"
        /\ recorded' = recorded \cup {event} /\ clock' = clock
    BY <1>3, <2>p DEF RecordEvent
  <2>2. b \in Buckets
    BY <1>t, <2>1, <2>p DEF StatsType, CallsOK, Buckets, Times
  <2>3. event.id = e /\ Truncate(event.at) = b /\ event.status = st
    BY <2>p
  <2>4. event \notin recorded
    BY <1>t, <2>1, <2>3 DEF CallsOK
  <2>5. st \in Status
    BY <1>t, <2>p DEF StatsType
  <2>6. \A c : InMinute(c)' = {x \in recorded' : Truncate(x.at) = c}
    BY DEF InMinute, Truncate
  <2>7. \A c, s : (c # b \/ s # st) => {x \in InMinute(c)' : x.status = s} = Of(c, s)
    BY <2>1, <2>3, <2>6 DEF InMinute
  <2>8. {x \in InMinute(b)' : x.status = st} = Of(b, st) \cup {event}
    BY <2>1, <2>3, <2>6 DEF InMinute
  <2>9. /\ \A c, s : (c # b \/ s # st) => Count(InMinute(c), s)' = Count(InMinute(c), s)
        /\ Count(InMinute(b), st)' = Count(InMinute(b), st) + 1
    <3>1. IsFiniteSet(Of(b, st)) /\ event \notin Of(b, st)
      BY <1>t, <2>4, FS_Subset DEF StatsType, InMinute
    <3>2. Cardinality(Of(b, st) \cup {event}) = Cardinality(Of(b, st)) + 1
      <4> HIDE DEF Of
      <4>1. QED
        BY <3>1, FS_AddElement
    <3>3. \A c, s : Count(InMinute(c), s)' = Cardinality({x \in InMinute(c)' : x.status = s})
      BY DEF Count
    <3>4. \A c, s : Count(InMinute(c), s) = Cardinality(Of(c, s))
      BY DEF Count
    <3> HIDE DEF Of
    <3>5. QED
      BY <2>7, <2>8, <3>2, <3>3, <3>4
  <2>10. Recent(b) =>
           /\ h.successes = buckets[b].successes + (IF st = "success" THEN 1 ELSE 0)
           /\ h.failures = buckets[b].failures + (IF st = "failure" THEN 1 ELSE 0)
    <3>1. SUFFICES ASSUME Recent(b)
                   PROVE  /\ h.successes = buckets[b].successes + (IF st = "success" THEN 1 ELSE 0)
                          /\ h.failures = buckets[b].failures + (IF st = "failure" THEN 1 ELSE 0)
      OBVIOUS
    <3>2. Hash(b) = buckets[b]
      BY <1>t, <2>2, <3>1, Unexpired
    <3>3. h = Increment(buckets[b], st)
      BY <2>p, <3>2
    <3>4. buckets[b] \in [successes : Nat, failures : Nat, expiresAt : Nat] /\ st \in Status
      BY <1>h, <2>2, <2>5
    <3>5. CASE st = "success"
      BY <3>3, <3>4, <3>5 DEF Increment
    <3>6. CASE st = "failure"
      BY <3>3, <3>4, <3>6 DEF Increment
    <3>7. QED
      BY <3>4, <3>5, <3>6 DEF Status
  <2> HIDE DEF Of
  <2>11. \A c \in Buckets : buckets'[c] = IF c = b THEN h ELSE buckets[c]
    BY <1>t, <2>1, <2>2 DEF StatsType
  <2>12. \A c : Recent(c)' <=> Recent(c)
    BY <1>k, <2>1 DEF Recent
  <2>13. ASSUME NEW c \in Buckets, Recent(c)
         PROVE  /\ buckets'[c].successes = Count(InMinute(c), "success")'
                /\ buckets'[c].failures = Count(InMinute(c), "failure")'
    <3>1. /\ buckets[c].successes = Count(InMinute(c), "success")
          /\ buckets[c].failures = Count(InMinute(c), "failure")
          /\ buckets[c].successes \in Nat /\ buckets[c].failures \in Nat
      BY <1>t, <1>h, <2>13 DEF CountersExact
    <3>2. CASE c # b
      BY <2>9, <2>11, <3>1, <3>2
    <3>3. CASE c = b /\ st = "success"
      <4>1. /\ Count(InMinute(b), "success")' = Count(InMinute(b), "success") + 1
            /\ Count(InMinute(b), "failure")' = Count(InMinute(b), "failure")
        BY <2>9, <3>3
      <4>2. h.successes = buckets[b].successes + 1 /\ h.failures = buckets[b].failures
        BY <2>10, <2>13, <3>1, <3>3
      <4>3. QED
        BY <2>11, <3>1, <3>3, <4>1, <4>2
    <3>4. CASE c = b /\ st = "failure"
      <4>1. /\ Count(InMinute(b), "failure")' = Count(InMinute(b), "failure") + 1
            /\ Count(InMinute(b), "success")' = Count(InMinute(b), "success")
        BY <2>9, <3>4
      <4>2. h.failures = buckets[b].failures + 1 /\ h.successes = buckets[b].successes
        BY <2>10, <2>13, <3>1, <3>4
      <4>3. QED
        BY <2>11, <3>1, <3>4, <4>1, <4>2
    <3>5. st \in {"success", "failure"}
      BY <2>5 DEF Status
    <3>6. QED
      BY <3>2, <3>3, <3>4, <3>5
  <2>14. QED
    BY <1>k, <2>12, <2>13 DEF CountersExact
<1>4. QED
  BY <1>1, <1>2, <1>3 DEF Next, vars, Tick, RecordFails, RecordOutcome

-----------------------------------------------------------------------------
(* StatsInv holds in every behaviour.                                      *)
THEOREM StatsInvariance == Spec => []StatsInv
<1>1. StatsInv /\ [Next]_vars => StatsInv'
  BY TypeStep, RetainedStep, KeysStep, CountersStep DEF StatsInv
<1>2. QED
  BY <1>1, StatsInit, PTL DEF Spec

(* A timely reader of the memory backend counts exactly the events of its  *)
(* window: whatever an insert has pruned is older.                         *)
THEOREM MemoryExactHolds == Spec => []MemoryExact
<1>1. ASSUME StatsInv PROVE MemoryExact
  <2>1. SUFFICES ASSUME NEW now \in 0..clock, NEW w \in Windows, Timely(now, w)
                 PROVE  MemoryStats(now - w, now) =
                          Tally({x \in recorded : now - w <= x.at /\ x.at <= now})
    BY DEF MemoryExact
  <2>2. /\ StatsType /\ Retained /\ clock \in Nat /\ Keep \in Nat /\ now \in Nat
        /\ w \in Nat /\ (clock - now) + w <= Keep /\ log \subseteq recorded
    BY <1>1, <2>1, SmallestFact, StatsAssumption
    DEF StatsInv, StatsType, Times, Timely, Keep
  <2>3. \A x \in recorded : x.at \in Nat
    BY <2>2 DEF StatsType
  <2>4. \A x \in recorded : now - w <= x.at => x \in log
    BY <2>2, <2>3 DEF Retained
  <2>5. {x \in log : now - w <= x.at /\ x.at <= now}
          = {x \in recorded : now - w <= x.at /\ x.at <= now}
    BY <2>2, <2>4
  <2>6. QED
    BY <2>5 DEF MemoryStats
<1>2. QED
  BY <1>1, StatsInvariance, PTL

(* A timely reader of Redis finds, in every minute its window touches,     *)
(* exactly the events of that minute: its key has not expired.             *)
LEMMA MinutesFact == StatsInv => MinutesExact
<1>1. SUFFICES ASSUME StatsInv, NEW now \in 0..clock, NEW w \in Windows, Timely(now, w),
                      NEW b \in MinutesFrom(now - w, now)
               PROVE  /\ Hash(b).successes = Count(InMinute(b), "success")
                      /\ Hash(b).failures = Count(InMinute(b), "failure")
  BY DEF MinutesExact, InMinute
<1>2. /\ StatsType /\ KeysLive /\ CountersExact /\ clock \in Nat /\ Keep \in Nat
      /\ now \in Nat /\ w \in Nat /\ (clock - now) + w <= Keep
      /\ Minute \in Nat /\ Minute >= 1
  BY <1>1, SmallestFact, StatsAssumption
  DEF StatsInv, StatsType, Times, Timely, Keep
<1>3. b \in Buckets /\ Truncate(now - w) <= b
  BY <1>2 DEF MinutesFrom, StatsType
<1>4. b \in Int
  BY <1>3, StatsAssumption, TruncateFact DEF Buckets, Times
<1>5. Truncate(now - w) \in Int /\ now - w < Truncate(now - w) + Minute
  BY <1>2, TruncateFact
<1>6. Recent(b)
  BY <1>2, <1>3, <1>4, <1>5 DEF Recent
<1>7. Hash(b) = buckets[b]
  BY <1>2, <1>3, <1>6, Unexpired
<1>8. QED
  BY <1>2, <1>3, <1>6, <1>7 DEF CountersExact

(* The minutes a timely reader adds up hold the events that were recorded  *)
(* in them.                                                                *)
THEOREM MinutesExactHolds == Spec => []MinutesExact
BY MinutesFact, StatsInvariance, PTL

-----------------------------------------------------------------------------
(* The sums of the minutes.                                                *)

(* A set of subsets of a finite S holds them all if it holds the empty one *)
(* and every one that it holds with any one element removed.               *)
LEMMA SubsetInduction ==
    ASSUME NEW S, IsFiniteSet(S), NEW T, {} \in T,
           \A s \in SUBSET S : s # {} /\ (\A x \in s : s \ {x} \in T) => s \in T
    PROVE  SUBSET S \subseteq T
<1> DEFINE Bad == (SUBSET S) \ T
           R == StrictSubsetOrdering(S)
<1>1. SUFFICES ASSUME Bad # {} PROVE FALSE
  OBVIOUS
<1>2. IsWellFoundedOn(R, SUBSET S)
  BY FS_StrictSubsetOrderingWellFounded, FS_FiniteSubsetsOfFinite
<1>3. PICK m \in Bad : \A n \in Bad : ~ (<<n, m>> \in R)
  <2>1. Bad \subseteq SUBSET S
    OBVIOUS
  <2>2. QED
    <3> HIDE DEF Bad, R
    <3>1. QED
      BY <1>1, <1>2, <2>1, WFMin
<1>4. m \in SUBSET S /\ m \notin T /\ m # {}
  BY <1>3
<1>5. ASSUME NEW x \in m PROVE m \ {x} \in T
  <2>1. m \ {x} \in SUBSET S /\ m \ {x} # m
    BY <1>4
  <2>2. <<m \ {x}, m>> \in R
    BY <1>4, <2>1 DEF StrictSubsetOrdering
  <2>3. QED
    BY <1>3, <2>1, <2>2
<1>6. \A x \in m : m \ {x} \in T
  BY <1>5
<1> HIDE DEF Bad, R
<1>7. QED
  BY <1>4, <1>6

(* A time is at or after the beginning of a minute if its own minute is.   *)
LEMMA TruncateOrder ==
    ASSUME NEW a \in Int, NEW x \in Int
    PROVE  /\ Truncate(a) <= Truncate(x) <=> Truncate(a) <= x
           /\ Truncate(x) <= Truncate(a) <=> x < Truncate(a) + Minute
<1>1. Minute \in Nat \ {0}
  BY StatsAssumption
<1> DEFINE p == a \div Minute
           q == x \div Minute
<1>2. p \in Int /\ q \in Int /\ Truncate(a) = Minute * p /\ Truncate(x) = Minute * q
  BY <1>1 DEF Truncate
<1>3. Minute * q <= x /\ x < Minute * q + Minute
  BY <1>1, <1>2, TruncateFact
<1> HIDE DEF p, q
<1>4. p <= q => Minute * p <= Minute * q
  BY <1>1, <1>2
<1>5. q + 1 <= p => Minute * (q + 1) <= Minute * p
  BY <1>1, <1>2
<1>6. p + 1 <= q => Minute * (p + 1) <= Minute * q
  BY <1>1, <1>2
<1>7. q <= p => Minute * q <= Minute * p
  BY <1>1, <1>2
<1>8. Minute * (q + 1) = Minute * q + Minute /\ Minute * (p + 1) = Minute * p + Minute
  BY <1>1, <1>2
<1>9. p <= q \/ q + 1 <= p
  BY <1>2
<1>10. q <= p \/ p + 1 <= q
  BY <1>2
<1>11. QED
  BY <1>1, <1>2, <1>3, <1>4, <1>5, <1>6, <1>7, <1>8, <1>9, <1>10

(* The minutes that Redis keeps are finitely many.                         *)
LEMMA BucketsFinite == IsFiniteSet(Buckets)
<1>1. IsFiniteSet(Times)
  BY StatsAssumption, FS_Interval DEF Times
<1> DEFINE f == [time \in Times |-> Truncate(time)]
<1>2. f \in Surjection(Times, Buckets)
  BY DEF Buckets, Surjection
<1>3. QED
  BY <1>1, <1>2, FS_Surjection

(* Counting the events of one minute apart from those of others.           *)
LEMMA CountApart ==
    ASSUME StatsType, NEW S, NEW b \in S, NEW status
    PROVE  Count({x \in recorded : Truncate(x.at) \in S}, status)
             = Count({x \in recorded : Truncate(x.at) \in S \ {b}}, status)
                 + Count(InMinute(b), status)
<1> DEFINE A == {x \in {y \in recorded : Truncate(y.at) \in S \ {b}} : x.status = status}
           B == {x \in InMinute(b) : x.status = status}
           C == {x \in {y \in recorded : Truncate(y.at) \in S} : x.status = status}
<1>1. A \cup B = C /\ A \cap B = {} /\ A \subseteq recorded /\ B \subseteq recorded
  BY DEF InMinute
<1>2. IsFiniteSet(recorded)
  BY DEF StatsType
<1> HIDE DEF A, B, C
<1>3. IsFiniteSet(A) /\ IsFiniteSet(B)
  BY <1>1, <1>2, FS_Subset
<1>4. Cardinality(A) \in Nat /\ Cardinality(B) \in Nat
  BY <1>3, FS_CardinalityType
<1>5. Cardinality(C) = Cardinality(A) + Cardinality(B) - Cardinality(A \cap B)
  BY <1>1, <1>3, FS_Union
<1>6. Cardinality(C) = Cardinality(A) + Cardinality(B)
  <2>1. Cardinality(A \cap B) = 0
    BY <1>1, FS_EmptySet
  <2>2. QED
    BY <1>4, <1>5, <2>1
<1>7. QED
  BY <1>6 DEF A, B, C, Count

(* A timely reader of Redis is given the events of all the minutes that    *)
(* its window touches, and no other: the pipeline reads each minute once   *)
(* and adds what it finds.                                                 *)
THEOREM BucketsExactHolds == Spec => []BucketsExact
<1>1. ASSUME StatsInv PROVE BucketsExact
  <2>1. SUFFICES ASSUME NEW now \in 0..clock, NEW w \in Windows, Timely(now, w)
                 PROVE  RedisStats(now - w, now) =
                          Tally({x \in recorded : /\ Truncate(now - w) <= x.at
                                                  /\ x.at < Truncate(now) + Minute})
    BY DEF BucketsExact
  <2> DEFINE minutes == MinutesFrom(now - w, now)
             In(S) == {x \in recorded : Truncate(x.at) \in S}
             Adds(h) == h = [S \in SUBSET minutes |->
                           IF S = {} THEN [successes |-> 0, failures |-> 0]
                           ELSE LET b == CHOOSE b \in S : TRUE
                                    rest == h[S \ {b}]
                                IN  [successes |-> rest.successes + Hash(b).successes,
                                     failures |-> rest.failures + Hash(b).failures]]
             counts == [S \in SUBSET minutes |-> Tally(In(S))]
             sum == CHOOSE h : Adds(h)
  <2>2. StatsType /\ clock \in Nat /\ now \in Nat /\ w \in Nat
    BY <1>1, <2>1, StatsAssumption DEF StatsInv, StatsType, Times
  <2>3. \A b \in minutes : /\ Hash(b).successes = Count(InMinute(b), "success")
                           /\ Hash(b).failures = Count(InMinute(b), "failure")
    BY <1>1, <2>1, MinutesFact DEF MinutesExact, InMinute
  <2>4. IsFiniteSet(minutes)
    <3>1. minutes \subseteq Buckets
      BY <2>2 DEF MinutesFrom, StatsType
    <3>2. QED
      BY <3>1, BucketsFinite, FS_Subset
  <2>5. In(minutes) = {x \in recorded : /\ Truncate(now - w) <= x.at
                                        /\ x.at < Truncate(now) + Minute}
    <3> SUFFICES ASSUME NEW x \in recorded
                 PROVE  Truncate(x.at) \in minutes
                          <=> Truncate(now - w) <= x.at /\ x.at < Truncate(now) + Minute
      OBVIOUS
    <3>1. x.at \in Times /\ x.at \in Int
      BY <1>1, <2>2, StatsAssumption DEF StatsInv, StatsType, CallsOK, Times
    <3>2. Truncate(x.at) \in DOMAIN buckets
      BY <2>2, <3>1 DEF StatsType, Buckets
    <3>3. QED
      BY <2>2, <3>1, <3>2, TruncateOrder DEF MinutesFrom
  <2> HIDE DEF minutes
  <2>6. counts[{}] = [successes |-> 0, failures |-> 0]
    <3>1. \A s : {x \in In({}) : x.status = s} = {}
      OBVIOUS
    <3>2. QED
      BY <3>1, FS_EmptySet DEF Tally, Count
  <2>7. \A S \in SUBSET minutes : \A b \in S :
          counts[S] = [successes |-> counts[S \ {b}].successes + Hash(b).successes,
                       failures |-> counts[S \ {b}].failures + Hash(b).failures]
    <3> SUFFICES ASSUME NEW S \in SUBSET minutes, NEW b \in S
                 PROVE  counts[S] =
                          [successes |-> counts[S \ {b}].successes + Hash(b).successes,
                           failures |-> counts[S \ {b}].failures + Hash(b).failures]
      OBVIOUS
    <3>1. counts[S] = Tally(In(S)) /\ counts[S \ {b}] = Tally(In(S \ {b}))
      OBVIOUS
    <3>2. \A status : Count(In(S), status)
                       = Count(In(S \ {b}), status) + Count(InMinute(b), status)
      BY <2>2, CountApart
    <3>3. QED
      BY <2>3, <3>1, <3>2 DEF Tally
  <2> HIDE DEF counts
  <2>8. Adds(counts)
    <3>1. \A S \in SUBSET minutes : S # {} => (CHOOSE b \in S : TRUE) \in S
      OBVIOUS
    <3>2. counts = [S \in SUBSET minutes |-> counts[S]]
      BY DEF counts
    <3>3. QED
      BY <2>6, <2>7, <3>1, <3>2
  <2>9. Adds(sum)
    <3> HIDE DEF Adds
    <3>1. QED
      BY <2>8
  <2>10. RedisStats(now - w, now) = sum[minutes]
    BY DEF RedisStats, minutes
  <2> HIDE DEF sum
  <2> DEFINE T == {S \in SUBSET minutes : sum[S] = counts[S]}
  <2>11. SUBSET minutes \subseteq T
    <3>1. {} \in T
      BY <2>6, <2>9
    <3>2. ASSUME NEW S \in SUBSET minutes, S # {}, \A x \in S : S \ {x} \in T
          PROVE  S \in T
      <4> DEFINE b == CHOOSE b \in S : TRUE
      <4>1. b \in S
        BY <3>2
      <4> HIDE DEF b
      <4>2. sum[S \ {b}] = counts[S \ {b}]
        BY <3>2, <4>1
      <4>3. sum[S] = [successes |-> sum[S \ {b}].successes + Hash(b).successes,
                      failures |-> sum[S \ {b}].failures + Hash(b).failures]
        BY <2>9, <3>2 DEF b
      <4>4. QED
        BY <2>7, <4>1, <4>2, <4>3
    <3>3. QED
      <4> HIDE DEF T
      <4>1. QED
        BY <2>4, <3>1, <3>2, SubsetInduction
  <2>12. sum[minutes] = counts[minutes]
    BY <2>11
  <2>13. QED
    BY <2>5, <2>10, <2>12 DEF counts
<1>2. QED
  BY <1>1, StatsInvariance, PTL

=============================================================================
