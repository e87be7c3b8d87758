---------------------------- MODULE StatsWindow ----------------------------
(***************************************************************************)
(* The callback statistics of one gateway in the two health repositories:  *)
(* the memory backend's event log, which an insert prunes, and Redis' hash *)
(* of counters per minute, whose keys expire                               *)
(* (internal/adapters/repository/{memory,redis}/                           *)
(* gateway_health_repository.go).  Both are fed the same events here, by   *)
(* HealthService.RecordOutcome calls that read the time and the            *)
(* configuration when they are entered and reach the repository later.     *)
(***************************************************************************)
EXTENDS Integers, FiniteSets

CONSTANTS
    Event,      \* the outcomes recorded, each by a call of its own
    Windows,    \* the values health_window_seconds takes over the reloads
    Minute,     \* the length of a bucket
    MaxClock    \* bound on the clock

ASSUME StatsAssumption ==
    /\ Windows # {} /\ Windows \subseteq Nat \ {0}
    /\ Minute \in Nat \ {0}
    /\ MaxClock \in Nat

VARIABLES
    clock,
    log,        \* memory: the events retained
    buckets,    \* Redis: the hash of each minute
    rec,        \* the RecordOutcome call of each event
    recorded    \* history: every event either repository was given

vars == <<clock, log, buckets, rec, recorded>>

Status == {"success", "failure"}
Times  == 0..MaxClock
Truncate(time) == time - (time % Minute)

\* A hash without a TTL has expiresAt 0.
NoHash == [successes |-> 0, failures |-> 0, expiresAt |-> 0]
IdleRec == [pc |-> "new", at |-> 0, window |-> 0, status |-> "success"]
DoneRec == [IdleRec EXCEPT !.pc = "done"]

Init ==
    /\ clock = 0
    /\ log = {}
    /\ buckets = [b \in {Truncate(time) : time \in Times} |-> NoHash]
    /\ rec = [e \in Event |-> IdleRec]
    /\ recorded = {}
-----------------------------------------------------------------------------
\* Seeded fault: only the window itself is retained.
RetentionOneWindow(window) == window

\* HealthService.RecordOutcome asks for twice the window.
Retention(window) == 2 * window

\* Seeded fault: the key lives for the retention and no longer.
KeyTTLBare(window) == Retention(window)

KeyTTL(window) == Retention(window) + 2 * Minute

\* A key whose deadline has passed is gone, and an increment creates it anew.
Hash(b) == IF buckets[b].expiresAt # 0 /\ clock >= buckets[b].expiresAt
             THEN NoHash ELSE buckets[b]

Increment(hash, status) ==
    IF status = "success" THEN [hash EXCEPT !.successes = @ + 1]
                          ELSE [hash EXCEPT !.failures = @ + 1]

\* RecordOutcome is entered: "now" and the configuration are read.
RecordOutcome(e, window, status) ==
    /\ rec[e].pc = "new"
    /\ rec' = [rec EXCEPT ![e] = [pc |-> "record", at |-> clock,
                                  window |-> window, status |-> status]]
    /\ UNCHANGED <<clock, log, buckets, recorded>>

\* RecordEvent: the memory backend's whole insert; in Redis, the first
\* command of the pipeline, HINCRBY.
RecordEvent(e) ==
    LET event == [id |-> e, at |-> rec[e].at, status |-> rec[e].status]
        cutoff == event.at - Retention(rec[e].window)
        b == Truncate(event.at)
    IN  /\ rec[e].pc = "record"
        /\ log' = {x \in log : x.at >= cutoff} \cup {event}
        /\ buckets' = [buckets EXCEPT ![b] = Increment(Hash(b), event.status)]
        /\ recorded' = recorded \cup {event}
        /\ rec' = [rec EXCEPT ![e].pc = "expire"]
        /\ UNCHANGED clock

\* The second command, EXPIRE: it counts from the server's time.
Expire(e) ==
    LET b == Truncate(rec[e].at)
    IN  /\ rec[e].pc = "expire"
        /\ buckets' = [buckets EXCEPT ![b] =
             IF Hash(b) = NoHash THEN NoHash
             ELSE [Hash(b) EXCEPT !.expiresAt = clock + KeyTTL(rec[e].window)]]
        /\ rec' = [rec EXCEPT ![e] = DoneRec]
        /\ UNCHANGED <<clock, log, recorded>>

\* The call fails: before the increment, or between the two commands.
RecordFails(e) ==
    /\ rec[e].pc \in {"record", "expire"}
    /\ rec' = [rec EXCEPT ![e] = DoneRec]
    /\ UNCHANGED <<clock, log, buckets, recorded>>

Tick ==
    /\ clock < MaxClock
    /\ clock' = clock + 1
    /\ UNCHANGED <<log, buckets, rec, recorded>>

Next ==
    \/ Tick
    \/ \E e \in Event : RecordEvent(e) \/ Expire(e) \/ RecordFails(e)
    \/ \E e \in Event, w \in Windows, s \in Status : RecordOutcome(e, w, s)

Spec == Init /\ [][Next]_vars
-----------------------------------------------------------------------------
(* StatsSince of either backend, and what it should have counted.          *)

Count(events, status) == Cardinality({x \in events : x.status = status})
Tally(events) == [successes |-> Count(events, "success"),
                  failures |-> Count(events, "failure")]

MemoryStats(since, until) == Tally({x \in log : since <= x.at /\ x.at <= until})

MinutesFrom(since, until) ==
    {b \in DOMAIN buckets : Truncate(since) <= b /\ b <= Truncate(until)}

RedisStats(since, until) ==
    LET minutes == MinutesFrom(since, until)
        sum[S \in SUBSET minutes] ==
          IF S = {} THEN [successes |-> 0, failures |-> 0]
          ELSE LET b == CHOOSE b \in S : TRUE
                   rest == sum[S \ {b}]
               IN  [successes |-> rest.successes + Hash(b).successes,
                    failures |-> rest.failures + Hash(b).failures]
    IN  sum[minutes]

\* A reader that read "now" some time ago and uses window w, while windows
\* down to the smallest have been in force.  Its delay must leave it within
\* the events that the smallest window retains.
SmallestWindow == CHOOSE w \in Windows : \A v \in Windows : w <= v
Timely(now, w) == now <= clock /\ (clock - now) + w <= 2 * SmallestWindow

\* The memory log still holds every event a timely reader should count,
\* although recorders that were delayed, or had read a smaller window,
\* prune it after newer ones.
MemoryExact ==
    \A now \in 0..clock, w \in Windows : Timely(now, w) =>
        MemoryStats(now - w, now) =
            Tally({x \in recorded : now - w <= x.at /\ x.at <= now})

\* Redis gives such a reader exactly the events of each minute its window
\* touches: nothing in them has expired, although a key's TTL is set by a
\* separate command that may come late, from an older configuration, or
\* not at all.
MinutesExact ==
    \A now \in 0..clock, w \in Windows : Timely(now, w) =>
        \A b \in MinutesFrom(now - w, now) :
            LET events == {x \in recorded : Truncate(x.at) = b}
            IN  /\ Hash(b).successes = Count(events, "success")
                /\ Hash(b).failures = Count(events, "failure")

\* Hence the sums it returns are those of the whole minutes from the one
\* its window begins in to the present one: no less than the window holds,
\* and no more than a minute on either side.
BucketsExact ==
    \A now \in 0..clock, w \in Windows : Timely(now, w) =>
        RedisStats(now - w, now) =
            Tally({x \in recorded : /\ Truncate(now - w) <= x.at
                                    /\ x.at < Truncate(now) + Minute})
=============================================================================
