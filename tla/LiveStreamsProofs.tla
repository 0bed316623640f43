------------------------- MODULE LiveStreamsProofs -------------------------
(***************************************************************************)
(* Theorems of LiveStreams, for any number of clients, any batch, capacity *)
(* and TTL, and without a bound on events, alerts and time.                *)
(***************************************************************************)
EXTENDS LiveStreams, TLAPS, FiniteSetTheorems, WellFoundedInduction

---------------------------------------------------------------------------
(* Reading a stream: ids are intervals.                                    *)

(* How many ids of an interval come before one of them.                    *)
LEMMA IdsBefore ==
  ASSUME NEW a \in Nat, NEW b \in Nat, NEW id \in a..b
  PROVE  Before(a..b, id) = id - a
<1>1. {k \in a..b : k < id} = a..(id - 1)
  OBVIOUS
<1>2. Cardinality(a..(id - 1)) = id - a
  <2>1. Cardinality(a..(id - 1)) = IF a > id - 1 THEN 0 ELSE (id - 1) - a + 1
    BY FS_Interval
  <2> QED
    BY <2>1
<1> QED
  BY <1>1, <1>2 DEF Before

(* The first ids of an interval are an interval.                           *)
LEMMA FirstIds ==
  ASSUME NEW a \in Nat, NEW b \in Nat, a <= b, NEW n \in Nat \ {0}
  PROVE  \E m \in a..b : {id \in a..b : Before(a..b, id) < n} = a..m
<1> DEFINE m == IF a + n - 1 <= b THEN a + n - 1 ELSE b
<1>1. {id \in a..b : Before(a..b, id) < n} = {id \in a..b : id - a < n}
  BY IdsBefore
<1>2. {id \in a..b : id - a < n} = a..m /\ m \in a..b
  OBVIOUS
<1> QED
  BY <1>1, <1>2

(* The last id of an interval.                                             *)
LEMMA LastId ==
  ASSUME NEW a \in Nat, NEW b \in Nat, a <= b
  PROVE  Max(a..b) = b
<1>1. b \in a..b /\ \A y \in a..b : b >= y
  OBVIOUS
<1>2. \A x \in a..b : (\A y \in a..b : x >= y) => x = b
  OBVIOUS
<1> QED
  BY <1>1, <1>2 DEF Max

(* Ids are handed over in order.                                           *)
LEMMA InOrderIsInterval ==
  ASSUME NEW a \in Nat, NEW b \in Nat, a <= b + 1
  PROVE  InOrder(a..b) = [i \in 1..(b + 1 - a) |-> a + i - 1]
<1>1. Cardinality(a..b) = b + 1 - a
  <2>1. Cardinality(a..b) = IF a > b THEN 0 ELSE b - a + 1
    BY FS_Interval
  <2> QED
    BY <2>1
<1>2. ASSUME NEW i \in 1..(b + 1 - a)
      PROVE  (CHOOSE id \in a..b : Before(a..b, id) = i - 1) = a + i - 1
  <2>1. a + i - 1 \in a..b /\ Before(a..b, a + i - 1) = i - 1
    BY IdsBefore
  <2>2. \A id \in a..b : Before(a..b, id) = i - 1 => id = a + i - 1
    BY IdsBefore
  <2> QED
    BY <2>1, <2>2
<1> QED
  BY <1>1, <1>2 DEF InOrder

---------------------------------------------------------------------------
(* Types.                                                                  *)

Stream == [log : Seq({"event", "end"}), kept : Nat, expires : Nat,
           pipeline : {"running", "ended", "gone"}, count : Nat]
Reader == [pc : {"idle", "stamped", "reading", "complete"}, stamp : Nat, last : Nat, got : Seq(Nat)]
Bucket == [exists : BOOLEAN, tokens : Nat, updated : Nat, expires : Nat,
           granted : Nat, overtaken : BOOLEAN]
Watcher == [pc : {"off", "between", "blocked"}, fromNow : BOOLEAN, at : Nat, got : Seq(Nat)]

(* Ids count from 1 on.                                                    *)
StreamsTypeOK ==
  /\ now \in Nat
  /\ run \in Stream /\ run.kept > 0
  /\ reader \in [Readers -> Reader]
  /\ bucket \in Bucket
  /\ alerts \in [count : Nat, kept : Nat] /\ alerts.kept > 0
  /\ watcher \in [Watchers -> Watcher]

---------------------------------------------------------------------------
(* The token bucket.                                                       *)

(* A clock that was read is not ahead.  What the bucket has let through and*)
(* still holds is what it held and regained until it was last used; a key  *)
(* lives long enough to be full again when it expires.                     *)
Budget ==
  /\ \A r \in Readers : reader[r].pc = "stamped" => reader[r].stamp <= now
  /\ bucket.updated <= now
  /\ bucket.exists => bucket.updated + Capacity < bucket.expires
  /\ ~ bucket.exists => bucket.expires <= now
  /\ ~ bucket.overtaken =>
       IF bucket.exists THEN bucket.granted + bucket.tokens <= Capacity + bucket.updated
                        ELSE bucket.granted <= bucket.expires

(* What the script finds in the bucket.                                    *)
LEMMA TokensFound ==
  ASSUME StreamsTypeOK, Budget, NEW stamp \in Nat
  PROVE  /\ TokensAt(stamp) \in Nat
         /\ TokensAt(stamp) <= Capacity
         /\ bucket.exists /\ bucket.updated <= stamp => TokensAt(stamp) <= bucket.tokens + (stamp - bucket.updated)
<1>1. bucket \in Bucket /\ Capacity \in Nat
  BY StreamsAssumption DEF StreamsTypeOK
<1>2. CASE ~ bucket.exists
  BY <1>1, <1>2 DEF TokensAt
<1>3. CASE bucket.exists
  <2> DEFINE held == bucket.tokens + (IF stamp > bucket.updated THEN stamp - bucket.updated ELSE 0)
  <2>1. TokensAt(stamp) = Min({Capacity, held})
    BY <1>3 DEF TokensAt
  <2>2. held \in Nat
    BY <1>1 DEF Bucket
  <2>3. bucket.updated <= stamp => held = bucket.tokens + (stamp - bucket.updated)
    BY <1>1 DEF Bucket
  <2> HIDE DEF held
  <2>4. Min({Capacity, held}) \in Nat /\ Min({Capacity, held}) <= Capacity /\ Min({Capacity, held}) <= held
    <3>1. \E x \in {Capacity, held} : \A y \in {Capacity, held} : x <= y
      BY <1>1, <2>2
    <3>2. /\ Min({Capacity, held}) \in {Capacity, held}
          /\ \A y \in {Capacity, held} : Min({Capacity, held}) <= y
      BY <3>1 DEF Min
    <3> QED
      BY <1>1, <2>2, <3>2
  <2> QED
    BY <2>1, <2>2, <2>3, <2>4
<1> QED
  BY <1>2, <1>3

(* Evaluating the script keeps the budget.                                 *)
LEMMA TokenBucketKeepsBudget ==
  ASSUME StreamsTypeOK, Budget, NEW stamp \in Nat, stamp <= now,
         NEW allowed \in BOOLEAN, allowed => TokensAt(stamp) >= 1,
         TokenBucket(stamp, allowed), now' = now,
         \A r \in Readers : reader'[r].pc # "stamped" \/ reader'[r] = reader[r]
  PROVE  bucket' \in Bucket /\ Budget'
<1> DEFINE cost == IF allowed THEN 1 ELSE 0
<1>1. bucket \in Bucket /\ Capacity \in Nat /\ now \in Nat
  BY StreamsAssumption DEF StreamsTypeOK
<1>2. TokensAt(stamp) \in Nat /\ TokensAt(stamp) <= Capacity /\ cost \in Nat /\ cost <= TokensAt(stamp)
  BY TokensFound
<1>3. bucket' = [exists |-> TRUE, tokens |-> TokensAt(stamp) - cost, updated |-> stamp,
                 expires |-> now + (Capacity + 1), granted |-> bucket.granted + cost,
                 overtaken |-> bucket.overtaken \/ Overtaken(stamp)]
  BY DEF TokenBucket, BucketTTL
<1> HIDE DEF cost
<1>4. Overtaken(stamp) \in BOOLEAN
  BY DEF Overtaken
<1>5. bucket' \in Bucket
  BY <1>1, <1>2, <1>3, <1>4 DEF Bucket
<1>6. ASSUME ~ bucket'.overtaken
      PROVE  bucket'.granted + bucket'.tokens <= Capacity + stamp
  <2>1. ~ bucket.overtaken /\ ~ Overtaken(stamp)
    BY <1>1, <1>3, <1>4, <1>6 DEF Bucket
  <2>2. bucket'.granted + bucket'.tokens = bucket.granted + TokensAt(stamp)
    BY <1>1, <1>2, <1>3 DEF Bucket
  <2>3. CASE bucket.exists
    <3>1. bucket.updated <= stamp
      BY <1>1, <2>1, <2>3 DEF Overtaken, Bucket
    <3>2. TokensAt(stamp) <= bucket.tokens + (stamp - bucket.updated)
      BY <2>3, <3>1, TokensFound
    <3>3. bucket.granted + bucket.tokens <= Capacity + bucket.updated
      BY <2>1, <2>3 DEF Budget
    <3> QED
      BY <1>1, <1>2, <2>2, <3>1, <3>2, <3>3 DEF Bucket
  <2>4. CASE ~ bucket.exists
    <3>1. bucket.expires <= stamp /\ bucket.granted <= bucket.expires
      BY <1>1, <2>1, <2>4 DEF Overtaken, Bucket, Budget
    <3> QED
      BY <1>1, <1>2, <2>2, <3>1 DEF Bucket
  <2> QED
    BY <2>3, <2>4
<1>7. \A r \in Readers : reader'[r].pc = "stamped" => reader'[r].stamp <= now'
  BY DEF Budget
<1> QED
  BY <1>1, <1>3, <1>5, <1>6, <1>7 DEF Budget

---------------------------------------------------------------------------
(* The alerts.                                                             *)

(* No id between two that were handed over was still kept.                 *)
NoGap(got, kept) ==
  \A i \in 1..(Len(got) - 1) :
    /\ got[i] < got[i + 1]
    /\ \A id \in (got[i] + 1)..(got[i + 1] - 1) : id < kept

(* A connection waits after the last id it got.                            *)
Following ==
  \A w \in Watchers :
    /\ watcher[w].fromNow => watcher[w].got = <<>>
    /\ watcher[w].got # <<>> => watcher[w].at = watcher[w].got[Len(watcher[w].got)]
    /\ NoGap(watcher[w].got, alerts.kept)

(* What an interval adds to the ids that were handed over.                 *)
LEMMA IntervalFollows ==
  ASSUME NEW got \in Seq(Nat), NEW kept \in Nat, NEW at \in Nat,
         NEW a \in Nat, NEW m \in Nat, a <= m, at < a,
         \A id \in (at + 1)..(a - 1) : id < kept,
         got # <<>> => at = got[Len(got)],
         NoGap(got, kept)
  PROVE  /\ got \o InOrder(a..m) \in Seq(Nat)
         /\ got \o InOrder(a..m) # <<>>
         /\ (got \o InOrder(a..m))[Len(got \o InOrder(a..m))] = m
         /\ NoGap(got \o InOrder(a..m), kept)
<1> DEFINE new == [i \in 1..(m + 1 - a) |-> a + i - 1]
           all == got \o new
<1>1. InOrder(a..m) = new
  BY InOrderIsInterval
<1>2. new \in Seq(Nat) /\ Len(new) = m + 1 - a
  <2>1. new \in [1..(m + 1 - a) -> Nat] /\ m + 1 - a \in Nat
    OBVIOUS
  <2> QED
    BY <2>1
<1>3. \A i \in 1..(m + 1 - a) : new[i] = a + i - 1
  OBVIOUS
<1> HIDE DEF new
<1>4. /\ all \in Seq(Nat) /\ Len(all) = Len(got) + (m + 1 - a)
      /\ \A i \in 1..Len(got) : all[i] = got[i]
      /\ \A i \in (Len(got) + 1)..Len(all) : all[i] = new[i - Len(got)]
  <2>1. all \in Seq(Nat) /\ Len(all) = Len(got) + (m + 1 - a)
    BY <1>2
  <2>2. \A i \in 1..Len(got) : all[i] = got[i]
    BY <1>2
  <2>3. \A i \in (Len(got) + 1)..(Len(got) + Len(new)) : all[i] = new[i - Len(got)]
    BY <1>2
  <2> HIDE DEF all
  <2> QED
    BY <1>2, <2>1, <2>2, <2>3
<1> HIDE DEF all
<1>5. Len(got) \in Nat
  OBVIOUS
<1>6. ASSUME NEW i \in (Len(got) + 1)..Len(all)
      PROVE  all[i] = a + (i - Len(got)) - 1
  <2>1. i - Len(got) \in 1..(m + 1 - a)
    BY <1>4, <1>5
  <2> QED
    BY <1>3, <1>4, <2>1
<1>7. all[Len(all)] = m /\ Len(all) > 0
  <2>1. Len(all) \in (Len(got) + 1)..Len(all)
    BY <1>4, <1>5
  <2>2. all[Len(all)] = a + (Len(all) - Len(got)) - 1
    BY <1>6, <2>1
  <2> QED
    BY <1>4, <1>5, <2>1, <2>2
<1>8. ASSUME NEW i \in 1..(Len(all) - 1)
      PROVE  all[i] < all[i + 1] /\ \A id \in (all[i] + 1)..(all[i + 1] - 1) : id < kept
  <2>1. CASE i < Len(got)
    <3>1. i \in 1..(Len(got) - 1) /\ i \in 1..Len(got) /\ i + 1 \in 1..Len(got)
      BY <1>4, <1>5, <2>1
    <3>2. all[i] = got[i] /\ all[i + 1] = got[i + 1]
      BY <1>4, <3>1
    <3> QED
      BY <3>1, <3>2 DEF NoGap
  <2>2. CASE i = Len(got)
    <3>1. got # <<>> /\ i \in 1..Len(got) /\ i + 1 \in (Len(got) + 1)..Len(all)
      BY <1>4, <1>5, <2>2
    <3>2. all[i] = at
      BY <1>4, <2>2, <3>1
    <3>3. all[i + 1] = a + (i + 1 - Len(got)) - 1
      BY <1>6, <3>1
    <3>4. all[i + 1] = a
      BY <1>5, <2>2, <3>3
    <3> QED
      BY <3>2, <3>4
  <2>3. CASE i > Len(got)
    <3>1. i \in (Len(got) + 1)..Len(all) /\ i + 1 \in (Len(got) + 1)..Len(all)
      BY <1>4, <1>5, <2>3
    <3>2. all[i] = a + (i - Len(got)) - 1 /\ all[i + 1] = a + (i + 1 - Len(got)) - 1
      BY <1>6, <3>1
    <3>3. all[i + 1] = all[i] + 1 /\ all[i] \in Nat
      BY <1>4, <1>5, <2>3, <3>2
    <3> QED
      BY <3>3
  <2> QED
    BY <1>4, <1>5, <2>1, <2>2, <2>3
<1>9. all # <<>>
  BY <1>7
<1> QED
  BY <1>1, <1>4, <1>7, <1>8, <1>9 DEF NoGap, all

(* What a connection waits for is an interval.                             *)
LEMMA FreshIds ==
  ASSUME StreamsTypeOK, NEW w \in Watchers
  PROVE  \E a \in Nat : /\ Fresh(w) = a..alerts.count
                        /\ watcher[w].at < a
                        /\ \A id \in (watcher[w].at + 1)..(a - 1) : id < alerts.kept
<1> DEFINE at == watcher[w].at
           a == IF at < alerts.kept THEN alerts.kept ELSE at + 1
<1>1. at \in Nat /\ alerts.kept \in Nat /\ alerts.count \in Nat
  BY DEF StreamsTypeOK, Watcher
<1>2. Fresh(w) = {id \in alerts.kept..alerts.count : id > at}
  BY DEF Fresh
<1> HIDE DEF at
<1>3. {id \in alerts.kept..alerts.count : id > at} = a..alerts.count
  BY <1>1
<1>4. a \in Nat /\ at < a /\ \A id \in (at + 1)..(a - 1) : id < alerts.kept
  BY <1>1
<1> QED
  BY <1>2, <1>3, <1>4 DEF at

(* What a connection receives.                                             *)
LEMMA ReceiveFollows ==
  ASSUME StreamsTypeOK, Following, NEW w \in Watchers, Receive(w)
  PROVE  watcher' \in [Watchers -> Watcher] /\ Following'
<1> DEFINE ids == {id \in Fresh(w) : Before(Fresh(w), id) < Batch}
           x == watcher[w]
           y == [x EXCEPT !.pc = "between", !.fromNow = FALSE, !.at = Max(ids), !.got = @ \o InOrder(ids)]
<1>1. watcher' = [watcher EXCEPT ![w] = y] /\ alerts' = alerts /\ Fresh(w) # {}
  BY DEF Receive, FromLastId
<1>2. PICK a \in Nat : /\ Fresh(w) = a..alerts.count
                       /\ x.at < a
                       /\ \A id \in (x.at + 1)..(a - 1) : id < alerts.kept
  BY FreshIds
<1>3. alerts.count \in Nat /\ a <= alerts.count /\ alerts.kept \in Nat /\ Batch \in Nat \ {0}
  BY <1>1, <1>2, StreamsAssumption DEF StreamsTypeOK
<1>4. PICK m \in a..alerts.count : ids = a..m
  <2>1. \E m \in a..alerts.count : {id \in a..alerts.count : Before(a..alerts.count, id) < Batch} = a..m
    BY <1>3, FirstIds
  <2> QED
    BY <1>2, <2>1
<1>5. x \in Watcher /\ x.at \in Nat /\ x.got \in Seq(Nat)
  BY DEF StreamsTypeOK, Watcher
<1>6. Max(ids) = m /\ m \in Nat /\ a <= m
  <2>1. m \in Nat /\ a <= m
    BY <1>3
  <2>2. Max(a..m) = m
    BY <2>1, LastId
  <2> QED
    BY <1>4, <2>1, <2>2
<1>7. /\ x.got \o InOrder(a..m) \in Seq(Nat)
      /\ x.got \o InOrder(a..m) # <<>>
      /\ (x.got \o InOrder(a..m))[Len(x.got \o InOrder(a..m))] = m
      /\ NoGap(x.got \o InOrder(a..m), alerts.kept)
  <2>1. x.got # <<>> => x.at = x.got[Len(x.got)]
    BY DEF Following
  <2>2. NoGap(x.got, alerts.kept)
    BY DEF Following
  <2> DEFINE got == x.got
             at == x.at
  <2>3. /\ got \in Seq(Nat) /\ at \in Nat /\ a \in Nat /\ m \in Nat /\ alerts.kept \in Nat
        /\ a <= m /\ at < a
        /\ \A id \in (at + 1)..(a - 1) : id < alerts.kept
        /\ got # <<>> => at = got[Len(got)]
        /\ NoGap(got, alerts.kept)
    BY <1>2, <1>3, <1>5, <1>6, <2>1, <2>2
  <2> HIDE DEF got, at
  <2>4. /\ got \o InOrder(a..m) \in Seq(Nat)
        /\ got \o InOrder(a..m) # <<>>
        /\ (got \o InOrder(a..m))[Len(got \o InOrder(a..m))] = m
        /\ NoGap(got \o InOrder(a..m), alerts.kept)
    BY <2>3, IntervalFollows
  <2> QED
    BY <2>4 DEF got
<1> HIDE DEF ids, x
<1>8. y = [x EXCEPT !.pc = "between", !.fromNow = FALSE, !.at = m, !.got = x.got \o InOrder(a..m)]
  BY <1>4, <1>5, <1>6
<1>9. /\ y \in Watcher
      /\ y.at = m /\ y.got = x.got \o InOrder(a..m) /\ y.fromNow = FALSE
  BY <1>5, <1>6, <1>7, <1>8 DEF Watcher
<1> HIDE DEF y
<1>10. watcher'[w] = y /\ \A v \in Watchers : v # w => watcher'[v] = watcher[v]
  BY <1>1 DEF StreamsTypeOK
<1>11. watcher' \in [Watchers -> Watcher]
  BY <1>1, <1>9 DEF StreamsTypeOK
<1>12. ASSUME NEW v \in Watchers
       PROVE  /\ watcher'[v].fromNow => watcher'[v].got = <<>>
              /\ watcher'[v].got # <<>> => watcher'[v].at = watcher'[v].got[Len(watcher'[v].got)]
              /\ NoGap(watcher'[v].got, alerts.kept)
  <2>1. CASE v = w
    BY <1>7, <1>9, <1>10, <2>1
  <2>2. CASE v # w
    BY <1>10, <2>2 DEF Following
  <2> QED
    BY <2>1, <2>2
<1> QED
  BY <1>1, <1>11, <1>12 DEF Following

(* Dropping old entries opens no gap among those kept.                     *)
LEMMA NoGapStays ==
  ASSUME NEW got \in Seq(Nat), NEW kept \in Nat, NEW more \in Nat, kept <= more, NoGap(got, kept)
  PROVE  NoGap(got, more)
<1> SUFFICES ASSUME NEW i \in 1..(Len(got) - 1), NEW id \in (got[i] + 1)..(got[i + 1] - 1)
             PROVE  id < more
  BY DEF NoGap
<1>1. id < kept
  BY DEF NoGap
<1>2. got[i] \in Nat /\ got[i + 1] \in Nat
  OBVIOUS
<1> QED
  BY <1>1, <1>2

---------------------------------------------------------------------------
(* The events of a run.                                                    *)

(* A set of ids has a first one.                                           *)
LEMMA FirstOf ==
  ASSUME NEW S, S \subseteq Nat, S # {}
  PROVE  \E x \in S : \A y \in S : x <= y
<1>1. PICK x \in S : \A y \in S : ~ (<<y, x>> \in OpToRel(<, Nat))
  BY NatLessThanWellFounded, WFMin
<1>2. \A y \in S : ~ (y < x)
  BY <1>1 DEF OpToRel
<1> QED
  BY <1>2

(* A read returns an interval, events but for a marker at its end.         *)
LEMMA ReturnedIds ==
  ASSUME StreamsTypeOK, NEW r \in Readers, Available(r) # {}
  PROVE  LET a == IF reader[r].last < run.kept THEN run.kept ELSE reader[r].last + 1
         IN  \E m \in a..Len(run.log) :
               /\ Returned(r) = a..m
               /\ \A i \in a..(m - 1) : run.log[i] = "event"
<1> DEFINE last == reader[r].last
           n == Len(run.log)
           a == IF last < run.kept THEN run.kept ELSE last + 1
<1>1. /\ last \in Nat /\ n \in Nat /\ run.kept \in Nat /\ a \in Nat /\ 0 < a
      /\ \A i \in 1..n : run.log[i] \in {"event", "end"}
      /\ Batch \in Nat \ {0}
  BY StreamsAssumption DEF StreamsTypeOK, Reader, Stream
<1>2. Available(r) = a..n
  <2>1. Available(r) = {id \in run.kept..n : id > last}
    BY DEF Available
  <2> QED
    BY <1>1, <2>1
<1> HIDE DEF last, n, a
<1>3. a <= n
  BY <1>1, <1>2
<1>4. PICK m \in a..n : {id \in a..n : Before(a..n, id) < Batch} = a..m
  BY <1>1, <1>3, FirstIds
<1>5. m \in Nat /\ a <= m /\ m <= n
  BY <1>1, <1>4
<1>6. Returned(r) = {id \in a..m : \A k \in a..m : run.log[k] = "end" => id <= k}
  BY <1>2, <1>4 DEF Returned
<1> DEFINE ends == {k \in a..m : run.log[k] = "end"}
<1>7. CASE ends = {}
  <2>1. Returned(r) = a..m
    BY <1>6, <1>7
  <2>2. \A i \in a..(m - 1) : run.log[i] = "event"
    BY <1>1, <1>5, <1>7
  <2> QED
    BY <1>4, <2>1, <2>2 DEF a, n, last
<1>8. CASE ends # {}
  <2>1. PICK e \in ends : \A k \in ends : e <= k
    <3>1. ends \subseteq Nat
      BY <1>1, <1>5
    <3> HIDE DEF ends
    <3> QED
      BY <1>8, <3>1, FirstOf
  <2>2. e \in Nat /\ a <= e /\ e <= m /\ e \in a..n
    BY <1>1, <1>5, <2>1
  <2>3. Returned(r) = a..e
    BY <1>1, <1>5, <1>6, <2>1, <2>2
  <2>4. \A i \in a..(e - 1) : run.log[i] = "event"
    <3> SUFFICES ASSUME NEW i \in a..(e - 1) PROVE run.log[i] = "event"
      OBVIOUS
    <3>1. i \in a..m /\ i \in 1..n /\ ~ (e <= i)
      BY <1>1, <1>5, <2>2
    <3> QED
      BY <1>1, <2>1, <3>1
  <2> QED
    BY <2>2, <2>3, <2>4 DEF a, n, last
<1> QED
  BY <1>7, <1>8

(* A list of the first ids grows by the ones after it.                     *)
LEMMA ListGrows ==
  ASSUME NEW last \in Nat, NEW m \in Nat, last <= m
  PROVE  [i \in 1..last |-> i] \o InOrder((last + 1)..m) = [i \in 1..m |-> i]
<1> DEFINE old == [i \in 1..last |-> i]
           new == [i \in 1..(m + 1 - (last + 1)) |-> (last + 1) + i - 1]
<1>1. InOrder((last + 1)..m) = new
  BY InOrderIsInterval
<1>2. old \in Seq(Nat) /\ Len(old) = last /\ new \in Seq(Nat) /\ Len(new) = m - last
  <2>1. old \in [1..last -> Nat] /\ new \in [1..(m - last) -> Nat] /\ m - last \in Nat
    OBVIOUS
  <2> QED
    BY <2>1
<1>3. /\ \A i \in 1..last : old[i] = i
      /\ \A i \in 1..(m - last) : new[i] = last + i
  OBVIOUS
<1> HIDE DEF old, new
<1> DEFINE all == old \o new
<1>4. /\ all \in Seq(Nat) /\ Len(all) = m
      /\ \A i \in 1..last : all[i] = old[i]
      /\ \A i \in (last + 1)..m : all[i] = new[i - last]
  <2>1. all \in Seq(Nat) /\ Len(all) = Len(old) + Len(new)
    BY <1>2
  <2>2. \A i \in 1..Len(old) : all[i] = old[i]
    BY <1>2
  <2>3. \A i \in (Len(old) + 1)..(Len(old) + Len(new)) : all[i] = new[i - Len(old)]
    BY <1>2
  <2>4. Len(old) + Len(new) = m
    BY <1>2
  <2> HIDE DEF all
  <2> QED
    BY <1>2, <2>1, <2>2, <2>3, <2>4
<1> HIDE DEF all
<1>5. ASSUME NEW i \in 1..m PROVE all[i] = i
  <2>1. CASE i <= last
    <3>1. i \in 1..last
      BY <2>1
    <3>2. all[i] = old[i] /\ old[i] = i
      BY <1>3, <1>4, <3>1
    <3> QED
      BY <3>2
  <2>2. CASE i > last
    <3>1. i \in (last + 1)..m /\ i - last \in 1..(m - last)
      BY <2>2
    <3>2. new[i - last] = last + (i - last)
      BY <1>3, <3>1
    <3>3. last + (i - last) = i
      BY <3>1
    <3>4. all[i] = new[i - last]
      BY <1>4, <3>1
    <3> QED
      BY <3>2, <3>3, <3>4
  <2> QED
    BY <2>1, <2>2
<1>6. all = [i \in 1..m |-> all[i]]
  BY <1>4
<1>7. [i \in 1..m |-> all[i]] = [i \in 1..m |-> i]
  BY <1>5
<1> QED
  BY <1>1, <1>6, <1>7 DEF old, all

(* A list of ids is a list of numbers.                                     *)
LEMMA InOrderType ==
  ASSUME NEW a \in Nat, NEW b \in Nat, a <= b + 1
  PROVE  InOrder(a..b) \in Seq(Nat)
<1> DEFINE new == [i \in 1..(b + 1 - a) |-> a + i - 1]
<1>1. InOrder(a..b) = new
  BY InOrderIsInterval
<1>2. new \in [1..(b + 1 - a) -> Nat] /\ b + 1 - a \in Nat
  OBVIOUS
<1>3. new \in Seq(Nat)
  BY <1>2
<1> QED
  BY <1>1, <1>3

(* The stream of the first pipeline has its marker at its end, and is kept *)
(* in full while the pipeline writes.                                      *)
FirstStream ==
  /\ \A i \in 1..(Len(run.log) - 1) : run.log[i] = "event"
  /\ run.pipeline = "running" => \A i \in 1..Len(run.log) : run.log[i] = "event"
  /\ run.kept = 1 \/ (run.kept = Len(run.log) + 1 /\ run.pipeline = "gone")
  /\ run.expires # 0 => run.pipeline = "gone"

(* A connection that reads has everything up to its last id; one that was  *)
(* told of the end, everything before the marker.                          *)
Holds(x, log) ==
  /\ x.pc = "reading" => x.last <= Len(log) /\ x.got = [i \in 1..x.last |-> i]
  /\ x.pc = "complete" =>
       /\ Len(log) > 0 /\ log[Len(log)] = "end"
       /\ x.got = [i \in 1..(Len(log) - 1) |-> i]

Seen ==
  /\ run.count > 0
  /\ run.count = 1 => FirstStream /\ \A r \in Readers : Holds(reader[r], run.log)

(* One connection moves, the stream does not.                              *)
LEMMA OneReader ==
  ASSUME StreamsTypeOK, Seen, NEW r \in Readers, NEW y \in Reader,
         reader' = [reader EXCEPT ![r] = y], run' = run,
         run.count = 1 => Holds(y, run.log)
  PROVE  /\ reader' \in [Readers -> Reader]
         /\ Seen'
         /\ reader'[r] = y
         /\ \A q \in Readers : q # r => reader'[q] = reader[q]
<1>1. /\ reader' \in [Readers -> Reader] /\ reader'[r] = y
      /\ \A q \in Readers : q # r => reader'[q] = reader[q]
  BY DEF StreamsTypeOK
<1>2. ASSUME run.count = 1, NEW q \in Readers PROVE Holds(reader'[q], run.log)
  <2>1. CASE q = r
    BY <1>1, <1>2, <2>1
  <2>2. CASE q # r
    BY <1>1, <1>2, <2>2 DEF Seen
  <2> QED
    BY <2>1, <2>2
<1>3. FirstStream <=> FirstStream'
  BY DEF FirstStream
<1> QED
  BY <1>1, <1>2, <1>3 DEF Seen

(* A read hands over what comes next, and ends at the marker.              *)
LEMMA ReadKeepsSeen ==
  ASSUME StreamsTypeOK, Seen, NEW r \in Readers, ReadEvents(r)
  PROVE  /\ reader' \in [Readers -> Reader]
         /\ Seen'
         /\ reader'[r].pc # "stamped"
         /\ \A q \in Readers : q # r => reader'[q] = reader[q]
<1> DEFINE x == reader[r]
           log == run.log
           n == Len(log)
           ids == Returned(r)
           events == {id \in ids : log[id] = "event"}
           y == [x EXCEPT !.last = Max(ids), !.got = x.got \o InOrder(events),
                          !.pc = IF events = ids THEN "reading" ELSE "complete"]
           a == IF x.last < run.kept THEN run.kept ELSE x.last + 1
<1>1. x \in Reader /\ x.pc = "reading" /\ x.last \in Nat /\ x.got \in Seq(Nat)
  BY DEF StreamsTypeOK, Reader, ReadEvents
<1>2. /\ n \in Nat /\ run.kept \in Nat /\ 0 < a /\ a \in Nat /\ x.last < a
      /\ \A i \in 1..n : log[i] \in {"event", "end"}
  BY <1>1 DEF StreamsTypeOK, Stream
<1>3. PICK m \in a..n : ids = a..m /\ \A i \in a..(m - 1) : log[i] = "event"
  BY ReturnedIds DEF ReadEvents
<1>4. m \in Nat /\ a <= m /\ m <= n /\ m - 1 \in Nat /\ m \in 1..n
  BY <1>2, <1>3
<1>5. reader' = [reader EXCEPT ![r] = y] /\ run' = run
  BY <1>1 DEF ReadEvents, StreamsTypeOK
<1>6. Max(ids) = m
  <2>1. Max(a..m) = m
    BY <1>2, <1>4, LastId
  <2> QED
    BY <1>3, <2>1
<1>7. run.count = 1 => /\ a = x.last + 1
                       /\ x.got = [i \in 1..x.last |-> i]
                       /\ log[m] = "end" => m = n
  <2> SUFFICES ASSUME run.count = 1
               PROVE  /\ a = x.last + 1 /\ x.got = [i \in 1..x.last |-> i]
                      /\ log[m] = "end" => m = n
    OBVIOUS
  <2>1. FirstStream /\ Holds(x, log)
    BY DEF Seen
  <2>2. run.kept = 1 \/ run.kept = n + 1
    BY <2>1 DEF FirstStream
  <2>3. a = x.last + 1
    BY <1>1, <1>2, <1>4, <2>2
  <2>4. log[m] = "end" => m = n
    BY <1>2, <1>4, <2>1 DEF FirstStream
  <2> QED
    BY <1>1, <2>1, <2>3, <2>4 DEF Holds
<1> HIDE DEF x, log, n, a
<1>8. y \in Reader /\ y.pc # "stamped" /\ (run.count = 1 => Holds(y, log))
  <2>1. CASE log[m] = "event"
    <3>1. events = a..m
      BY <1>2, <1>3, <1>4, <2>1
    <3>2. y = [x EXCEPT !.last = m, !.got = x.got \o InOrder(a..m), !.pc = "reading"]
      BY <1>3, <1>6, <3>1
    <3>3. InOrder(a..m) \in Seq(Nat)
      BY <1>2, <1>4, InOrderType
    <3>4. x.got \o InOrder(a..m) \in Seq(Nat)
      BY <1>1, <3>3
    <3> HIDE DEF y, events, ids
    <3>5. y \in Reader /\ y.pc = "reading" /\ y.last = m /\ y.got = x.got \o InOrder(a..m)
      BY <1>1, <1>4, <3>2, <3>4 DEF Reader
    <3>6. ASSUME run.count = 1 PROVE y.got = [i \in 1..m |-> i]
      <4>1. x.last <= m
        BY <1>1, <1>2, <1>4
      <4> QED
        BY <1>1, <1>4, <1>7, <3>5, <3>6, <4>1, ListGrows
    <3> QED
      BY <1>4, <3>5, <3>6 DEF Holds, n
  <2>2. CASE log[m] = "end"
    <3>1. events = a..(m - 1) /\ events # ids
      BY <1>2, <1>3, <1>4, <2>2
    <3>2. y = [x EXCEPT !.last = m, !.got = x.got \o InOrder(a..(m - 1)), !.pc = "complete"]
      BY <1>6, <3>1
    <3>3. InOrder(a..(m - 1)) \in Seq(Nat)
      BY <1>2, <1>4, InOrderType
    <3>4. x.got \o InOrder(a..(m - 1)) \in Seq(Nat)
      BY <1>1, <3>3
    <3> HIDE DEF y, events, ids
    <3>5. y \in Reader /\ y.pc = "complete" /\ y.got = x.got \o InOrder(a..(m - 1))
      BY <1>1, <1>4, <3>2, <3>4 DEF Reader
    <3>6. ASSUME run.count = 1 PROVE m = n /\ y.got = [i \in 1..(m - 1) |-> i]
      <4>1. x.last <= m - 1
        BY <1>1, <1>2, <1>4
      <4> QED
        BY <1>1, <1>4, <1>7, <2>2, <3>5, <3>6, <4>1, ListGrows
    <3>7. ASSUME run.count = 1 PROVE Holds(y, log)
      <4>1. Len(log) = m
        BY <3>6, <3>7 DEF n
      <4>2. y.got = [i \in 1..(Len(log) - 1) |-> i]
        BY <3>6, <3>7, <4>1
      <4>3. Len(log) > 0 /\ log[Len(log)] = "end"
        BY <1>4, <2>2, <4>1
      <4>4. y.pc = "complete"
        BY <3>5
      <4> QED
        BY <4>2, <4>3, <4>4 DEF Holds
    <3> QED
      BY <3>5, <3>7
  <2>3. log[m] \in {"event", "end"}
    BY <1>2, <1>4
  <2> HIDE DEF y
  <2> QED
    BY <2>1, <2>2, <2>3
<1> HIDE DEF y
<1> QED
  BY <1>5, <1>8, OneReader DEF log

---------------------------------------------------------------------------
(* The steps.                                                              *)

StreamsInv == StreamsTypeOK /\ Budget /\ Following /\ Seen

(* The assignments of the run's feed keep the types of what they write.    *)
LEMMA StreamTypes ==
  ASSUME NEW s \in Stream, NEW t \in Nat
  PROVE  /\ [s EXCEPT !.log = Append(@, "event")] \in Stream
         /\ [s EXCEPT !.log = Append(@, "end"), !.pipeline = "ended"] \in Stream
         /\ [s EXCEPT !.expires = t, !.pipeline = "gone"] \in Stream
         /\ [s EXCEPT !.pipeline = "gone"] \in Stream
         /\ [s EXCEPT !.pipeline = "running", !.count = @ + 1] \in Stream
         /\ [s EXCEPT !.kept = t, !.expires = 0] \in Stream
<1>1. s.log \in Seq({"event", "end"})
  BY DEF Stream
<1>2. Append(s.log, "event") \in Seq({"event", "end"}) /\ Append(s.log, "end") \in Seq({"event", "end"})
  BY <1>1
<1>3. /\ [s EXCEPT !.log = Append(@, "event")] \in Stream
      /\ [s EXCEPT !.log = Append(@, "end"), !.pipeline = "ended"] \in Stream
  BY <1>2 DEF Stream
<1>4. /\ [s EXCEPT !.expires = t, !.pipeline = "gone"] \in Stream
      /\ [s EXCEPT !.pipeline = "gone"] \in Stream
      /\ [s EXCEPT !.kept = t, !.expires = 0] \in Stream
  BY DEF Stream
<1>5. [s EXCEPT !.pipeline = "running", !.count = @ + 1] \in Stream
  <2>1. s.count \in Nat /\ s.count + 1 \in Nat
    BY DEF Stream
  <2> QED
    BY <2>1 DEF Stream
<1> QED
  BY <1>3, <1>4, <1>5

(* What the stream's marker says stays true while the pipeline writes.     *)
LEMMA AppendKeepsSeen ==
  ASSUME StreamsTypeOK, Seen, run.pipeline = "running", NEW e \in {"event", "end"},
         run'.log = Append(run.log, e), run'.count = run.count,
         run'.kept = run.kept, run'.expires = run.expires,
         run'.pipeline = IF e = "event" THEN "running" ELSE "ended",
         reader' = reader
  PROVE  Seen'
<1> SUFFICES ASSUME run.count = 1
             PROVE  FirstStream' /\ \A r \in Readers : Holds(reader[r], run'.log)
  BY DEF Seen
<1> DEFINE log == run.log
           n == Len(log)
<1>1. log \in Seq({"event", "end"}) /\ n \in Nat /\ run.kept \in Nat
  BY DEF StreamsTypeOK, Stream
<1>2. FirstStream /\ \A r \in Readers : Holds(reader[r], log)
  BY DEF Seen
<1>3. /\ Len(run'.log) = n + 1 /\ run'.log[n + 1] = e
      /\ \A i \in 1..n : run'.log[i] = log[i]
  BY <1>1
<1>4. \A i \in 1..n : log[i] = "event"
  BY <1>2 DEF FirstStream
<1> HIDE DEF n, log
<1>5. FirstStream'
  <2>1. \A i \in 1..(Len(run'.log) - 1) : run'.log[i] = "event"
    BY <1>1, <1>3, <1>4
  <2>2. run'.pipeline = "running" => \A i \in 1..Len(run'.log) : run'.log[i] = "event"
    <3> SUFFICES ASSUME e = "event", NEW i \in 1..(n + 1) PROVE run'.log[i] = "event"
      BY <1>3
    <3>1. i \in 1..n \/ i = n + 1
      BY <1>1
    <3> QED
      BY <1>3, <1>4, <3>1
  <2>3. run'.kept = 1 /\ run'.expires = 0
    BY <1>2 DEF FirstStream
  <2> QED
    BY <2>1, <2>2, <2>3 DEF FirstStream
<1>6. ASSUME NEW r \in Readers PROVE Holds(reader[r], run'.log)
  <2>1. Holds(reader[r], log) /\ reader[r].last \in Nat
    BY <1>2 DEF StreamsTypeOK, Reader
  <2>2. reader[r].pc # "complete"
    <3> SUFFICES ASSUME reader[r].pc = "complete" PROVE FALSE
      OBVIOUS
    <3>1. n > 0 /\ log[n] = "end"
      BY <2>1 DEF Holds, n
    <3> QED
      BY <1>1, <1>4, <3>1
  <2>3. reader[r].pc = "reading" => reader[r].last <= n /\ reader[r].got = [i \in 1..reader[r].last |-> i]
    BY <2>1 DEF Holds, n
  <2> QED
    BY <1>1, <1>3, <2>1, <2>2, <2>3 DEF Holds
<1> QED
  BY <1>5, <1>6

(* The pipeline leaves the stream's contents alone, or begins a second one.*)
LEMMA PipelineKeepsSeen ==
  ASSUME StreamsTypeOK, Seen, reader' = reader,
         run'.count = 1 => /\ run.count = 1
                           /\ run'.log = run.log
                           /\ run'.pipeline = "gone"
                           /\ run'.kept = run.kept \/ run'.kept = Len(run.log) + 1,
         run'.count > 0
  PROVE  Seen'
<1> SUFFICES ASSUME run'.count = 1
             PROVE  FirstStream' /\ \A r \in Readers : Holds(reader[r], run'.log)
  BY DEF Seen
<1>1. FirstStream /\ \A r \in Readers : Holds(reader[r], run.log)
  BY DEF Seen
<1> QED
  BY <1>1 DEF FirstStream

(* The two feeds, and the bucket, when their state is left alone.          *)
LEMMA LeftAlone ==
  /\ UNCHANGED <<now, reader, bucket>> => (Budget => Budget')
  /\ UNCHANGED alertVars => (Following => Following')
  /\ UNCHANGED <<run, reader>> => (Seen => Seen')
BY DEF Budget, Following, Seen, FirstStream, alertVars

(* What the pipeline does to its stream.                                   *)
LEMMA PipelineStep ==
  ASSUME StreamsInv, \/ PublishEvent \/ PublishTerminal \/ ExpireStream
                     \/ PipelineDies \/ RunAgain
  PROVE  StreamsInv'
<1>1. /\ run \in Stream /\ run.kept > 0 /\ run.count \in Nat /\ run.count > 0
      /\ now \in Nat /\ now + StreamTTL \in Nat
  BY StreamsAssumption DEF StreamsInv, StreamsTypeOK, Stream, Seen
<1>2. ASSUME run' \in Stream, run'.kept > 0, Seen', UNCHANGED <<now, reader, bucket, alertVars>>
      PROVE  StreamsInv'
  BY <1>2, LeftAlone DEF StreamsInv, StreamsTypeOK, alertVars
<1>3. CASE PublishEvent
  <2>1. run' = [run EXCEPT !.log = Append(@, "event")] /\ run.pipeline = "running"
        /\ UNCHANGED <<now, reader, bucket, alertVars>>
    BY <1>3 DEF PublishEvent
  <2>2. run' \in Stream
    BY <1>1, <2>1, StreamTypes
  <2>3. /\ run'.log = Append(run.log, "event") /\ run'.count = run.count /\ run'.kept = run.kept
        /\ run'.expires = run.expires /\ run'.pipeline = "running"
    BY <1>1, <2>1 DEF Stream
  <2>4. Seen'
    BY <2>1, <2>3, AppendKeepsSeen DEF StreamsInv
  <2> QED
    BY <1>1, <1>2, <2>1, <2>2, <2>3, <2>4
<1>4. CASE PublishTerminal
  <2>1. run' = [run EXCEPT !.log = Append(@, "end"), !.pipeline = "ended"] /\ run.pipeline = "running"
        /\ UNCHANGED <<now, reader, bucket, alertVars>>
    BY <1>4 DEF PublishTerminal
  <2>2. run' \in Stream
    BY <1>1, <2>1, StreamTypes
  <2>3. /\ run'.log = Append(run.log, "end") /\ run'.count = run.count /\ run'.kept = run.kept
        /\ run'.expires = run.expires /\ run'.pipeline = "ended"
    BY <1>1, <2>1 DEF Stream
  <2>4. Seen'
    BY <2>1, <2>3, AppendKeepsSeen DEF StreamsInv
  <2> QED
    BY <1>1, <1>2, <2>1, <2>2, <2>3, <2>4
<1>5. CASE ExpireStream
  <2>1. run' = [run EXCEPT !.expires = now + StreamTTL, !.pipeline = "gone"]
        /\ UNCHANGED <<now, reader, bucket, alertVars>>
    BY <1>5 DEF ExpireStream
  <2>2. run' \in Stream
    BY <1>1, <2>1, StreamTypes
  <2>3. run'.log = run.log /\ run'.count = run.count /\ run'.kept = run.kept /\ run'.pipeline = "gone"
    BY <1>1, <2>1 DEF Stream
  <2>4. Seen'
    BY <1>1, <2>1, <2>3, PipelineKeepsSeen DEF StreamsInv
  <2> QED
    BY <1>1, <1>2, <2>1, <2>2, <2>3, <2>4
<1>6. CASE PipelineDies
  <2>1. run' = [run EXCEPT !.pipeline = "gone"]
        /\ UNCHANGED <<now, reader, bucket, alertVars>>
    BY <1>6 DEF PipelineDies
  <2>2. run' \in Stream
    BY <1>1, <2>1, StreamTypes
  <2>3. run'.log = run.log /\ run'.count = run.count /\ run'.kept = run.kept /\ run'.pipeline = "gone"
    BY <1>1, <2>1 DEF Stream
  <2>4. Seen'
    BY <1>1, <2>1, <2>3, PipelineKeepsSeen DEF StreamsInv
  <2> QED
    BY <1>1, <1>2, <2>1, <2>2, <2>3, <2>4
<1>7. CASE RunAgain
  <2>1. run' = [run EXCEPT !.pipeline = "running", !.count = @ + 1]
        /\ UNCHANGED <<now, reader, bucket, alertVars>>
    BY <1>7 DEF RunAgain
  <2>2. run' \in Stream
    BY <1>1, <2>1, StreamTypes
  <2>3. run'.count > 1 /\ run'.count # 1 /\ run'.kept = run.kept
    BY <1>1, <2>1 DEF Stream
  <2>4. Seen'
    BY <2>3, <2>2 DEF Seen, Stream
  <2> QED
    BY <1>1, <1>2, <2>1, <2>2, <2>3, <2>4
<1> QED
  BY <1>3, <1>4, <1>5, <1>6, <1>7

(* What a connection may become on entering.                               *)
LEMMA EnterOne ==
  ASSUME NEW r \in Readers, Enter(r)
  PROVE  \E y \in Reader : /\ reader' = [reader EXCEPT ![r] = y]
                           /\ y.pc \in {"idle", "reading"}
                           /\ \A log \in Seq({"event", "end"}) : Holds(y, log)
<1> DEFINE y == [NotConnected EXCEPT !.pc = "reading", !.last = FromTheStart]
<1>1. <<>> \in Seq(Nat) /\ <<>> = [i \in 1..0 |-> i]
  OBVIOUS
<1>2. NotConnected \in Reader /\ NotConnected.pc = "idle" /\ \A log : Holds(NotConnected, log)
  BY <1>1 DEF NotConnected, Reader, Holds
<1>3. y \in Reader /\ y.pc = "reading" /\ y.last = 0 /\ y.got = <<>>
  BY <1>1, <1>2 DEF NotConnected, FromTheStart, Reader
<1>4. y \in Reader /\ y.pc = "reading" /\ \A log \in Seq({"event", "end"}) : Holds(y, log)
  <2> HIDE DEF y
  <2>1. \A log \in Seq({"event", "end"}) : Len(log) \in Nat
    OBVIOUS
  <2> QED
    BY <1>1, <1>3, <2>1 DEF Reader, Holds
<1>5. PICK token \in StreamTokens :
        reader' = [reader EXCEPT ![r] = IF token = MintedToken THEN y ELSE NotConnected]
  BY DEF Enter
<1> HIDE DEF y
<1>6. CASE token = MintedToken
  BY <1>4, <1>5, <1>6
<1>7. CASE token # MintedToken
  BY <1>2, <1>5, <1>7
<1> QED
  BY <1>6, <1>7

(* One connection moves to where its clock is not ahead of the bucket's.   *)
LEMMA ReaderStep ==
  ASSUME StreamsInv, NEW r \in Readers, NEW y \in Reader,
         reader' = [reader EXCEPT ![r] = y],
         y.pc = "stamped" => y.stamp <= now,
         run.count = 1 => Holds(y, run.log),
         UNCHANGED <<now, run, alertVars>>,
         UNCHANGED bucket \/ (bucket' \in Bucket /\ Budget')
  PROVE  StreamsInv'
<1>1. /\ reader' \in [Readers -> Reader] /\ Seen' /\ reader'[r] = y
      /\ \A q \in Readers : q # r => reader'[q] = reader[q]
  BY OneReader DEF StreamsInv
<1>2. UNCHANGED bucket => Budget'
  <2> SUFFICES ASSUME UNCHANGED bucket PROVE Budget'
    OBVIOUS
  <2>1. ASSUME NEW q \in Readers, reader'[q].pc = "stamped" PROVE reader'[q].stamp <= now
    <3>1. CASE q = r
      BY <1>1, <2>1, <3>1
    <3>2. CASE q # r
      BY <1>1, <2>1, <3>2 DEF StreamsInv, Budget
    <3> QED
      BY <3>1, <3>2
  <2> QED
    BY <2>1 DEF StreamsInv, Budget
<1> QED
  BY <1>1, <1>2, LeftAlone DEF StreamsInv, StreamsTypeOK, alertVars

(* The steps of a connection to the run's stream.                          *)
LEMMA ConnectionStep ==
  ASSUME StreamsInv, NEW r \in Readers,
         \/ Connect(r) \/ Admitted(r) \/ Limited(r) \/ FailOpen(r)
         \/ ReadEvents(r) \/ ReadTimeout(r) \/ Disconnect(r)
  PROVE  StreamsInv'
<1>1. /\ now \in Nat /\ reader[r] \in Reader /\ reader[r].stamp \in Nat
      /\ run.log \in Seq({"event", "end"})
      /\ StreamsTypeOK /\ Budget /\ Seen
  BY DEF StreamsInv, StreamsTypeOK, Reader, Stream
<1>2. /\ NotConnected \in Reader /\ NotConnected.pc = "idle" /\ \A log : Holds(NotConnected, log)
      /\ NotConnected.got = <<>> /\ NotConnected.last = 0
  <2>1. <<>> \in Seq(Nat)
    OBVIOUS
  <2> QED
    BY <2>1 DEF NotConnected, Reader, Holds
<1>3. CASE Connect(r)
  <2> DEFINE y == [NotConnected EXCEPT !.pc = "stamped", !.stamp = now]
  <2>1. y \in Reader /\ y.pc = "stamped" /\ y.stamp = now
    BY <1>1, <1>2 DEF Reader
  <2>2. reader' = [reader EXCEPT ![r] = y] /\ UNCHANGED <<now, run, bucket, alertVars>>
    BY <1>3 DEF Connect
  <2> HIDE DEF y
  <2>3. Holds(y, run.log)
    BY <2>1 DEF Holds
  <2>4. y.stamp <= now
    BY <1>1, <2>1
  <2> QED
    BY <2>1, <2>2, <2>3, <2>4, ReaderStep
<1>4. ASSUME Enter(r), UNCHANGED <<now, run, alertVars>>,
             UNCHANGED bucket \/ (bucket' \in Bucket /\ Budget')
      PROVE  StreamsInv'
  <2>1. PICK y \in Reader : /\ reader' = [reader EXCEPT ![r] = y]
                            /\ y.pc \in {"idle", "reading"}
                            /\ \A log \in Seq({"event", "end"}) : Holds(y, log)
    BY <1>4, EnterOne
  <2>2. y.pc # "stamped" /\ Holds(y, run.log)
    BY <1>1, <2>1
  <2> QED
    BY <1>4, <2>1, <2>2, ReaderStep
<1>5. ASSUME reader' = [reader EXCEPT ![r] = NotConnected], UNCHANGED <<now, run, alertVars>>,
             UNCHANGED bucket \/ (bucket' \in Bucket /\ Budget')
      PROVE  StreamsInv'
  BY <1>2, <1>5, ReaderStep
<1>6. ASSUME reader[r].pc = "stamped", NEW allowed \in BOOLEAN,
             allowed => TokensAt(reader[r].stamp) >= 1,
             TokenBucket(reader[r].stamp, allowed), now' = now,
             \A q \in Readers : reader'[q].pc # "stamped" \/ reader'[q] = reader[q]
      PROVE  bucket' \in Bucket /\ Budget'
  <2>1. reader[r].stamp <= now
    BY <1>1, <1>6 DEF Budget
  <2> QED
    BY <1>1, <1>6, <2>1, TokenBucketKeepsBudget
<1>7. CASE Admitted(r)
  <2>1. Enter(r) /\ UNCHANGED <<now, run, alertVars>>
    BY <1>7 DEF Admitted
  <2>2. PICK y \in Reader : reader' = [reader EXCEPT ![r] = y] /\ y.pc \in {"idle", "reading"}
    BY <2>1, EnterOne
  <2>3. \A q \in Readers : reader'[q].pc # "stamped" \/ reader'[q] = reader[q]
    BY <2>2 DEF StreamsInv, StreamsTypeOK
  <2>4. bucket' \in Bucket /\ Budget'
    BY <1>6, <1>7, <2>3 DEF Admitted
  <2> QED
    BY <1>4, <2>1, <2>4
<1>8. CASE Limited(r)
  <2>1. reader' = [reader EXCEPT ![r] = NotConnected] /\ UNCHANGED <<now, run, alertVars>>
    BY <1>8 DEF Limited
  <2>2. \A q \in Readers : reader'[q].pc # "stamped" \/ reader'[q] = reader[q]
    BY <1>2, <2>1 DEF StreamsInv, StreamsTypeOK
  <2>3. bucket' \in Bucket /\ Budget'
    BY <1>6, <1>8, <2>2 DEF Limited
  <2> QED
    BY <1>5, <2>1, <2>3
<1>9. CASE FailOpen(r)
  BY <1>4, <1>9 DEF FailOpen
<1>10. CASE ReadEvents(r)
  <2>1. UNCHANGED <<now, run, bucket, alertVars>>
    BY <1>10 DEF ReadEvents
  <2>2. /\ reader' \in [Readers -> Reader] /\ Seen' /\ reader'[r].pc # "stamped"
        /\ \A q \in Readers : q # r => reader'[q] = reader[q]
    BY <1>1, <1>10, ReadKeepsSeen
  <2>3. \A q \in Readers : reader'[q].pc = "stamped" => reader'[q].stamp <= now
    BY <1>1, <2>2 DEF Budget
  <2>4. Budget'
    BY <1>1, <2>1, <2>3 DEF Budget
  <2> QED
    BY <2>1, <2>2, <2>4, LeftAlone DEF StreamsInv, StreamsTypeOK, alertVars
<1>11. CASE ReadTimeout(r)
  BY <1>5, <1>11 DEF ReadTimeout
<1>12. CASE Disconnect(r)
  BY <1>5, <1>12 DEF Disconnect
<1> QED
  BY <1>3, <1>7, <1>8, <1>9, <1>10, <1>11, <1>12

(* Time passes: a run's stream expires as a whole, the bucket's key when   *)
(* it is full again.                                                       *)
LEMMA TickStep ==
  ASSUME StreamsInv, Tick
  PROVE  StreamsInv'
<1>1. /\ now \in Nat /\ now' = now + 1 /\ run \in Stream /\ bucket \in Bucket
      /\ bucket' = [bucket EXCEPT !.exists = @ /\ bucket.expires > now + 1]
      /\ run' = IF run.expires = now + 1 THEN [run EXCEPT !.kept = Len(run.log) + 1, !.expires = 0] ELSE run
      /\ UNCHANGED <<reader, alertVars>>
      /\ Len(run.log) + 1 \in Nat /\ Len(run.log) + 1 > 0 /\ run.count \in Nat
  BY DEF Tick, StreamsInv, StreamsTypeOK, Stream
<1>2. run' \in Stream /\ run'.kept > 0
  <2>1. CASE run.expires = now + 1
    <3>1. run' = [run EXCEPT !.kept = Len(run.log) + 1, !.expires = 0]
      BY <1>1, <2>1
    <3>2. run' \in Stream
      BY <1>1, <3>1, StreamTypes
    <3>3. run'.kept = Len(run.log) + 1
      BY <1>1, <3>1 DEF Stream
    <3> QED
      BY <1>1, <3>2, <3>3
  <2>2. CASE run.expires # now + 1
    BY <1>1, <2>2 DEF StreamsInv, StreamsTypeOK
  <2> QED
    BY <2>1, <2>2
<1>3. Seen'
  <2>1. CASE run.expires = now + 1
    <3>1. run'.log = run.log /\ run'.count = run.count /\ run'.pipeline = run.pipeline
          /\ run'.kept = Len(run.log) + 1
      BY <1>1, <2>1 DEF Stream
    <3>2. run.count = 1 => run.pipeline = "gone"
      BY <1>1, <2>1 DEF StreamsInv, Seen, FirstStream
    <3>3. run.count > 0
      BY DEF StreamsInv, Seen
    <3> QED
      BY <1>1, <3>1, <3>2, <3>3, PipelineKeepsSeen DEF StreamsInv
  <2>2. CASE run.expires # now + 1
    BY <1>1, <2>2, LeftAlone DEF StreamsInv
  <2> QED
    BY <2>1, <2>2
<1>4. /\ bucket' \in Bucket
      /\ bucket'.exists = (bucket.exists /\ bucket.expires > now + 1)
      /\ bucket'.tokens = bucket.tokens /\ bucket'.updated = bucket.updated
      /\ bucket'.expires = bucket.expires /\ bucket'.granted = bucket.granted
      /\ bucket'.overtaken = bucket.overtaken
  BY <1>1 DEF Bucket
<1>5. Budget'
  <2>1. Capacity \in Nat /\ Budget
    BY StreamsAssumption DEF StreamsInv
  <2>2. /\ bucket.tokens \in Nat /\ bucket.updated \in Nat /\ bucket.expires \in Nat
        /\ bucket.granted \in Nat
    BY <1>1 DEF Bucket
  <2>3. \A r \in Readers : reader[r].pc = "stamped" => reader[r].stamp <= now'
    BY <1>1, <2>1 DEF Budget, StreamsInv, StreamsTypeOK, Reader
  <2>4. CASE bucket'.exists
    <3>1. bucket.exists
      BY <1>4, <2>4
    <3> QED
      BY <1>1, <1>4, <2>1, <2>2, <2>3, <2>4, <3>1 DEF Budget
  <2>5. CASE ~ bucket'.exists /\ bucket.exists
    <3>1. bucket.expires <= now'
      <4>1. ~ (bucket.expires > now + 1)
        BY <1>4, <2>5
      <4> QED
        BY <1>1, <2>2, <4>1
    <3>2. ~ bucket.overtaken => bucket.granted <= bucket.expires
      BY <2>1, <2>2, <2>5 DEF Budget
    <3>3. bucket.updated <= now'
      BY <1>1, <2>1, <2>2 DEF Budget
    <3> QED
      BY <1>1, <1>4, <2>3, <2>5, <3>1, <3>2, <3>3 DEF Budget
  <2>6. CASE ~ bucket'.exists /\ ~ bucket.exists
    BY <1>1, <1>4, <2>1, <2>2, <2>3, <2>6 DEF Budget
  <2> QED
    BY <2>4, <2>5, <2>6
<1> QED
  BY <1>1, <1>2, <1>3, <1>4, <1>5, LeftAlone DEF StreamsInv, StreamsTypeOK, alertVars

(* What is published to the alerts, and what a connection to them does.    *)
LEMMA AlertStep ==
  ASSUME StreamsInv, AlertFeed
  PROVE  StreamsInv'
<1>1. /\ UNCHANGED <<now, runVars>> /\ alerts.count \in Nat /\ alerts.kept \in Nat /\ alerts.kept > 0
      /\ Following /\ StreamsTypeOK
  BY DEF AlertFeed, PublishAlert, Subscribe, Block, Receive, KeepAlive, Unsubscribe,
         StreamsInv, StreamsTypeOK
<1>2. ASSUME alerts' \in [count : Nat, kept : Nat], alerts'.kept > 0,
             watcher' \in [Watchers -> Watcher], Following'
      PROVE  StreamsInv'
  BY <1>1, <1>2, LeftAlone DEF StreamsInv, StreamsTypeOK, runVars
<1>3. CASE PublishAlert
  <2>1. PICK kept \in alerts.kept..(alerts.count + 1) :
          alerts' = [count |-> alerts.count + 1, kept |-> kept] /\ watcher' = watcher
    BY <1>3 DEF PublishAlert
  <2>2. kept \in Nat /\ kept > 0 /\ alerts.kept <= kept /\ alerts'.kept = kept
    BY <1>1, <2>1
  <2>3. \A w \in Watchers : NoGap(watcher[w].got, alerts'.kept)
    BY <1>1, <2>2, NoGapStays DEF Following, StreamsTypeOK, Watcher
  <2>4. Following'
    BY <1>1, <2>1, <2>3 DEF Following
  <2> QED
    BY <1>1, <1>2, <2>1, <2>2, <2>4 DEF StreamsTypeOK
<1>4. ASSUME NEW w \in Watchers, NEW y \in Watcher, watcher' = [watcher EXCEPT ![w] = y],
             alerts' = alerts,
             y.fromNow => y.got = <<>>,
             y.got # <<>> => y.at = y.got[Len(y.got)],
             NoGap(y.got, alerts.kept)
      PROVE  StreamsInv'
  <2>1. /\ watcher' \in [Watchers -> Watcher] /\ watcher'[w] = y
        /\ \A v \in Watchers : v # w => watcher'[v] = watcher[v]
    BY <1>1, <1>4 DEF StreamsTypeOK
  <2>2. ASSUME NEW v \in Watchers
        PROVE  /\ watcher'[v].fromNow => watcher'[v].got = <<>>
               /\ watcher'[v].got # <<>> => watcher'[v].at = watcher'[v].got[Len(watcher'[v].got)]
               /\ NoGap(watcher'[v].got, alerts.kept)
    <3>1. CASE v = w
      BY <1>4, <2>1, <3>1
    <3>2. CASE v # w
      BY <1>1, <2>1, <3>2 DEF Following
    <3> QED
      BY <3>1, <3>2
  <2>3. Following'
    BY <1>4, <2>2 DEF Following
  <2> QED
    BY <1>1, <1>2, <1>4, <2>1, <2>3 DEF StreamsTypeOK
<1>5. /\ Off \in Watcher /\ Off.got = <<>> /\ [Off EXCEPT !.pc = "between"] \in Watcher
      /\ [Off EXCEPT !.pc = "between"].got = <<>>
      /\ NoGap(<<>>, alerts.kept)
  <2>1. <<>> \in Seq(Nat) /\ Len(<<>>) = 0
    OBVIOUS
  <2>2. Off \in Watcher /\ Off.got = <<>> /\ [Off EXCEPT !.pc = "between"] \in Watcher
        /\ [Off EXCEPT !.pc = "between"].got = <<>>
    BY <2>1 DEF Off, Watcher
  <2>3. NoGap(<<>>, alerts.kept)
    BY <2>1 DEF NoGap
  <2> QED
    BY <2>2, <2>3
<1>6. ASSUME NEW w \in Watchers, Subscribe(w) PROVE StreamsInv'
  <2> DEFINE y == [Off EXCEPT !.pc = "between"]
  <2>1. watcher' = [watcher EXCEPT ![w] = y] /\ alerts' = alerts /\ y \in Watcher /\ y.got = <<>>
    BY <1>5, <1>6 DEF Subscribe
  <2> HIDE DEF y
  <2> QED
    BY <1>4, <1>5, <2>1
<1>7. ASSUME NEW w \in Watchers, Unsubscribe(w) PROVE StreamsInv'
  BY <1>4, <1>5, <1>7 DEF Unsubscribe
<1>8. ASSUME NEW w \in Watchers, Block(w) PROVE StreamsInv'
  <2> DEFINE x == watcher[w]
             at == IF x.fromNow THEN alerts.count ELSE x.at
             y == [x EXCEPT !.pc = "blocked", !.at = at]
  <2>1. watcher' = [watcher EXCEPT ![w] = y] /\ alerts' = alerts
    BY <1>1, <1>8 DEF Block, StreamsTypeOK
  <2>2. /\ x \in Watcher /\ (x.fromNow => x.got = <<>>) /\ (x.got # <<>> => x.at = x.got[Len(x.got)])
        /\ NoGap(x.got, alerts.kept)
    BY <1>1 DEF Following, StreamsTypeOK
  <2> HIDE DEF x
  <2>3. at \in Nat
    BY <1>1, <2>2 DEF Watcher
  <2>4. y \in Watcher /\ y.got = x.got /\ y.fromNow = x.fromNow /\ y.at = at
    BY <2>2, <2>3 DEF Watcher
  <2>5. y.got # <<>> => y.at = y.got[Len(y.got)]
    BY <2>2, <2>4
  <2> HIDE DEF y, at
  <2> QED
    BY <1>4, <2>1, <2>2, <2>4, <2>5
<1>9. ASSUME NEW w \in Watchers, KeepAlive(w) PROVE StreamsInv'
  <2> DEFINE x == watcher[w]
             y == [x EXCEPT !.pc = "between"]
  <2>1. watcher' = [watcher EXCEPT ![w] = y] /\ alerts' = alerts
    BY <1>1, <1>9 DEF KeepAlive, StreamsTypeOK
  <2>2. /\ x \in Watcher /\ (x.fromNow => x.got = <<>>) /\ (x.got # <<>> => x.at = x.got[Len(x.got)])
        /\ NoGap(x.got, alerts.kept)
    BY <1>1 DEF Following, StreamsTypeOK
  <2> HIDE DEF x
  <2>3. y \in Watcher /\ y.got = x.got /\ y.fromNow = x.fromNow /\ y.at = x.at
    BY <2>2 DEF Watcher
  <2> HIDE DEF y
  <2> QED
    BY <1>4, <2>1, <2>2, <2>3
<1>10. ASSUME NEW w \in Watchers, Receive(w) PROVE StreamsInv'
  <2>1. watcher' \in [Watchers -> Watcher] /\ Following'
    BY <1>1, <1>10, ReceiveFollows
  <2>2. alerts' = alerts
    BY <1>10 DEF Receive
  <2> QED
    BY <1>1, <1>2, <2>1, <2>2 DEF StreamsTypeOK
<1> QED
  BY <1>3, <1>6, <1>7, <1>8, <1>9, <1>10 DEF AlertFeed

---------------------------------------------------------------------------

(* Nothing published, nobody connected.                                    *)
LEMMA StreamsInit == Init => StreamsInv
<1> SUFFICES ASSUME Init PROVE StreamsInv
  OBVIOUS
<1>1. <<>> \in Seq(Nat) /\ <<>> \in Seq({"event", "end"}) /\ Len(<<>>) = 0
  OBVIOUS
<1>2. /\ NewRun \in Stream /\ NotConnected \in Reader /\ NewBucket \in Bucket /\ Off \in Watcher
      /\ NewRun.kept = 1 /\ NewRun.count = 1 /\ NewRun.log = <<>> /\ NewRun.expires = 0
      /\ NotConnected.pc = "idle" /\ Off.got = <<>>
      /\ NewBucket.exists = FALSE /\ NewBucket.expires = 0 /\ NewBucket.granted = 0 /\ NewBucket.updated = 0
  BY <1>1 DEF NewRun, Stream, NotConnected, Reader, NewBucket, Bucket, Off, Watcher
<1>3. StreamsTypeOK
  BY <1>2 DEF Init, StreamsTypeOK
<1>4. Budget
  BY <1>2 DEF Init, Budget
<1>5. Following
  BY <1>1, <1>2 DEF Init, Following, NoGap
<1>6. Seen
  BY <1>1, <1>2 DEF Init, Seen, FirstStream, Holds
<1> QED
  BY <1>3, <1>4, <1>5, <1>6 DEF StreamsInv

LEMMA StreamsStep == StreamsInv /\ [Next]_vars => StreamsInv'
<1> SUFFICES ASSUME StreamsInv, [Next]_vars PROVE StreamsInv'
  OBVIOUS
<1>1. CASE PublishEvent \/ PublishTerminal \/ ExpireStream \/ PipelineDies \/ RunAgain
  BY <1>1, PipelineStep
<1>2. ASSUME NEW r \in Readers,
             \/ Connect(r) \/ Admitted(r) \/ Limited(r) \/ FailOpen(r)
             \/ ReadEvents(r) \/ ReadTimeout(r) \/ Disconnect(r)
      PROVE  StreamsInv'
  BY <1>2, ConnectionStep
<1>3. CASE Tick
  BY <1>3, TickStep
<1>4. CASE AlertFeed
  BY <1>4, AlertStep
<1>5. CASE UNCHANGED vars
  BY <1>5, LeftAlone DEF vars, StreamsInv, StreamsTypeOK, alertVars
<1> QED
  BY <1>1, <1>2, <1>3, <1>4, <1>5 DEF Next, RunFeed

(* Every variable of the feeds keeps its type.                             *)
THEOREM StreamsTypeCorrect == Spec => []StreamsTypeOK
<1>1. StreamsInv => StreamsTypeOK
  BY DEF StreamsInv
<1> QED
  BY <1>1, StreamsInit, StreamsStep, PTL DEF Spec

(* A connection that was told run_complete has got every event of the run. *)
THEOREM CompleteSawAllAlways == Spec => []CompleteSawAll
<1>1. StreamsInv => CompleteSawAll
  BY DEF StreamsInv, Seen, Holds, CompleteSawAll
<1> QED
  BY <1>1, StreamsInit, StreamsStep, PTL DEF Spec

(* The alerts come in order, and none is left out but what was dropped.    *)
THEOREM DeltasHaveNoGapAlways == Spec => []DeltasHaveNoGap
<1>1. StreamsInv => DeltasHaveNoGap
  BY DEF StreamsInv, Following, NoGap, DeltasHaveNoGap
<1> QED
  BY <1>1, StreamsInit, StreamsStep, PTL DEF Spec

(* The bucket has let through no more than it held and regained.           *)
THEOREM BucketHoldsAlways == Spec => []BucketHolds
<1>1. StreamsInv => BucketHolds
  <2> SUFFICES ASSUME StreamsInv, ~ bucket.overtaken
               PROVE  bucket.granted <= Capacity + now
    BY DEF BucketHolds
  <2>1. /\ bucket.granted \in Nat /\ bucket.tokens \in Nat /\ bucket.updated \in Nat
        /\ bucket.expires \in Nat /\ Capacity \in Nat /\ now \in Nat
    BY StreamsAssumption DEF StreamsInv, StreamsTypeOK, Bucket
  <2> QED
    BY <2>1 DEF StreamsInv, Budget
<1> QED
  BY <1>1, StreamsInit, StreamsStep, PTL DEF Spec
=============================================================================
