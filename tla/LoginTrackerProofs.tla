------------------------- MODULE LoginTrackerProofs -------------------------
(***************************************************************************)
(* Theorems about LoginTracker, for every value of its constants.          *)
(***************************************************************************)
EXTENDS LoginTracker, FiniteSetTheorems, TLAPS

---------------------------------------------------------------------------
(* The inductive invariant                                                 *)

(* A request in flight began in the past, no longer ago than the timeout   *)
(* allows, and counts against the address it came from.                    *)
HandlerInv ==
  \A h \in Handlers :
    handlers[h].busy =>
      /\ handlers[h].since <= now /\ now <= handlers[h].since + MaxHold
      /\ steady => handlers[h].remote = Effective(handlers[h].source)

(* A bucket that is in the Map counts from a time that has come. *)
BucketInv ==
  \A ip \in Ips :
    IF buckets[ip].held THEN buckets[ip].firstFailure <= now ELSE buckets[ip] = NoBucket

(* How far back a number of windows reaches, and what they admit *)
Back(j) == j * (Lockout + 1)
Quota(j) == j * MaxAttempts

(* The requests of an address reserved since its window began, and in so   *)
(* many windows before that                                                *)
Recent(ip) == {h \in Outstanding(ip) : handlers[h].since >= buckets[ip].firstFailure}

Older(ip, j) ==
  {h \in Outstanding(ip) : /\ handlers[h].since < buckets[ip].firstFailure
                           /\ buckets[ip].firstFailure <= handlers[h].since + Back(j)}

(* Of an address whose bucket nothing dropped: what is in flight was       *)
(* reserved in this window or in one of those before it that a request may *)
(* outlast, at most MaxAttempts in each, and what it may still fail fits   *)
(* in the attempts of all of them.                                         *)
Bounded(ip) ==
  IF ~buckets[ip].held THEN Outstanding(ip) = {}
  ELSE /\ \A h \in Outstanding(ip) : handlers[h].since <= buckets[ip].firstFailure + Lockout
       /\ Cardinality(Recent(ip)) <= MaxAttempts
       /\ Cardinality(Recent(ip)) <= buckets[ip].failures + buckets[ip].inFlight
       /\ \A j \in Nat : Cardinality(Older(ip, j)) <= Quota(j)
       /\ Cardinality(Outstanding(ip)) <= Quota(Windows) + buckets[ip].inFlight
       /\ buckets[ip].failures + Cardinality(Outstanding(ip)) <= Quota(Windows) + MaxAttempts

GuessInv == gate = "login" /\ steady => \A ip \in Ips \ forgiven : Bounded(ip)

(* The upgrade gate reserves nothing, locks with the last allowed failure  *)
(* (not with a first one, proxy.ts:223) and prunes after each.             *)
UpgradeInv ==
  gate = "upgrade" =>
    /\ Cardinality(Tracked(buckets)) <= MaxTracked
    /\ \A ip \in Ips :
         /\ buckets[ip].inFlight = 0 /\ buckets[ip].failures <= 2 * MaxAttempts
         /\ buckets[ip].lockedUntil = 0 => buckets[ip].failures \in 0..MaxAttempts - 1 \cup {1}

TrackerInv == TypeOK /\ HandlerInv /\ BucketInv /\ UpgradeInv /\ NoLeakedReservation

---------------------------------------------------------------------------
(* The buckets                                                             *)

(* The constant records have the types of the buckets and requests.        *)
LEMMA BucketTypes ==
  ASSUME TypeOK
  PROVE  /\ now \in Nat /\ NoBucket \in Bucket /\ FreshBucket \in Bucket
         /\ NoRequest \in [busy : BOOLEAN, source : Ips, remote : Ips, since : Nat]
<1>1. now \in Nat BY TrackerAssumption DEF TrackerAssumption, TypeOK
<1>2. NoBucket \in Bucket BY DEF NoBucket, Bucket
<1>3. FreshBucket \in Bucket BY <1>1, <1>2 DEF FreshBucket, Bucket
<1>4. NoRequest \in [busy : BOOLEAN, source : Ips, remote : Ips, since : Nat]
  BY TrackerAssumption DEF TrackerAssumption, NoRequest
<1> QED BY <1>1, <1>2, <1>3, <1>4

(* What reserve works on *)
LEMMA ReserveFields ==
  ASSUME TypeOK, NEW ip \in Ips
  PROVE  LET b == ReserveBucket(ip) IN
         /\ b \in Bucket /\ b.held
         /\ \/ b = buckets[ip] /\ ~Stale(b)
            \/ /\ ~buckets[ip].held \/ Stale(buckets[ip])
               /\ b.failures = 0 /\ b.inFlight = 0 /\ b.firstFailure = now /\ b.lockedUntil = 0
  BY BucketTypes DEF ReserveBucket, FreshBucket, NoBucket, TypeOK, Bucket

(* fail opens a new window, or counts in the one that runs. *)
LEMMA FailedFields ==
  ASSUME TypeOK, NEW ip \in Ips
  PROVE  LET b == buckets[ip] f == FailedBucket(ip) IN
         /\ f \in Bucket /\ f.held
         /\ \/ /\ ~b.held \/ Stale(b)
               /\ f.failures = 1 /\ f.inFlight = 0 /\ f.firstFailure = now /\ f.lockedUntil = 0
            \/ /\ b.held /\ ~Stale(b)
               /\ f.failures = b.failures + 1 /\ f.firstFailure = b.firstFailure
               /\ f.inFlight = IF b.inFlight > 0 THEN b.inFlight - 1 ELSE 0
               /\ f.lockedUntil = IF b.failures + 1 >= MaxAttempts THEN now + Lockout
                                  ELSE b.lockedUntil
<1>1. buckets[ip] \in Bucket /\ now \in Nat /\ FreshBucket \in Bucket /\ FreshBucket.held
      /\ FreshBucket.inFlight = 0 /\ FreshBucket.firstFailure = now /\ FreshBucket.lockedUntil = 0
  BY BucketTypes DEF TypeOK, FreshBucket, NoBucket
<1>2. CASE ~buckets[ip].held \/ Stale(buckets[ip])
  <2>1. FailedBucket(ip) = [FreshBucket EXCEPT !.failures = 1] BY <1>2 DEF FailedBucket
  <2> QED BY <1>1, <1>2, <2>1 DEF Bucket
<1>3. CASE buckets[ip].held /\ ~Stale(buckets[ip])
  <2>1. FailedBucket(ip) =
          [buckets[ip] EXCEPT !.failures = @ + 1, !.inFlight = Released(@),
             !.lockedUntil = IF buckets[ip].failures + 1 >= MaxAttempts
                               THEN now + Lockout ELSE @]
    BY <1>3 DEF FailedBucket
  <2>2. Released(buckets[ip].inFlight) \in Nat BY <1>1 DEF Released, Bucket
  <2>3. now + Lockout \in Nat BY <1>1, TrackerAssumption DEF TrackerAssumption
  <2>4. PICK b \in Bucket, n \in Nat, l \in Nat :
          /\ b = buckets[ip] /\ n = Released(buckets[ip].inFlight)
          /\ l = IF buckets[ip].failures + 1 >= MaxAttempts THEN now + Lockout
                 ELSE buckets[ip].lockedUntil
    BY <1>1, <2>2, <2>3 DEF Bucket
  <2>5. FailedBucket(ip) =
          [b EXCEPT !.failures = b.failures + 1, !.inFlight = n, !.lockedUntil = l]
    BY <2>1, <2>4
  <2>6. b.failures + 1 \in Nat BY DEF Bucket
  <2>7. /\ FailedBucket(ip) \in Bucket /\ FailedBucket(ip).held = b.held
        /\ FailedBucket(ip).failures = b.failures + 1
        /\ FailedBucket(ip).firstFailure = b.firstFailure
        /\ FailedBucket(ip).inFlight = n /\ FailedBucket(ip).lockedUntil = l
    BY <2>5, <2>6 DEF Bucket
  <2> QED BY <1>3, <2>4, <2>7 DEF Released
<1> QED BY <1>2, <1>3

(* The addresses a map tracks can be counted.                              *)
LEMMA TrackedFinite ==
  ASSUME NEW map
  PROVE  IsFiniteSet(Tracked(map)) /\ Cardinality(Tracked(map)) \in Nat
<1>1. Tracked(map) \subseteq Ips BY DEF Tracked
<1>2. IsFiniteSet(Tracked(map))
  BY <1>1, FS_Subset, TrackerAssumption DEF TrackerAssumption
<1> QED BY <1>2, FS_CardinalityType

(* The buckets prune removes first, and the Map without them *)
Expired(map) ==
  {ip \in Tracked(map) :
     \/ map[ip].lockedUntil # 0 /\ map[ip].lockedUntil <= now
     \/ Stale(map[ip])}

Swept(map) == [ip \in Ips |-> IF ip \in Expired(map) THEN NoBucket ELSE map[ip]]

(* prune only removes buckets, none below the cap, and one more than the   *)
(* cap does not get past it.                                               *)
LEMMA PrunedFields ==
  ASSUME TypeOK, NEW map \in [Ips -> Bucket], NEW new \in Pruned(map)
  PROVE  /\ new \in [Ips -> Bucket]
         /\ \A ip \in Ips : new[ip] \in {map[ip], NoBucket}
         /\ Cardinality(Tracked(map)) <= MaxTracked => new = map
         /\ \/ new = map /\ Cardinality(Tracked(map)) <= MaxTracked
            \/ new = Swept(map) /\ Cardinality(Tracked(Swept(map))) <= MaxTracked
            \/ \E ip \in Tracked(Swept(map)) :
                 /\ new = [Swept(map) EXCEPT ![ip] = NoBucket]
                 /\ ~(Cardinality(Tracked(Swept(map))) <= MaxTracked)
<1>1. Swept(map) \in [Ips -> Bucket] /\ \A ip \in Ips : Swept(map)[ip] \in {map[ip], NoBucket}
  BY BucketTypes DEF Swept
<1>2. \/ new = map /\ Cardinality(Tracked(map)) <= MaxTracked
      \/ /\ new = Swept(map) /\ Cardinality(Tracked(Swept(map))) <= MaxTracked
         /\ ~(Cardinality(Tracked(map)) <= MaxTracked)
      \/ /\ ~(Cardinality(Tracked(map)) <= MaxTracked)
         /\ \E ip \in Tracked(Swept(map)) :
              /\ new = [Swept(map) EXCEPT ![ip] = NoBucket]
              /\ ~(Cardinality(Tracked(Swept(map))) <= MaxTracked)
  BY DEF Pruned, Expired, Swept
<1>3. ASSUME NEW ip \in Tracked(Swept(map)), new = [Swept(map) EXCEPT ![ip] = NoBucket]
      PROVE  new \in [Ips -> Bucket] /\ \A j \in Ips : new[j] \in {map[j], NoBucket}
  BY <1>1, <1>3, BucketTypes
<1> QED BY <1>1, <1>2, <1>3

---------------------------------------------------------------------------
(* The requests in flight                                                  *)

(* The requests of an address in flight, and the recent ones, can be       *)
(* counted.                                                                *)
LEMMA FlightFinite ==
  ASSUME NEW ip
  PROVE  /\ IsFiniteSet(Outstanding(ip)) /\ IsFiniteSet(Recent(ip))
         /\ Cardinality(Outstanding(ip)) \in Nat /\ Cardinality(Recent(ip)) \in Nat
         /\ \A j : IsFiniteSet(Older(ip, j)) /\ Cardinality(Older(ip, j)) \in Nat
<1>1. /\ Outstanding(ip) \subseteq Handlers /\ Recent(ip) \subseteq Handlers
      /\ \A j : Older(ip, j) \subseteq Handlers
  BY DEF Outstanding, Recent, Older
<1> QED
  BY <1>1, FS_Subset, FS_CardinalityType, TrackerAssumption DEF TrackerAssumption

(* A request that settles leaves the requests of its address. *)
LEMMA SettleSets ==
  ASSUME TypeOK, NEW h \in Handlers, handlers[h].busy, Settle(h)
  PROVE  /\ handlers' \in [Handlers -> [busy : BOOLEAN, source : Ips, remote : Ips, since : Nat]]
         /\ \A k \in Handlers : handlers'[k] = IF k = h THEN NoRequest ELSE handlers[k]
         /\ \A j \in Ips : Outstanding(j)' = Outstanding(j) \ {h}
         /\ \A j \in Ips : Cardinality(Outstanding(j)') \in Nat
         /\ \A j \in Ips : j # handlers[h].remote => Outstanding(j)' = Outstanding(j)
         /\ \A j \in Ips : j = handlers[h].remote =>
              Cardinality(Outstanding(j)') + 1 = Cardinality(Outstanding(j))
<1>1. /\ handlers' \in [Handlers -> [busy : BOOLEAN, source : Ips, remote : Ips, since : Nat]]
      /\ \A k \in Handlers : handlers'[k] = IF k = h THEN NoRequest ELSE handlers[k]
  BY BucketTypes DEF Settle, TypeOK
<1>2. \A j \in Ips : Outstanding(j)' = Outstanding(j) \ {h}
  BY <1>1 DEF Outstanding, NoRequest
<1>3. \A j \in Ips : j # handlers[h].remote => h \notin Outstanding(j) BY DEF Outstanding
<1>4. h \in Outstanding(handlers[h].remote) /\ handlers[h].remote \in Ips
  BY DEF Outstanding, TypeOK
<1>5. \A j \in Ips : /\ Cardinality(Outstanding(j)') \in Nat
                     /\ IsFiniteSet(Outstanding(j)) /\ Cardinality(Outstanding(j)) \in Nat
  BY <1>2, FlightFinite, FS_RemoveElement, FS_CardinalityType
<1>6. ASSUME NEW ip \in Ips, ip = handlers[h].remote
      PROVE  Cardinality(Outstanding(ip)') + 1 = Cardinality(Outstanding(ip))
  <2>1. PICK S \in SUBSET Handlers, n \in Nat :
          S = Outstanding(ip) /\ n = Cardinality(S) /\ IsFiniteSet(S)
    BY <1>5 DEF Outstanding
  <2>2. Outstanding(ip)' = S \ {h} /\ h \in S BY <1>2, <1>4, <1>6, <2>1
  <2>3. Cardinality(S \ {h}) = n - 1 BY <2>1, <2>2, FS_RemoveElement
  <2> QED BY <2>1, <2>2, <2>3
<1>7. PICK ip \in Ips : ip = handlers[h].remote BY <1>4
<1>8. \A j \in Ips : j # ip => Outstanding(j)' = Outstanding(j) BY <1>2, <1>3, <1>7
<1> QED BY <1>1, <1>2, <1>5, <1>6, <1>7, <1>8

(* A new request joins those of its address. *)
LEMMA JoinSets ==
  ASSUME TypeOK, NEW h \in Handlers, ~handlers[h].busy, NEW ip \in Ips, NEW src \in Ips,
         handlers' = [handlers EXCEPT ![h] =
           [busy |-> TRUE, source |-> src, remote |-> ip, since |-> now]]
  PROVE  /\ handlers' \in [Handlers -> [busy : BOOLEAN, source : Ips, remote : Ips, since : Nat]]
         /\ \A k \in Handlers : k # h => handlers'[k] = handlers[k]
         /\ handlers'[h].busy /\ handlers'[h].source = src /\ handlers'[h].remote = ip
         /\ handlers'[h].since = now
         /\ \A j \in Ips : Cardinality(Outstanding(j)') \in Nat
         /\ \A j \in Ips : j # ip => Outstanding(j)' = Outstanding(j)
         /\ Outstanding(ip)' = Outstanding(ip) \cup {h} /\ h \notin Outstanding(ip)
         /\ Cardinality(Outstanding(ip)') = Cardinality(Outstanding(ip)) + 1
<1>1. /\ handlers' \in [Handlers -> [busy : BOOLEAN, source : Ips, remote : Ips, since : Nat]]
      /\ \A k \in Handlers : k # h => handlers'[k] = handlers[k]
      /\ handlers'[h].busy /\ handlers'[h].source = src /\ handlers'[h].remote = ip
      /\ handlers'[h].since = now
  BY BucketTypes DEF TypeOK
<1>2. \A j \in Ips : j # ip => Outstanding(j)' = Outstanding(j)
  BY <1>1 DEF Outstanding
<1>3. Outstanding(ip)' = Outstanding(ip) \cup {h} /\ h \notin Outstanding(ip)
  BY <1>1 DEF Outstanding
<1>4. \A j \in Ips : IsFiniteSet(Outstanding(j)) /\ Cardinality(Outstanding(j)) \in Nat
  BY FlightFinite
<1>5. PICK S \in SUBSET Handlers, n \in Nat :
        S = Outstanding(ip) /\ n = Cardinality(S) /\ IsFiniteSet(S)
  BY <1>4 DEF Outstanding
<1>6. Outstanding(ip)' = S \cup {h} /\ h \notin S BY <1>3, <1>5
<1>7. Cardinality(S \cup {h}) = n + 1 BY <1>5, <1>6, FS_AddElement
<1>8. Cardinality(Outstanding(ip)') = Cardinality(Outstanding(ip)) + 1
  BY <1>5, <1>6, <1>7
<1>9. \A j \in Ips : Cardinality(Outstanding(j)') \in Nat
  <2>1. \A j \in Ips : j # ip => Cardinality(Outstanding(j)') \in Nat BY <1>2, <1>4
  <2>2. Cardinality(Outstanding(ip)') \in Nat BY <1>5, <1>8
  <2> QED BY <2>1, <2>2
<1> QED BY <1>1, <1>2, <1>3, <1>8, <1>9

(* The windows a request may outlast, and what one window more admits *)
LEMMA WindowFacts ==
  /\ Windows \in Nat /\ Windows > 0 /\ MaxHold <= Back(Windows)
  /\ Quota(0) = 0 /\ Back(0) = 0
  /\ \A j \in Nat : /\ Quota(j) \in Nat /\ Back(j) \in Nat
                     /\ Quota(j + 1) = Quota(j) + MaxAttempts
                     /\ Back(j + 1) = Back(j) + Lockout + 1
<1> USE TrackerAssumption DEF TrackerAssumption
<1>1. Windows \in Nat /\ Windows > 0 /\ MaxHold <= Windows * (Lockout + 1)
  BY DEF Windows
<1>2. \A j \in Nat : /\ Quota(j) \in Nat /\ Back(j) \in Nat
                     /\ Quota(j + 1) = Quota(j) + MaxAttempts
                     /\ Back(j + 1) = Back(j) + Lockout + 1
  BY DEF Quota, Back
<1> QED BY <1>1, <1>2 DEF Quota, Back

(* When a window ends, what is in flight was reserved before now, and of   *)
(* each window further back no more than the attempts it admitted; none is *)
(* older than a request may be.                                            *)
LEMMA WindowEnds ==
  ASSUME TypeOK, HandlerInv, NEW ip \in Ips,
         buckets[ip].held, Bounded(ip), Stale(buckets[ip])
  PROVE  /\ Cardinality(Outstanding(ip)) <= Quota(Windows)
         /\ \A k \in Outstanding(ip) : handlers[k].since < now
         /\ \A j \in Nat :
              Cardinality({k \in Outstanding(ip) : now <= handlers[k].since + Back(j)})
                <= Quota(j)
<1> USE TrackerAssumption DEF TrackerAssumption
<1> DEFINE F == buckets[ip].firstFailure
           Since(j) == {k \in Outstanding(ip) : now <= handlers[k].since + Back(j)}
<1>1. now \in Nat /\ F \in Nat /\ now > F + Lockout
  BY BucketTypes DEF TypeOK, Bucket, Stale
<1>2. \A k \in Outstanding(ip) :
        /\ handlers[k].since \in Nat /\ handlers[k].since < now
        /\ now <= handlers[k].since + MaxHold
  <2>1. ASSUME NEW k \in Outstanding(ip)
        PROVE  /\ handlers[k].since \in Nat /\ handlers[k].since <= F + Lockout
               /\ now <= handlers[k].since + MaxHold
    BY <2>1 DEF Outstanding, TypeOK, HandlerInv, Bounded
  <2> QED BY <1>1, <2>1
<1>3. ASSUME NEW j \in Nat PROVE Cardinality(Since(j)) <= Quota(j)
  <2>1. CASE j = 0
    <3>1. Since(0) = {} BY <1>1, <1>2, WindowFacts
    <3>2. Cardinality(Since(0)) = 0 BY <3>1, FS_EmptySet
    <3> QED BY <2>1, <3>2, WindowFacts
  <2>2. CASE j # 0
    <3>1. PICK i \in Nat : j = i + 1 BY <2>2
    <3>2. PICK back \in Nat : back = Back(i) /\ Back(j) = back + Lockout + 1
      BY <3>1, WindowFacts
    <3>3. \A k \in Since(j) : k \in Older(ip, i) \/ k \in Recent(ip)
      BY <1>1, <1>2, <3>2 DEF Older, Recent
    <3>4. PICK O \in SUBSET Handlers, R \in SUBSET Handlers :
            /\ O = Older(ip, i) /\ R = Recent(ip) /\ IsFiniteSet(O) /\ IsFiniteSet(R)
            /\ Cardinality(O) \in Nat /\ Cardinality(R) \in Nat
      <4>1. Older(ip, i) \subseteq Handlers /\ Recent(ip) \subseteq Handlers
        BY DEF Older, Recent, Outstanding
      <4>2. /\ IsFiniteSet(Older(ip, i)) /\ IsFiniteSet(Recent(ip))
            /\ Cardinality(Older(ip, i)) \in Nat /\ Cardinality(Recent(ip)) \in Nat
        BY FlightFinite
      <4> QED BY <4>1, <4>2
    <3>5. Cardinality(O) <= Quota(i) /\ Cardinality(R) <= MaxAttempts
      BY <3>4 DEF Bounded
    <3>6. PICK u \in Nat : /\ IsFiniteSet(O \cup R) /\ u = Cardinality(O \cup R)
                           /\ u <= Cardinality(O) + Cardinality(R)
      <4>1. IsFiniteSet(O \cap R) BY <3>4, FS_Subset
      <4>2. Cardinality(O \cap R) \in Nat BY <4>1, FS_CardinalityType
      <4>3. IsFiniteSet(O \cup R) /\ Cardinality(O \cup R) =
               Cardinality(O) + Cardinality(R) - Cardinality(O \cap R)
        BY <3>4, FS_Union
      <4>4. Cardinality(O \cup R) \in Nat BY <4>3, FS_CardinalityType
      <4> QED BY <3>4, <4>2, <4>3, <4>4
    <3>7. Since(j) \subseteq O \cup R BY <3>3, <3>4
    <3>8. Cardinality(Since(j)) \in Nat /\ Cardinality(Since(j)) <= u
      BY <3>6, <3>7, FS_Subset, FS_CardinalityType
    <3>9. Quota(i) \in Nat /\ Quota(j) = Quota(i) + MaxAttempts BY <3>1, WindowFacts
    <3> QED BY <3>4, <3>5, <3>6, <3>8, <3>9
  <2> QED BY <2>1, <2>2
<1>4. Since(Windows) = Outstanding(ip)
  <2>1. MaxHold <= Back(Windows) /\ Back(Windows) \in Nat BY WindowFacts
  <2> QED BY <1>1, <1>2, <2>1
<1>5. Cardinality(Outstanding(ip)) <= Quota(Windows) BY <1>3, <1>4, WindowFacts
<1> QED BY <1>2, <1>3, <1>5

(* Fewer of the requests in flight stay within what bounds more of them.   *)
LEMMA SmallerStays ==
  ASSUME NEW ip \in Ips, NEW S \in SUBSET Outstanding(ip), NEW T \in SUBSET S,
         NEW q \in Nat, Cardinality(S) <= q
  PROVE  Cardinality(T) <= q
<1>1. IsFiniteSet(S) BY FlightFinite, FS_Subset
<1>2. /\ Cardinality(T) <= Cardinality(S) /\ Cardinality(S) \in Nat
      /\ Cardinality(T) \in Nat
  BY <1>1, FS_Subset, FS_CardinalityType
<1> QED BY <1>2

(* A failure of an address stays within the bound. *)
LEMMA FailBounded ==
  ASSUME TypeOK, HandlerInv, NEW h \in Handlers, handlers[h].busy,
         Settle(h), NEW ip \in Ips, ip = handlers[h].remote, Bounded(ip),
         buckets'[ip] = FailedBucket(ip), UNCHANGED now
  PROVE  Bounded(ip)'
<1> USE TrackerAssumption DEF TrackerAssumption
<1> DEFINE b == buckets[ip]
           o == Cardinality(Outstanding(ip))
           m == Cardinality(Outstanding(ip)')
<1>1. h \in Outstanding(ip) BY DEF Outstanding
<1>2. b.held BY <1>1 DEF Bounded
<1>3. o \in Nat /\ m \in Nat /\ o = m + 1 /\ Outstanding(ip)' = Outstanding(ip) \ {h}
  <2>1. o \in Nat BY FlightFinite
  <2>2. m \in Nat /\ m + 1 = o /\ Outstanding(ip)' = Outstanding(ip) \ {h} BY SettleSets
  <2> QED BY <2>1, <2>2
<1>4. \A k \in Outstanding(ip)' :
        /\ k \in Outstanding(ip) /\ k \in Handlers /\ handlers'[k] = handlers[k]
        /\ handlers[k].since \in Nat /\ handlers[k].since <= now
  BY <1>3, SettleSets DEF Outstanding, HandlerInv, TypeOK
<1>5. now \in Nat /\ b.firstFailure \in Nat /\ b.failures \in Nat /\ b.inFlight \in Nat
  BY BucketTypes DEF TypeOK, Bucket
<1>6. PICK q \in Nat : q = Quota(Windows) BY WindowFacts
<1>7. /\ o <= q + b.inFlight /\ b.failures + o <= q + MaxAttempts
      /\ Cardinality(Recent(ip)) <= MaxAttempts
      /\ Cardinality(Recent(ip)) <= b.failures + b.inFlight
      /\ \A j \in Nat : Cardinality(Older(ip, j)) <= Quota(j)
      /\ \A k \in Outstanding(ip) : handlers[k].since <= b.firstFailure + Lockout
  BY <1>2, <1>6 DEF Bounded
<1>8. IsFiniteSet(Recent(ip)) /\ Cardinality(Recent(ip)) \in Nat BY FlightFinite
<1>9. CASE Stale(b)
  <2>1. /\ buckets'[ip].held /\ buckets'[ip].failures = 1 /\ buckets'[ip].inFlight = 0
        /\ buckets'[ip].firstFailure = now
    BY <1>2, <1>9, FailedFields
  <2>2. o <= q /\ \A k \in Outstanding(ip) : handlers[k].since < now
    BY <1>2, <1>6, <1>9, WindowEnds
  <2>3. Recent(ip)' = {}
    <3>1. \A k \in Outstanding(ip)' : ~(handlers'[k].since >= now)
      BY <1>4, <1>5, <2>2
    <3> QED BY <2>1, <3>1 DEF Recent
  <2>4. Cardinality(Recent(ip)') = 0 BY <2>3, FS_EmptySet
  <2>5. m <= q + 0 /\ 1 + m <= q + MaxAttempts /\ 0 <= MaxAttempts /\ 0 <= 1 + 0
    BY <1>3, <2>2
  <2>6. \A k \in Outstanding(ip)' : handlers'[k].since <= now + Lockout BY <1>4, <1>5
  <2>7. ASSUME NEW j \in Nat PROVE Cardinality(Older(ip, j)') <= Quota(j)
    <3>1. Older(ip, j)' \subseteq {k \in Outstanding(ip) : now <= handlers[k].since + Back(j)}
      BY <1>4, <2>1 DEF Older
    <3> QED BY <1>2, <1>9, <3>1, WindowEnds, WindowFacts, SmallerStays
  <2> QED BY <1>6, <2>1, <2>4, <2>5, <2>6, <2>7 DEF Bounded
<1>10. CASE ~Stale(b)
  <2>1. /\ buckets'[ip].held /\ buckets'[ip].failures = b.failures + 1
        /\ buckets'[ip].firstFailure = b.firstFailure
        /\ buckets'[ip].inFlight = IF b.inFlight > 0 THEN b.inFlight - 1 ELSE 0
    BY <1>2, <1>10, FailedFields
  <2>2. Recent(ip)' \subseteq Recent(ip) BY <1>4, <2>1 DEF Recent
  <2>3. /\ Cardinality(Recent(ip)') <= Cardinality(Recent(ip))
        /\ Cardinality(Recent(ip)') \in Nat
    BY <1>8, <2>2, FS_Subset, FS_CardinalityType
  <2>4. /\ m <= q + buckets'[ip].inFlight
        /\ buckets'[ip].failures + m <= q + MaxAttempts
        /\ Cardinality(Recent(ip)') <= MaxAttempts
        /\ Cardinality(Recent(ip)') <= buckets'[ip].failures + buckets'[ip].inFlight
    BY <1>3, <1>5, <1>7, <1>8, <2>1, <2>3
  <2>5. \A k \in Outstanding(ip)' : handlers'[k].since <= buckets'[ip].firstFailure + Lockout
    BY <1>4, <1>7, <2>1
  <2>6. ASSUME NEW j \in Nat PROVE Cardinality(Older(ip, j)') <= Quota(j)
    <3>1. Older(ip, j)' \subseteq Older(ip, j) BY <1>4, <2>1 DEF Older
    <3>2. Older(ip, j) \subseteq Outstanding(ip) BY DEF Older
    <3> QED BY <1>7, <3>1, <3>2, WindowFacts, SmallerStays
  <2> QED BY <1>6, <2>1, <2>4, <2>5, <2>6 DEF Bounded
<1> QED BY <1>9, <1>10

(* A reservation of an address stays within the bound. *)
LEMMA ReserveBounded ==
  ASSUME TypeOK, HandlerInv, BucketInv, NEW h \in Handlers, ~handlers[h].busy,
         NEW ip \in Ips, NEW src \in Ips, Bounded(ip),
         handlers' = [handlers EXCEPT ![h] =
           [busy |-> TRUE, source |-> src, remote |-> ip, since |-> now]],
         NEW b \in Bucket, b = ReserveBucket(ip), Counted(b) < MaxAttempts,
         buckets'[ip] = [b EXCEPT !.inFlight = @ + 1], UNCHANGED now
  PROVE  Bounded(ip)'
<1> USE TrackerAssumption DEF TrackerAssumption
<1>1. /\ now \in Nat /\ b.failures \in Nat /\ b.inFlight \in Nat /\ b.firstFailure \in Nat
      /\ b.failures + b.inFlight < MaxAttempts
  BY BucketTypes DEF Bucket, Counted
<1>2. /\ buckets'[ip].held /\ buckets'[ip].failures = b.failures
      /\ buckets'[ip].inFlight = b.inFlight + 1 /\ buckets'[ip].firstFailure = b.firstFailure
  BY ReserveFields DEF Bucket
<1>3. PICK o \in Nat, m \in Nat :
        o = Cardinality(Outstanding(ip)) /\ m = Cardinality(Outstanding(ip)') /\ m = o + 1
  <2>1. Cardinality(Outstanding(ip)) \in Nat BY FlightFinite
  <2>2. Cardinality(Outstanding(ip)') = Cardinality(Outstanding(ip)) + 1 BY JoinSets
  <2> QED BY <2>1, <2>2
<1>4. /\ Outstanding(ip)' = Outstanding(ip) \cup {h} /\ h \notin Outstanding(ip)
      /\ handlers'[h].since = now /\ \A k \in Handlers : k # h => handlers'[k] = handlers[k]
  BY JoinSets
<1>5. \A k \in Outstanding(ip)' : k # h =>
        /\ k \in Outstanding(ip) /\ k \in Handlers /\ handlers'[k] = handlers[k]
        /\ handlers[k].since \in Nat /\ handlers[k].since <= now
  BY <1>4 DEF Outstanding, HandlerInv, TypeOK
<1>6. PICK q \in Nat : q = Quota(Windows) BY WindowFacts
<1>7. ASSUME NEW n \in Nat, \A k \in Outstanding(ip)' :
               handlers'[k].since <= buckets'[ip].firstFailure + Lockout,
             m <= q + b.inFlight + 1, b.failures + m <= q + MaxAttempts,
             n = Cardinality(Recent(ip)'), n <= b.failures + b.inFlight + 1,
             \A j \in Nat : Cardinality(Older(ip, j)') <= Quota(j)
      PROVE  Bounded(ip)'
  <2>1. n <= MaxAttempts /\ n <= buckets'[ip].failures + buckets'[ip].inFlight
    BY <1>1, <1>2, <1>7
  <2>2. /\ Cardinality(Outstanding(ip)') <= q + buckets'[ip].inFlight
        /\ buckets'[ip].failures + Cardinality(Outstanding(ip)') <= q + MaxAttempts
    BY <1>1, <1>2, <1>3, <1>7
  <2> QED BY <1>2, <1>7, <1>6, <2>1, <2>2 DEF Bounded
<1>8. CASE ~buckets[ip].held \/ Stale(buckets[ip])
  <2>1. b.failures = 0 /\ b.inFlight = 0 /\ b.firstFailure = now
    BY <1>8, ReserveFields DEF ReserveBucket, FreshBucket, NoBucket
  <2>2. /\ o <= q /\ \A k \in Outstanding(ip) : handlers[k].since < now
        /\ \A j \in Nat :
             Cardinality({k \in Outstanding(ip) : now <= handlers[k].since + Back(j)})
               <= Quota(j)
    <3>1. CASE ~buckets[ip].held
      <4>1. Outstanding(ip) = {} BY <3>1 DEF Bounded
      <4>2. \A j : {k \in Outstanding(ip) : now <= handlers[k].since + Back(j)} = {}
        BY <4>1
      <4>3. \A j \in Nat : 0 <= Quota(j) BY WindowFacts
      <4>4. o = 0 /\ 0 <= q BY <1>3, <4>1, FS_EmptySet
      <4> QED BY <4>1, <4>2, <4>3, <4>4, FS_EmptySet
    <3>2. CASE buckets[ip].held /\ Stale(buckets[ip]) BY <3>2, <1>3, <1>6, WindowEnds
    <3> QED BY <1>8, <3>1, <3>2
  <2>3. Recent(ip)' = {h}
    <3>1. \A k \in Outstanding(ip)' : k # h => ~(handlers'[k].since >= now)
      BY <1>1, <1>5, <2>2
    <3>2. h \in Outstanding(ip)' /\ handlers'[h].since >= now BY <1>1, <1>4
    <3>3. buckets'[ip].firstFailure = now BY <1>2, <2>1
    <3> QED BY <3>1, <3>2, <3>3 DEF Recent
  <2>4. Cardinality({h}) = 1 BY FS_Singleton
  <2>5. \A k \in Outstanding(ip)' : handlers'[k].since <= buckets'[ip].firstFailure + Lockout
    BY <1>1, <1>2, <1>4, <1>5, <2>1
  <2>6. /\ m <= q + b.inFlight + 1 /\ b.failures + m <= q + MaxAttempts
        /\ 1 <= b.failures + b.inFlight + 1
    BY <1>3, <2>1, <2>2
  <2>7. 1 \in Nat /\ 1 = Cardinality(Recent(ip)') BY <2>3, <2>4
  <2>8. ASSUME NEW j \in Nat PROVE Cardinality(Older(ip, j)') <= Quota(j)
    <3>1. h \notin Older(ip, j)' BY <1>1, <1>2, <1>4, <2>1 DEF Older
    <3>2. Older(ip, j)' \subseteq {k \in Outstanding(ip) : now <= handlers[k].since + Back(j)}
      BY <1>2, <1>5, <2>1, <3>1 DEF Older
    <3> QED BY <2>2, <3>2, WindowFacts, SmallerStays
  <2> QED BY <1>7, <2>5, <2>6, <2>7, <2>8
<1>9. CASE buckets[ip].held /\ ~Stale(buckets[ip])
  <2>1. b = buckets[ip] BY <1>9 DEF ReserveBucket
  <2>2. /\ o <= q + b.inFlight
        /\ Cardinality(Recent(ip)) <= b.failures + b.inFlight
        /\ \A j \in Nat : Cardinality(Older(ip, j)) <= Quota(j)
        /\ \A k \in Outstanding(ip) : handlers[k].since <= b.firstFailure + Lockout
    BY <1>3, <1>9, <1>6, <2>1 DEF Bounded
  <2>3. now <= b.firstFailure + Lockout BY <1>1, <1>9, <2>1 DEF Stale
  <2>4. PICK R \in SUBSET Handlers, r \in Nat :
          R = Recent(ip) /\ r = Cardinality(R) /\ IsFiniteSet(R) /\ h \notin R
    BY <1>4, FlightFinite DEF Recent, Outstanding
  <2>5. Cardinality(R \cup {h}) = r + 1 /\ IsFiniteSet(R \cup {h}) BY <2>4, FS_AddElement
  <2>6. Recent(ip)' \subseteq R \cup {h}
    <3>1. ASSUME NEW k \in Recent(ip)', k # h PROVE k \in R
      <4>1. k \in Outstanding(ip)' /\ handlers'[k].since >= buckets'[ip].firstFailure
        BY <3>1 DEF Recent
      <4>2. k \in Outstanding(ip) /\ handlers[k].since >= buckets[ip].firstFailure
        BY <1>2, <1>5, <2>1, <3>1, <4>1
      <4> QED BY <2>4, <4>2 DEF Recent
    <3> QED BY <3>1
  <2>7. PICK n \in Nat : n = Cardinality(Recent(ip)') /\ n <= r + 1
    BY <2>5, <2>6, FS_Subset, FS_CardinalityType
  <2>8. \A k \in Outstanding(ip)' : handlers'[k].since <= buckets'[ip].firstFailure + Lockout
    BY <1>2, <1>4, <1>5, <2>2, <2>3
  <2>9. /\ m <= q + b.inFlight + 1 /\ b.failures + m <= q + MaxAttempts
        /\ n <= b.failures + b.inFlight + 1
    BY <1>1, <1>3, <2>2, <2>4, <2>7
  <2>10. ASSUME NEW j \in Nat PROVE Cardinality(Older(ip, j)') <= Quota(j)
    <3>1. h \notin Older(ip, j)'
      <4>1. b.firstFailure <= now BY <1>9, <2>1 DEF BucketInv
      <4> QED BY <1>1, <1>2, <1>4, <4>1 DEF Older
    <3>2. Older(ip, j)' \subseteq Older(ip, j) BY <1>2, <1>5, <2>1, <3>1 DEF Older
    <3>3. Older(ip, j) \subseteq Outstanding(ip) BY DEF Older
    <3> QED BY <2>2, <3>2, <3>3, WindowFacts, SmallerStays
  <2> QED BY <1>7, <2>7, <2>8, <2>9, <2>10
<1> QED BY <1>8, <1>9

---------------------------------------------------------------------------
(* What each operation does to the buckets                                 *)

(* One bucket changes: to none, or to one that counts from a time that has *)
(* come.                                                                   *)
OneMoves(new, ip) ==
  /\ new \in [Ips -> Bucket]
  /\ \A j \in Ips : j # ip => new[j] = buckets[j]
  /\ IF new[ip].held THEN new[ip].firstFailure <= now ELSE new[ip] = NoBucket

(* The address of a request is an address of the Map. *)
LEMMA EffectiveIps ==
  ASSUME NEW src \in Ips
  PROVE  Effective(src) \in Ips
  BY TrackerAssumption DEF TrackerAssumption, Effective

(* A refusal leaves the Map alone, or locks the bucket that runs. *)
LEMMA DeniedFields ==
  ASSUME TypeOK, BucketInv, NEW src \in Ips, LoginDenied(src)
  PROVE  /\ OneMoves(buckets', Effective(src))
         /\ UNCHANGED <<gate, now, handlers, trusted, steady, forgiven>>
         /\ \A j \in Ips : /\ buckets'[j].held = buckets[j].held
                           /\ buckets'[j].failures = buckets[j].failures
                           /\ buckets'[j].inFlight = buckets[j].inFlight
                           /\ buckets'[j].firstFailure = buckets[j].firstFailure
<1>1. PICK ip \in Ips : ip = Effective(src) BY EffectiveIps
<1>2. PICK b \in Bucket : b = ReserveBucket(ip) BY ReserveFields
<1>3. CASE UNCHANGED buckets
  BY <1>1, <1>3 DEF OneMoves, TypeOK, LoginDenied, BucketInv
<1>4. CASE /\ Counted(b) >= MaxAttempts
           /\ buckets' = [buckets EXCEPT ![ip] = [b EXCEPT !.lockedUntil = now + Lockout]]
  <2>1. b.failures = 0 /\ b.inFlight = 0 => FALSE
    BY <1>4, TrackerAssumption DEF TrackerAssumption, Counted
  <2>2. b = buckets[ip] /\ b.held BY <1>2, <2>1, ReserveFields
  <2>3. PICK l \in Nat : l = now + Lockout
    BY BucketTypes, TrackerAssumption DEF TrackerAssumption
  <2>4. /\ buckets' \in [Ips -> Bucket] /\ \A j \in Ips : j # ip => buckets'[j] = buckets[j]
        /\ buckets'[ip] = [b EXCEPT !.lockedUntil = l]
    BY <1>4, <2>3 DEF TypeOK, Bucket
  <2>5. /\ buckets'[ip].held = b.held /\ buckets'[ip].failures = b.failures
        /\ buckets'[ip].inFlight = b.inFlight /\ buckets'[ip].firstFailure = b.firstFailure
    BY <2>4 DEF Bucket
  <2> QED BY <1>1, <2>2, <2>4, <2>5 DEF OneMoves, BucketInv, LoginDenied
<1> QED BY <1>1, <1>2, <1>3, <1>4 DEF LoginDenied

(* A reservation adds one in flight to a bucket that has room for it. *)
LEMMA ReservedFields ==
  ASSUME TypeOK, BucketInv, NEW h \in Handlers, NEW src \in Ips, LoginReserve(h, src)
  PROVE  LET ip == Effective(src) b == ReserveBucket(ip) IN
         /\ OneMoves(buckets', ip)
         /\ UNCHANGED <<gate, now, trusted, steady, forgiven>>
         /\ b \in Bucket /\ Counted(b) < MaxAttempts
         /\ buckets'[ip] = [b EXCEPT !.inFlight = @ + 1]
         /\ buckets'[ip].inFlight = b.inFlight + 1
         /\ b.inFlight \in {0, buckets[ip].inFlight}
<1>1. PICK ip \in Ips : ip = Effective(src) BY EffectiveIps
<1>2. PICK b \in Bucket : b = ReserveBucket(ip) BY ReserveFields
<1>3. /\ Counted(b) < MaxAttempts
      /\ buckets' = [buckets EXCEPT ![ip] = [b EXCEPT !.inFlight = @ + 1]]
      /\ UNCHANGED <<gate, now, trusted, steady, forgiven>>
  BY <1>1, <1>2 DEF LoginReserve
<1>4. /\ buckets' \in [Ips -> Bucket] /\ \A j \in Ips : j # ip => buckets'[j] = buckets[j]
      /\ buckets'[ip] = [b EXCEPT !.inFlight = @ + 1]
  BY <1>3 DEF TypeOK, Bucket
<1>5. /\ buckets'[ip].held = b.held /\ buckets'[ip].firstFailure = b.firstFailure
      /\ buckets'[ip].inFlight = b.inFlight + 1
  BY <1>4 DEF Bucket
<1>6. b.held /\ b.firstFailure <= now /\ b.inFlight \in {0, buckets[ip].inFlight}
  BY <1>2, ReserveFields, BucketTypes DEF BucketInv
<1> QED BY <1>1, <1>2, <1>3, <1>4, <1>5, <1>6 DEF OneMoves

(* fail moves one bucket. *)
LEMMA FailedMoves ==
  ASSUME TypeOK, BucketInv, NEW ip \in Ips
  PROVE  OneMoves([buckets EXCEPT ![ip] = FailedBucket(ip)], ip)
<1>1. PICK f \in Bucket : f = FailedBucket(ip) /\ f.held /\ f.firstFailure <= now
  BY FailedFields, BucketTypes DEF BucketInv
<1> QED BY <1>1 DEF OneMoves, TypeOK

(* fail moves one bucket, and prune drops some whole; an address that lost *)
(* nothing has what fail made of it.                                       *)
LEMMA FailsFields ==
  ASSUME TypeOK, BucketInv, NEW h \in Handlers, LoginFails(h)
  PROVE  LET ip == handlers[h].remote IN
         /\ ip \in Ips /\ handlers[h].busy /\ Settle(h)
         /\ UNCHANGED <<gate, now, trusted, steady>>
         /\ buckets' \in [Ips -> Bucket]
         /\ forgiven \subseteq forgiven' /\ forgiven' \subseteq Ips
         /\ \A j \in Ips : IF buckets'[j].held THEN buckets'[j].firstFailure <= now
                           ELSE buckets'[j] = NoBucket
         /\ buckets'[ip] \in {FailedBucket(ip), NoBucket}
         /\ \A j \in Ips : j # ip => buckets'[j] \in {buckets[j], NoBucket}
         /\ \A j \in Ips \ forgiven' :
              buckets'[j] = IF j = ip THEN FailedBucket(ip) ELSE buckets[j]
<1>1. PICK ip \in Ips : ip = handlers[h].remote BY DEF TypeOK
<1>2. PICK map \in [Ips -> Bucket] : map = [buckets EXCEPT ![ip] = FailedBucket(ip)]
  BY FailedMoves DEF OneMoves
<1>3. /\ handlers[h].busy /\ Settle(h) /\ buckets' \in Pruned(map)
      /\ forgiven' = forgiven \cup {j \in Tracked(buckets) \cup {ip} : ~buckets'[j].held}
      /\ UNCHANGED <<gate, now, trusted, steady>>
  BY <1>1, <1>2 DEF LoginFails
<1>4. OneMoves(map, ip) BY <1>2, FailedMoves
<1>5. \A j \in Ips : IF map[j].held THEN map[j].firstFailure <= now ELSE map[j] = NoBucket
  BY <1>4 DEF OneMoves, BucketInv
<1>6. /\ buckets' \in [Ips -> Bucket] /\ \A j \in Ips : buckets'[j] \in {map[j], NoBucket}
  BY <1>3, PrunedFields
<1>7. \A j \in Ips : IF buckets'[j].held THEN buckets'[j].firstFailure <= now
                     ELSE buckets'[j] = NoBucket
  BY <1>5, <1>6 DEF NoBucket
<1>8. map[ip] = FailedBucket(ip) /\ \A j \in Ips : j # ip => map[j] = buckets[j]
  BY <1>2, FailedFields DEF TypeOK
<1>9. forgiven \subseteq forgiven' /\ forgiven' \subseteq Ips BY <1>3 DEF Tracked, TypeOK
<1>10. ASSUME NEW j \in Ips \ forgiven' PROVE buckets'[j] = map[j]
  <2>1. CASE buckets'[j].held BY <1>6, <2>1 DEF NoBucket
  <2>2. CASE ~buckets'[j].held
    <3>1. j \notin Tracked(buckets) /\ j # ip BY <1>3, <1>10, <2>2
    <3>2. buckets[j] = NoBucket BY <3>1 DEF Tracked, BucketInv
    <3> QED BY <1>7, <1>8, <2>2, <3>1, <3>2
  <2> QED BY <2>1, <2>2
<1> QED BY <1>1, <1>3, <1>6, <1>7, <1>8, <1>9, <1>10

---------------------------------------------------------------------------
(* The invariant is inductive: the login gate                              *)

(* A step that changes neither the clock nor the trust keeps what is in    *)
(* flight.                                                                 *)
LEMMA HandlersKept ==
  ASSUME TypeOK, HandlerInv, UNCHANGED <<now, trusted>>, steady' => steady,
         \A k \in Handlers :
           \/ handlers'[k] = handlers[k]
           \/ ~handlers'[k].busy
           \/ handlers'[k].since = now /\ handlers'[k].remote = Effective(handlers'[k].source)
  PROVE  HandlerInv'
<1>1. now \in Nat /\ MaxHold \in Nat
  BY TrackerAssumption DEF TrackerAssumption, TypeOK
<1> QED BY <1>1 DEF HandlerInv, Effective

(* So does one that moves one bucket keep the Map. *)
LEMMA BucketsKept ==
  ASSUME BucketInv, UNCHANGED now, NEW ip \in Ips, OneMoves(buckets', ip)
  PROVE  BucketInv'
  BY DEF BucketInv, OneMoves

(* A request the tracker refuses keeps the invariant.                      *)
LEMMA DeniedKeeps ==
  ASSUME TrackerInv, gate = "login", NEW src \in Ips, LoginDenied(src)
  PROVE  TrackerInv'
<1>1. PICK ip \in Ips : ip = Effective(src) BY EffectiveIps
<1>2. /\ OneMoves(buckets', ip) /\ UNCHANGED <<gate, now, handlers, trusted, steady, forgiven>>
      /\ \A j \in Ips : buckets'[j].inFlight = buckets[j].inFlight
  BY <1>1, DeniedFields DEF TrackerInv
<1>3. TypeOK' BY <1>2 DEF TrackerInv, TypeOK, OneMoves, LoginDenied
<1>4. HandlerInv' BY <1>2, HandlersKept DEF TrackerInv
<1>5. BucketInv' BY <1>2, BucketsKept DEF TrackerInv
<1>6. UpgradeInv' BY <1>2 DEF UpgradeInv
<1>7. NoLeakedReservation' BY <1>2 DEF TrackerInv, NoLeakedReservation, Outstanding
<1> QED BY <1>3, <1>4, <1>5, <1>6, <1>7 DEF TrackerInv

(* A request that takes a reservation keeps the invariant.                 *)
LEMMA ReserveKeeps ==
  ASSUME TrackerInv, gate = "login", NEW h \in Handlers, NEW src \in Ips, LoginReserve(h, src)
  PROVE  TrackerInv'
<1>1. PICK ip \in Ips : ip = Effective(src) BY EffectiveIps
<1>2. PICK b \in Bucket : b = ReserveBucket(ip) BY ReserveFields DEF TrackerInv
<1>3. /\ OneMoves(buckets', ip) /\ UNCHANGED <<gate, now, trusted, steady, forgiven>>
      /\ buckets'[ip].inFlight = b.inFlight + 1 /\ b.inFlight \in {0, buckets[ip].inFlight}
  BY <1>1, <1>2, ReservedFields DEF TrackerInv
<1>4. /\ ~handlers[h].busy /\ lifted' = FALSE
      /\ handlers' = [handlers EXCEPT ![h] =
           [busy |-> TRUE, source |-> src, remote |-> ip, since |-> now]]
  BY <1>1 DEF LoginReserve
<1>5. /\ handlers' \in [Handlers -> [busy : BOOLEAN, source : Ips, remote : Ips, since : Nat]]
      /\ \A k \in Handlers : k # h => handlers'[k] = handlers[k]
      /\ handlers'[h].source = src /\ handlers'[h].remote = ip /\ handlers'[h].since = now
      /\ \A j \in Ips : j # ip => Outstanding(j)' = Outstanding(j)
      /\ Cardinality(Outstanding(ip)') = Cardinality(Outstanding(ip)) + 1
  BY <1>4, JoinSets DEF TrackerInv
<1>6. TypeOK' BY <1>3, <1>4, <1>5 DEF TrackerInv, TypeOK, OneMoves
<1>7. HandlerInv' BY <1>1, <1>3, <1>5, HandlersKept DEF TrackerInv
<1>8. BucketInv' BY <1>3, BucketsKept DEF TrackerInv
<1>9. UpgradeInv' BY <1>3 DEF UpgradeInv
<1>10. NoLeakedReservation'
  <2>1. ASSUME steady PROVE buckets'[ip].inFlight <= Cardinality(Outstanding(ip)')
    <3>1. buckets[ip].inFlight <= Cardinality(Outstanding(ip))
      BY <2>1 DEF TrackerInv, NoLeakedReservation
    <3>2. Cardinality(Outstanding(ip)) \in Nat /\ buckets[ip].inFlight \in Nat
      BY FlightFinite DEF TrackerInv, TypeOK, Bucket
    <3>3. b.inFlight + 1 <= Cardinality(Outstanding(ip)) + 1 BY <1>3, <3>1, <3>2
    <3> QED BY <1>3, <1>5, <3>3
  <2>2. ASSUME steady, NEW j \in Ips, j # ip
        PROVE  buckets'[j].inFlight <= Cardinality(Outstanding(j)')
    <3>1. buckets'[j] = buckets[j] /\ Outstanding(j)' = Outstanding(j)
      BY <1>3, <1>5, <2>2 DEF OneMoves
    <3>2. buckets[j].inFlight <= Cardinality(Outstanding(j))
      BY <2>2 DEF TrackerInv, NoLeakedReservation
    <3> QED BY <3>1, <3>2
  <2> QED BY <1>3, <2>1, <2>2 DEF NoLeakedReservation
<1> QED BY <1>6, <1>7, <1>8, <1>9, <1>10 DEF TrackerInv

(* A request that settles at the address it counts against gives back its  *)
(* reservation.                                                            *)
LEMMA SettleLeaksNothing ==
  ASSUME TrackerInv, NEW h \in Handlers, handlers[h].busy, Settle(h), NEW ip \in Ips,
         steady' => /\ steady /\ ip = handlers[h].remote
                    /\ \A j \in Ips : j # ip => buckets'[j] \in {buckets[j], NoBucket}
                    /\ buckets'[ip] \in {FailedBucket(ip), NoBucket}
  PROVE  NoLeakedReservation'
<1> SUFFICES ASSUME steady', NEW j \in Ips
             PROVE  buckets'[j].inFlight <= Cardinality(Outstanding(j)')
  BY DEF NoLeakedReservation
<1>1. /\ steady /\ ip = handlers[h].remote
      /\ \A k \in Ips : k # ip => buckets'[k] \in {buckets[k], NoBucket}
      /\ buckets'[ip] \in {FailedBucket(ip), NoBucket}
  OBVIOUS
<1>2. buckets[j].inFlight <= Cardinality(Outstanding(j))
  BY <1>1 DEF TrackerInv, NoLeakedReservation
<1>3. CASE j # ip
  <2>1. buckets'[j] \in {buckets[j], NoBucket} /\ Outstanding(j)' = Outstanding(j)
    BY <1>1, <1>3, SettleSets DEF TrackerInv
  <2>2. NoBucket.inFlight = 0 /\ Cardinality(Outstanding(j)) \in Nat
    BY FlightFinite DEF NoBucket
  <2> QED BY <1>2, <2>1, <2>2
<1>4. CASE j = ip
  <2>1. PICK n \in Nat : n = Cardinality(Outstanding(j)) BY FlightFinite
  <2>2. Cardinality(Outstanding(j)') \in Nat /\ Cardinality(Outstanding(j)') + 1 = n
    BY <1>1, <1>4, <2>1, SettleSets DEF TrackerInv
  <2>3. PICK i \in Nat : i = buckets[ip].inFlight BY DEF TrackerInv, TypeOK, Bucket
  <2>4. FailedBucket(ip).inFlight \in {0, IF i > 0 THEN i - 1 ELSE 0}
    BY <2>3, FailedFields DEF TrackerInv
  <2>5. NoBucket.inFlight = 0 BY DEF NoBucket
  <2> QED BY <1>1, <1>2, <1>4, <2>1, <2>2, <2>3, <2>4, <2>5
<1> QED BY <1>3, <1>4

(* A request that ends keeps the invariant if its bucket gives the         *)
(* reservation back.                                                       *)
LEMMA SettleKeeps ==
  ASSUME TrackerInv, gate = "login", NEW h \in Handlers, handlers[h].busy, Settle(h),
         UNCHANGED <<gate, now, trusted>>, steady' => steady, steady' \in BOOLEAN,
         lifted' \in BOOLEAN, forgiven' \subseteq Ips, buckets' \in [Ips -> Bucket],
         BucketInv', NoLeakedReservation'
  PROVE  TrackerInv'
<1>1. /\ handlers' \in [Handlers -> [busy : BOOLEAN, source : Ips, remote : Ips, since : Nat]]
      /\ \A k \in Handlers : handlers'[k] = IF k = h THEN NoRequest ELSE handlers[k]
  BY SettleSets DEF TrackerInv
<1>2. TypeOK' BY <1>1 DEF TrackerInv, TypeOK
<1>3. HandlerInv' BY <1>1, HandlersKept DEF TrackerInv, NoRequest
<1>4. UpgradeInv' BY DEF UpgradeInv
<1> QED BY <1>2, <1>3, <1>4 DEF TrackerInv

(* A wrong token or code keeps the invariant.                              *)
LEMMA LoginFailsKeeps ==
  ASSUME TrackerInv, gate = "login", NEW h \in Handlers, LoginFails(h)
  PROVE  TrackerInv'
<1>1. PICK ip \in Ips : ip = handlers[h].remote BY DEF TrackerInv, TypeOK
<1>2. /\ handlers[h].busy /\ Settle(h) /\ UNCHANGED <<gate, now, trusted, steady>>
      /\ buckets' \in [Ips -> Bucket] /\ forgiven' \subseteq Ips
      /\ \A j \in Ips : IF buckets'[j].held THEN buckets'[j].firstFailure <= now
                        ELSE buckets'[j] = NoBucket
      /\ buckets'[ip] \in {FailedBucket(ip), NoBucket}
      /\ \A j \in Ips : j # ip => buckets'[j] \in {buckets[j], NoBucket}
  BY <1>1, FailsFields DEF TrackerInv
<1>3. BucketInv' BY <1>2 DEF BucketInv
<1>4. NoLeakedReservation' BY <1>1, <1>2, SettleLeaksNothing
<1>5. steady' \in BOOLEAN /\ lifted' \in BOOLEAN /\ forgiven' \subseteq Ips
  BY <1>2 DEF LoginFails, TrackerInv, TypeOK
<1> QED BY <1>2, <1>3, <1>4, <1>5, SettleKeeps

(* A login that succeeds, and so clears its bucket, keeps the invariant.   *)
LEMMA LoginSucceedsKeeps ==
  ASSUME TrackerInv, gate = "login", NEW h \in Handlers, LoginSucceeds(h)
  PROVE  TrackerInv'
<1>1. PICK ip \in Ips : ip = handlers[h].remote BY DEF TrackerInv, TypeOK
<1>2. /\ handlers[h].busy /\ Settle(h) /\ UNCHANGED <<gate, now, trusted, steady>>
      /\ buckets' = [buckets EXCEPT ![ip] = NoBucket]
      /\ forgiven' = forgiven \cup {ip} /\ lifted' = TRUE
  BY <1>1 DEF LoginSucceeds
<1>3. OneMoves(buckets', ip) /\ buckets'[ip] = NoBucket
  BY <1>2, BucketTypes DEF OneMoves, TrackerInv, TypeOK, NoBucket
<1>4. BucketInv' BY <1>2, <1>3, BucketsKept DEF TrackerInv
<1>5. NoLeakedReservation' BY <1>1, <1>2, <1>3, SettleLeaksNothing DEF OneMoves
<1>6. steady' \in BOOLEAN /\ lifted' \in BOOLEAN /\ forgiven' \subseteq Ips
  BY <1>2 DEF TrackerInv, TypeOK
<1> QED BY <1>2, <1>3, <1>4, <1>5, <1>6, SettleKeeps DEF OneMoves

(* The aborted request is charged where it is now: unless the trust        *)
(* changed, that is where it reserved.                                     *)
LEMMA LoginAbortsKeeps ==
  ASSUME TrackerInv, gate = "login", NEW h \in Handlers, LoginAborts(h)
  PROVE  TrackerInv'
<1>1. PICK ip \in Ips : ip = AbortAddress(h)
  BY EffectiveIps DEF AbortAddress, TrackerInv, TypeOK
<1>2. /\ handlers[h].busy /\ Settle(h) /\ UNCHANGED <<gate, now, trusted, steady, forgiven>>
      /\ buckets' = [buckets EXCEPT ![ip] = FailedBucket(ip)] /\ lifted' = FALSE
  BY <1>1 DEF LoginAborts
<1>3. OneMoves(buckets', ip) /\ buckets'[ip] = FailedBucket(ip)
  BY <1>2, FailedMoves DEF TrackerInv, TypeOK
<1>4. BucketInv' BY <1>2, <1>3, BucketsKept DEF TrackerInv
<1>5. steady => ip = handlers[h].remote
  BY <1>1, <1>2 DEF TrackerInv, HandlerInv, AbortAddress
<1>6. NoLeakedReservation' BY <1>2, <1>3, <1>5, SettleLeaksNothing DEF OneMoves
<1>7. steady' \in BOOLEAN /\ lifted' \in BOOLEAN /\ forgiven' \subseteq Ips
  BY <1>2 DEF TrackerInv, TypeOK
<1> QED BY <1>2, <1>3, <1>4, <1>6, <1>7, SettleKeeps DEF OneMoves

---------------------------------------------------------------------------
(* The invariant is inductive: the clock, the trust and the upgrade gate   *)

(* Time passing keeps the invariant.                                       *)
LEMMA TickKeeps ==
  ASSUME TrackerInv, Tick
  PROVE  TrackerInv'
<1>1. /\ now < MaxTime /\ now' = now + 1 /\ lifted' = FALSE
      /\ \A h \in Handlers : handlers[h].busy => now < handlers[h].since + MaxHold
      /\ UNCHANGED <<gate, buckets, handlers, trusted, steady, forgiven>>
  BY DEF Tick
<1>2. now \in Nat /\ MaxTime \in Nat /\ MaxHold \in Nat
  BY TrackerAssumption DEF TrackerAssumption, TrackerInv, TypeOK
<1>3. TypeOK'
  <2>1. now' \in 0..MaxTime BY <1>1, <1>2
  <2> QED BY <1>1, <2>1 DEF TrackerInv, TypeOK
<1>4. HandlerInv' BY <1>1, <1>2 DEF TrackerInv, TypeOK, HandlerInv, Effective
<1>5. BucketInv' BY <1>1, <1>2 DEF TrackerInv, TypeOK, BucketInv, Bucket
<1>6. UpgradeInv' BY <1>1 DEF TrackerInv, UpgradeInv, Tracked
<1>7. NoLeakedReservation' BY <1>1 DEF TrackerInv, NoLeakedReservation, Outstanding
<1> QED BY <1>3, <1>4, <1>5, <1>6, <1>7 DEF TrackerInv

(* The tunnel coming or going changes addresses, and keeps the invariant.  *)
LEMMA TrustKeeps ==
  ASSUME TrackerInv, TrustChanges
  PROVE  TrackerInv'
<1>1. /\ trusted' = ~trusted /\ steady' = FALSE /\ lifted' = FALSE
      /\ UNCHANGED <<gate, now, buckets, handlers, forgiven>>
  BY DEF TrustChanges
<1>2. TypeOK' BY <1>1 DEF TrackerInv, TypeOK
<1>3. HandlerInv' BY <1>1 DEF TrackerInv, HandlerInv
<1>4. BucketInv' BY <1>1 DEF TrackerInv, BucketInv
<1>5. UpgradeInv' BY <1>1 DEF TrackerInv, UpgradeInv, Tracked
<1>6. NoLeakedReservation' BY <1>1 DEF NoLeakedReservation
<1> QED BY <1>2, <1>3, <1>4, <1>5, <1>6 DEF TrackerInv

(* Where nothing is reserved, nothing leaks. *)
LEMMA NothingReserved ==
  ASSUME UpgradeInv', gate' = "upgrade"
  PROVE  NoLeakedReservation'
<1>1. ASSUME NEW ip \in Ips PROVE Cardinality(Outstanding(ip)') \in Nat
  <2>1. Outstanding(ip)' \subseteq Handlers BY DEF Outstanding
  <2> QED
    BY <2>1, FS_Subset, FS_CardinalityType, TrackerAssumption DEF TrackerAssumption
<1>2. \A ip \in Ips : buckets'[ip].inFlight = 0 BY DEF UpgradeInv
<1> QED BY <1>1, <1>2 DEF NoLeakedReservation

(* What check drops, and what it leaves to fail: a bucket without a lock.  *)
LEMMA CheckedFields ==
  ASSUME TypeOK, BucketInv, NEW ip \in Ips
  PROVE  /\ CheckedBuckets(ip) \in [Ips -> Bucket]
         /\ \A j \in Ips : j # ip => CheckedBuckets(ip)[j] = buckets[j]
         /\ \A j \in Ips : CheckedBuckets(ip)[j] \in {buckets[j], NoBucket}
         /\ CheckedBuckets(ip)[ip].held =>
              /\ CheckedBuckets(ip)[ip] = buckets[ip] /\ buckets[ip].held
              /\ buckets[ip].lockedUntil = 0
         /\ Tracked(CheckedBuckets(ip)) \subseteq Tracked(buckets)
<1>1. CASE buckets[ip].held /\ buckets[ip].lockedUntil # 0
  <2>1. CheckedBuckets(ip) = [buckets EXCEPT ![ip] = NoBucket] BY <1>1 DEF CheckedBuckets
  <2> QED BY <2>1, BucketTypes DEF TypeOK, NoBucket, Tracked
<1>2. CASE ~(buckets[ip].held /\ buckets[ip].lockedUntil # 0)
  <2>1. CheckedBuckets(ip) = buckets BY <1>2 DEF CheckedBuckets
  <2> QED BY <1>2, <2>1 DEF TypeOK
<1> QED BY <1>1, <1>2

(* The Map that prune sees after a failed upgrade *)
LEMMA UpgradeFailedMap ==
  ASSUME TrackerInv, gate = "upgrade", NEW src \in Ips, NEW ip \in Ips, ip = Effective(src),
         UpgradeFails(src)
  PROVE  \E map \in [Ips -> Bucket] :
           /\ buckets' \in Pruned(map)
           /\ \A j \in Ips : j # ip => map[j] = buckets[j]
           /\ map[ip].held /\ map[ip].firstFailure <= now
           /\ map[ip].inFlight = 0 /\ map[ip].failures <= 2 * MaxAttempts
           /\ map[ip].lockedUntil = 0 => map[ip].failures \in 0..MaxAttempts - 1 \cup {1}
           /\ ~buckets[ip].held => map[ip].firstFailure = now /\ map[ip].lockedUntil = 0
<1> USE TrackerAssumption DEF TrackerAssumption
<1>1. PICK after \in [Ips -> Bucket] :
        /\ after = CheckedBuckets(ip) /\ \A j \in Ips : j # ip => after[j] = buckets[j]
        /\ after[ip].held => buckets[ip].held /\ buckets[ip].lockedUntil = 0
  BY CheckedFields DEF TrackerInv
<1>2. now \in Nat /\ FreshBucket \in Bucket BY BucketTypes DEF TrackerInv
<1>3. PICK first \in Bucket : first = [FreshBucket EXCEPT !.failures = 1]
  BY <1>2 DEF Bucket
<1>4. first.held /\ first.firstFailure = now /\ first.inFlight = 0 /\ first.failures = 1
      /\ first.lockedUntil = 0
  BY <1>3 DEF FreshBucket, NoBucket
<1>5. PICK f \in Bucket : f = IF after[ip].held THEN FailedBucket(ip) ELSE first
  BY FailedFields DEF TrackerInv
<1>6. PICK map \in [Ips -> Bucket] : map = [after EXCEPT ![ip] = f] OBVIOUS
<1>7. buckets' \in Pruned(map) BY <1>1, <1>3, <1>5, <1>6 DEF UpgradeFails
<1>8. /\ f.held /\ f.firstFailure <= now /\ f.inFlight = 0 /\ f.failures <= 2 * MaxAttempts
      /\ f.lockedUntil = 0 => f.failures \in 0..MaxAttempts - 1 \cup {1}
      /\ ~buckets[ip].held => f.firstFailure = now /\ f.lockedUntil = 0
  <2>1. CASE ~after[ip].held BY <1>2, <1>4, <1>5, <2>1
  <2>2. CASE after[ip].held
    <3>1. PICK b \in Bucket : b = buckets[ip] BY DEF TrackerInv, TypeOK
    <3>2. b.held /\ b.lockedUntil = 0 /\ b.inFlight = 0 /\ b.firstFailure <= now
          /\ b.failures \in 0..MaxAttempts - 1 \cup {1}
      BY <1>1, <2>2, <3>1 DEF TrackerInv, UpgradeInv, BucketInv
    <3>3. \/ f.failures = 1 /\ f.inFlight = 0 /\ f.firstFailure = now /\ f.lockedUntil = 0
          \/ /\ f.failures = b.failures + 1 /\ f.firstFailure = b.firstFailure
             /\ f.inFlight = 0
             /\ f.lockedUntil = IF b.failures + 1 >= MaxAttempts THEN now + Lockout ELSE 0
      BY <1>5, <2>2, <3>1, <3>2, FailedFields DEF TrackerInv
    <3>4. f.held BY <1>5, <2>2, FailedFields DEF TrackerInv
    <3>5. b.failures \in Nat /\ b.failures + 1 <= 2 * MaxAttempts BY <3>2
    <3> QED BY <1>2, <3>1, <3>2, <3>3, <3>4, <3>5
  <2> QED BY <2>1, <2>2
<1> QED BY <1>1, <1>6, <1>7, <1>8

(* One failing address is one bucket more than the cap allows at most, and *)
(* prune takes it or another back.                                         *)
LEMMA PruneCaps ==
  ASSUME TrackerInv, gate = "upgrade", NEW ip \in Ips, NEW map \in [Ips -> Bucket],
         \A j \in Ips : j # ip => map[j] = buckets[j], NEW new \in Pruned(map)
  PROVE  /\ Cardinality(Tracked(map)) <= MaxTracked + 1
         /\ Tracked(new) \subseteq Tracked(map)
         /\ Cardinality(Tracked(new)) <= MaxTracked
<1>1. PICK T \in SUBSET Ips, t \in Nat :
        T = Tracked(buckets) /\ t = Cardinality(T) /\ IsFiniteSet(T) /\ t <= MaxTracked
  BY TrackedFinite DEF Tracked, TrackerInv, UpgradeInv
<1>2. Tracked(map) \subseteq T \cup {ip} BY <1>1 DEF Tracked
<1>3. Cardinality(T \cup {ip}) \in Nat /\ Cardinality(T \cup {ip}) <= t + 1
      /\ IsFiniteSet(T \cup {ip})
  BY <1>1, FS_AddElement
<1>4. PICK M \in SUBSET Ips, m \in Nat :
        M = Tracked(map) /\ m = Cardinality(M) /\ IsFiniteSet(M)
  BY TrackedFinite DEF Tracked
<1>5. m <= Cardinality(T \cup {ip}) BY <1>2, <1>3, <1>4, FS_Subset
<1>6. m <= MaxTracked + 1
  BY <1>1, <1>3, <1>5, TrackerAssumption DEF TrackerAssumption
<1>7. Tracked(new) \subseteq Tracked(map)
  <2>1. \A j \in Ips : new[j] \in {map[j], NoBucket} BY PrunedFields DEF TrackerInv
  <2>2. ~NoBucket.held BY DEF NoBucket
  <2> QED BY <2>1, <2>2 DEF Tracked
<1>8. Cardinality(Tracked(new)) <= MaxTracked
  <2>1. CASE new = map /\ Cardinality(Tracked(map)) <= MaxTracked BY <2>1
  <2>2. CASE new = Swept(map) /\ Cardinality(Tracked(Swept(map))) <= MaxTracked BY <2>2
  <2>3. ASSUME NEW j \in Tracked(Swept(map)), new = [Swept(map) EXCEPT ![j] = NoBucket]
        PROVE  Cardinality(Tracked(new)) <= MaxTracked
    <3>1. Tracked(Swept(map)) \subseteq M BY <1>4 DEF Tracked, Swept, NoBucket
    <3>2. Tracked(new) \subseteq M \ {j} BY <2>3, <3>1 DEF Tracked, Swept, NoBucket
    <3>3. Cardinality(M \ {j}) = m - 1 /\ IsFiniteSet(M \ {j})
      BY <1>4, <2>3, <3>1, FS_RemoveElement
    <3>4. Cardinality(Tracked(new)) <= Cardinality(M \ {j})
          /\ Cardinality(Tracked(new)) \in Nat
      BY <3>2, <3>3, FS_Subset, TrackedFinite
    <3> QED BY <1>6, <3>3, <3>4, TrackerAssumption DEF TrackerAssumption
  <2> QED BY <2>1, <2>2, <2>3, PrunedFields DEF TrackerInv
<1> QED BY <1>4, <1>6, <1>7, <1>8

(* An upgrade without a session keeps the invariant, also when it evicts a *)
(* bucket.                                                                 *)
LEMMA UpgradeFailsKeeps ==
  ASSUME TrackerInv, gate = "upgrade", NEW src \in Ips, UpgradeFails(src)
  PROVE  TrackerInv'
<1>1. PICK ip \in Ips : ip = Effective(src) BY EffectiveIps
<1>2. PICK map \in [Ips -> Bucket] :
        /\ buckets' \in Pruned(map)
        /\ \A j \in Ips : j # ip => map[j] = buckets[j]
        /\ map[ip].held /\ map[ip].firstFailure <= now
        /\ map[ip].inFlight = 0 /\ map[ip].failures <= 2 * MaxAttempts
        /\ map[ip].lockedUntil = 0 => map[ip].failures \in 0..MaxAttempts - 1 \cup {1}
  BY <1>1, UpgradeFailedMap
<1>3. lifted' = FALSE /\ UNCHANGED <<gate, now, handlers, trusted, steady, forgiven>>
  BY DEF UpgradeFails, TrackerInv, TypeOK
<1>4. buckets' \in [Ips -> Bucket] /\ \A j \in Ips : buckets'[j] \in {map[j], NoBucket}
  BY <1>2, PrunedFields DEF TrackerInv
<1>5. TypeOK' BY <1>3, <1>4 DEF TrackerInv, TypeOK
<1>6. HandlerInv' BY <1>3, HandlersKept DEF TrackerInv
<1>7. BucketInv'
  <2>1. \A j \in Ips : IF map[j].held THEN map[j].firstFailure <= now ELSE map[j] = NoBucket
    BY <1>2 DEF TrackerInv, BucketInv
  <2>2. ~NoBucket.held BY DEF NoBucket
  <2> QED BY <1>3, <1>4, <2>1, <2>2 DEF BucketInv
<1>8. UpgradeInv'
  <2>1. \A j \in Ips :
          /\ map[j].inFlight = 0 /\ map[j].failures <= 2 * MaxAttempts
          /\ map[j].lockedUntil = 0 => map[j].failures \in 0..MaxAttempts - 1 \cup {1}
    BY <1>2 DEF TrackerInv, UpgradeInv
  <2>2. /\ NoBucket.inFlight = 0 /\ NoBucket.failures <= 2 * MaxAttempts
        /\ NoBucket.failures \in 0..MaxAttempts - 1 \cup {1}
    BY TrackerAssumption DEF TrackerAssumption, NoBucket
  <2>3. \A j \in Ips :
          /\ buckets'[j].inFlight = 0 /\ buckets'[j].failures <= 2 * MaxAttempts
          /\ buckets'[j].lockedUntil = 0 =>
               buckets'[j].failures \in 0..MaxAttempts - 1 \cup {1}
    BY <1>4, <2>1, <2>2
  <2>4. Cardinality(Tracked(buckets')) <= MaxTracked BY <1>2, PruneCaps
  <2> QED BY <2>3, <2>4 DEF UpgradeInv, Tracked
<1>9. NoLeakedReservation' BY <1>3, <1>8, NothingReserved
<1> QED BY <1>5, <1>6, <1>7, <1>8, <1>9 DEF TrackerInv

(* Removing buckets, whatever the requests in flight do, keeps the upgrade *)
(* gate's Map.                                                             *)
LEMMA UpgradeDrops ==
  ASSUME TrackerInv, gate = "upgrade", UNCHANGED <<gate, now, trusted, steady>>,
         buckets' \in [Ips -> Bucket], \A j \in Ips : buckets'[j] \in {buckets[j], NoBucket},
         handlers' \in [Handlers -> [busy : BOOLEAN, source : Ips, remote : Ips, since : Nat]],
         \A k \in Handlers :
           \/ handlers'[k] = handlers[k]
           \/ ~handlers'[k].busy
           \/ handlers'[k].since = now /\ handlers'[k].remote = Effective(handlers'[k].source),
         forgiven' \subseteq Ips, lifted' \in BOOLEAN
  PROVE  TrackerInv'
<1>1. TypeOK' BY DEF TrackerInv, TypeOK
<1>2. HandlerInv' BY HandlersKept DEF TrackerInv
<1>3. BucketInv' BY DEF TrackerInv, BucketInv, NoBucket
<1>4. UpgradeInv'
  <2>1. /\ NoBucket.inFlight = 0 /\ NoBucket.failures <= 2 * MaxAttempts
        /\ NoBucket.failures \in 0..MaxAttempts - 1 \cup {1} /\ ~NoBucket.held
    BY TrackerAssumption DEF TrackerAssumption, NoBucket
  <2>2. \A j \in Ips :
          /\ buckets[j].inFlight = 0 /\ buckets[j].failures <= 2 * MaxAttempts
          /\ buckets[j].lockedUntil = 0 => buckets[j].failures \in 0..MaxAttempts - 1 \cup {1}
    BY DEF TrackerInv, UpgradeInv
  <2>3. \A j \in Ips :
          /\ buckets'[j].inFlight = 0 /\ buckets'[j].failures <= 2 * MaxAttempts
          /\ buckets'[j].lockedUntil = 0 =>
               buckets'[j].failures \in 0..MaxAttempts - 1 \cup {1}
    BY <2>1, <2>2
  <2>4. Tracked(buckets') \subseteq Tracked(buckets) BY <2>1 DEF Tracked
  <2>5. /\ Cardinality(Tracked(buckets')) <= Cardinality(Tracked(buckets))
        /\ Cardinality(Tracked(buckets')) \in Nat /\ Cardinality(Tracked(buckets)) \in Nat
    BY <2>4, TrackedFinite, FS_Subset
  <2>6. Cardinality(Tracked(buckets)) <= MaxTracked BY DEF TrackerInv, UpgradeInv
  <2>7. Cardinality(Tracked(buckets')) <= MaxTracked
    BY <2>5, <2>6, TrackerAssumption DEF TrackerAssumption
  <2> QED BY <2>3, <2>7 DEF UpgradeInv, Tracked
<1>5. NoLeakedReservation' BY <1>4, NothingReserved
<1> QED BY <1>1, <1>2, <1>3, <1>4, <1>5 DEF TrackerInv

(* Every step of the upgrade gate keeps the invariant.                     *)
LEMMA UpgradeGateKeeps ==
  ASSUME TrackerInv, UpgradeGate
  PROVE  TrackerInv'
<1>1. gate = "upgrade" BY DEF UpgradeGate
<1>2. ASSUME NEW src \in Ips, UpgradeDenied(src) PROVE TrackerInv'
  BY <1>1, <1>2, UpgradeDrops DEF UpgradeDenied, TrackerInv, TypeOK
<1>3. ASSUME NEW src \in Ips, UpgradeFails(src) PROVE TrackerInv'
  BY <1>1, <1>3, UpgradeFailsKeeps
<1>4. ASSUME NEW h \in Handlers, NEW src \in Ips, UpgradeForwarded(h, src) PROVE TrackerInv'
  <2>1. PICK ip \in Ips : ip = Effective(src) BY EffectiveIps
  <2>2. /\ ~handlers[h].busy /\ buckets' = CheckedBuckets(ip) /\ lifted' = FALSE
        /\ handlers' = [handlers EXCEPT ![h] =
             [busy |-> TRUE, source |-> src, remote |-> ip, since |-> now]]
        /\ UNCHANGED <<gate, now, trusted, steady, forgiven>>
    BY <1>4, <2>1 DEF UpgradeForwarded
  <2>3. /\ handlers' \in [Handlers -> [busy : BOOLEAN, source : Ips, remote : Ips, since : Nat]]
        /\ \A k \in Handlers : k # h => handlers'[k] = handlers[k]
        /\ handlers'[h].source = src /\ handlers'[h].remote = ip /\ handlers'[h].since = now
    BY <2>2, JoinSets DEF TrackerInv
  <2>4. buckets' \in [Ips -> Bucket] /\ \A j \in Ips : buckets'[j] \in {buckets[j], NoBucket}
    BY <2>2, CheckedFields DEF TrackerInv
  <2>5. forgiven' \subseteq Ips BY <2>2 DEF TrackerInv, TypeOK
  <2> QED BY <1>1, <2>1, <2>2, <2>3, <2>4, <2>5, UpgradeDrops
<1>5. ASSUME NEW h \in Handlers, UpgradeOpens(h) PROVE TrackerInv'
  <2>1. PICK ip \in Ips : ip = handlers[h].remote BY DEF TrackerInv, TypeOK
  <2>2. /\ handlers[h].busy /\ Settle(h) /\ buckets' = [buckets EXCEPT ![ip] = NoBucket]
        /\ lifted' = TRUE /\ UNCHANGED <<gate, now, trusted, steady, forgiven>>
    BY <1>5, <2>1 DEF UpgradeOpens
  <2>3. /\ handlers' \in [Handlers -> [busy : BOOLEAN, source : Ips, remote : Ips, since : Nat]]
        /\ \A k \in Handlers : handlers'[k] = handlers[k] \/ ~handlers'[k].busy
    BY <2>2, SettleSets DEF TrackerInv, NoRequest
  <2>4. buckets' \in [Ips -> Bucket] /\ \A j \in Ips : buckets'[j] \in {buckets[j], NoBucket}
    BY <2>2, BucketTypes DEF TrackerInv, TypeOK
  <2>5. forgiven' \subseteq Ips BY <2>2 DEF TrackerInv, TypeOK
  <2> QED BY <1>1, <2>2, <2>3, <2>4, <2>5, UpgradeDrops
<1>6. ASSUME NEW h \in Handlers, UpgradeEnds(h) PROVE TrackerInv'
  <2>1. /\ handlers[h].busy /\ Settle(h) /\ lifted' = FALSE
        /\ UNCHANGED <<gate, now, buckets, trusted, steady, forgiven>>
    BY <1>6 DEF UpgradeEnds
  <2>2. /\ handlers' \in [Handlers -> [busy : BOOLEAN, source : Ips, remote : Ips, since : Nat]]
        /\ \A k \in Handlers : handlers'[k] = handlers[k] \/ ~handlers'[k].busy
    BY <2>1, SettleSets DEF TrackerInv, NoRequest
  <2> QED BY <1>1, <2>1, <2>2, UpgradeDrops DEF TrackerInv, TypeOK
<1> QED BY <1>2, <1>3, <1>4, <1>5, <1>6 DEF UpgradeGate

(* Every step of the login gate keeps the invariant.                       *)
LEMMA LoginGateKeeps ==
  ASSUME TrackerInv, LoginGate
  PROVE  TrackerInv'
<1> QED
  BY DeniedKeeps, ReserveKeeps, LoginFailsKeeps, LoginSucceedsKeeps, LoginAbortsKeeps
     DEF LoginGate

(* The invariant holds in an empty tracker.                                *)
LEMMA TrackerInit ==
  ASSUME Init
  PROVE  TrackerInv
<1> USE TrackerAssumption DEF TrackerAssumption
<1>1. TypeOK
  <2>1. NoBucket \in Bucket BY DEF Bucket, NoBucket
  <2>2. NoRequest \in [busy : BOOLEAN, source : Ips, remote : Ips, since : Nat]
    BY DEF NoRequest
  <2>3. now \in 0..MaxTime BY DEF Init
  <2>4. steady \in BOOLEAN /\ lifted \in BOOLEAN /\ trusted \in BOOLEAN BY DEF Init
  <2> QED BY <2>1, <2>2, <2>3, <2>4 DEF Init, TypeOK
<1>2. HandlerInv BY DEF Init, HandlerInv, NoRequest
<1>3. BucketInv BY DEF Init, BucketInv, NoBucket
<1>4. UpgradeInv
  <2>1. Tracked(buckets) = {} BY DEF Init, Tracked, NoBucket
  <2>2. Cardinality(Tracked(buckets)) = 0 BY <2>1, FS_EmptySet
  <2> QED BY <2>2 DEF UpgradeInv, Init, NoBucket
<1>5. NoLeakedReservation
  BY FlightFinite DEF NoLeakedReservation, Init, NoBucket
<1> QED BY <1>1, <1>2, <1>3, <1>4, <1>5 DEF TrackerInv

(* What both gates keep in every state: requests in flight are recent, the *)
(* buckets of the Map began in the past, the upgrade gate stays within its *)
(* cap, and no reservation outlives its request (src/proxy.ts:110-243).    *)
THEOREM TrackerInvariant == Spec => []TrackerInv
<1>1. Init => TrackerInv BY TrackerInit
<1>2. TrackerInv /\ [Next]_vars => TrackerInv'
  <2>1. ASSUME TrackerInv, Next PROVE TrackerInv'
    BY <2>1, TickKeeps, TrustKeeps, LoginGateKeeps, UpgradeGateKeeps DEF Next
  <2>2. ASSUME TrackerInv, UNCHANGED vars PROVE TrackerInv'
    BY <2>2 DEF vars, TrackerInv, TypeOK, HandlerInv, BucketInv, UpgradeInv,
      NoLeakedReservation, Outstanding, Effective, Tracked
  <2> QED BY <2>1, <2>2
<1> QED BY <1>1, <1>2, PTL DEF Spec

---------------------------------------------------------------------------
(* The bound on guesses is inductive                                       *)

(* A step that leaves an address alone leaves its bound alone. *)
LEMMA BoundedSame ==
  ASSUME NEW j \in Ips, Bounded(j), Outstanding(j)' = Outstanding(j),
         \A k \in Outstanding(j) : handlers'[k] = handlers[k],
         buckets'[j].held = buckets[j].held, buckets'[j].failures = buckets[j].failures,
         buckets'[j].inFlight = buckets[j].inFlight,
         buckets'[j].firstFailure = buckets[j].firstFailure
  PROVE  Bounded(j)'
<1>1. Recent(j)' = Recent(j) /\ \A i : Older(j, i)' = Older(j, i) BY DEF Recent, Older
<1> QED BY <1>1 DEF Bounded

(* A request that settles at its own address, counted as failed or erased  *)
(* with the success that proves the address, keeps the bound of all.       *)
LEMMA SettleGuesses ==
  ASSUME TrackerInv, GuessInv, gate = "login",
         NEW h \in Handlers, handlers[h].busy, Settle(h), NEW ip \in Ips, UNCHANGED now,
         forgiven \subseteq forgiven',
         steady' => /\ steady /\ ip = handlers[h].remote
                    /\ \A j \in Ips \ forgiven' :
                         buckets'[j] = IF j = ip THEN FailedBucket(ip) ELSE buckets[j]
  PROVE  GuessInv'
<1> SUFFICES ASSUME steady', NEW j \in Ips, j \notin forgiven'
             PROVE  Bounded(j)'
  BY DEF GuessInv
<1>1. /\ ip = handlers[h].remote
      /\ buckets'[j] = IF j = ip THEN FailedBucket(ip) ELSE buckets[j]
  OBVIOUS
<1>2. Bounded(j) BY DEF GuessInv
<1>3. CASE j = ip BY <1>1, <1>2, <1>3, FailBounded DEF TrackerInv
<1>4. CASE j # ip
  <2>1. buckets'[j] = buckets[j] BY <1>1, <1>4
  <2>2. Outstanding(j)' = Outstanding(j) BY <1>1, <1>4, SettleSets DEF TrackerInv
  <2>3. \A k \in Outstanding(j) : handlers'[k] = handlers[k]
    BY <1>1, <1>4, SettleSets DEF TrackerInv, Outstanding
  <2> QED BY <1>2, <2>1, <2>2, <2>3, BoundedSame
<1> QED BY <1>3, <1>4

(* Every step of the login gate keeps the bound on the guesses of an       *)
(* address.                                                                *)
LEMMA LoginGateGuesses ==
  ASSUME TrackerInv, GuessInv, LoginGate
  PROVE  GuessInv'
<1>1. gate = "login" BY DEF LoginGate
<1>2. ASSUME NEW src \in Ips, LoginDenied(src) PROVE GuessInv'
  <2>1. /\ UNCHANGED <<gate, handlers, steady, forgiven>>
        /\ \A j \in Ips : /\ buckets'[j].held = buckets[j].held
                          /\ buckets'[j].failures = buckets[j].failures
                          /\ buckets'[j].inFlight = buckets[j].inFlight
                          /\ buckets'[j].firstFailure = buckets[j].firstFailure
    BY <1>2, DeniedFields DEF TrackerInv
  <2>2. \A j \in Ips : Outstanding(j)' = Outstanding(j) BY <2>1 DEF Outstanding
  <2>3. ASSUME NEW j \in Ips, Bounded(j) PROVE Bounded(j)'
    BY <2>1, <2>2, <2>3, BoundedSame
  <2> QED BY <2>1, <2>3 DEF GuessInv
<1>3. ASSUME NEW h \in Handlers, NEW src \in Ips, LoginReserve(h, src) PROVE GuessInv'
  <2>1. PICK ip \in Ips : ip = Effective(src) BY EffectiveIps
  <2>2. PICK b \in Bucket : b = ReserveBucket(ip) BY ReserveFields DEF TrackerInv
  <2>3. /\ OneMoves(buckets', ip) /\ UNCHANGED <<gate, now, trusted, steady, forgiven>>
        /\ Counted(b) < MaxAttempts /\ buckets'[ip] = [b EXCEPT !.inFlight = @ + 1]
    BY <1>3, <2>1, <2>2, ReservedFields DEF TrackerInv
  <2>4. /\ ~handlers[h].busy
        /\ handlers' = [handlers EXCEPT ![h] =
             [busy |-> TRUE, source |-> src, remote |-> ip, since |-> now]]
    BY <1>3, <2>1 DEF LoginReserve
  <2>5. /\ \A k \in Handlers : k # h => handlers'[k] = handlers[k]
        /\ \A j \in Ips : j # ip => Outstanding(j)' = Outstanding(j)
    BY <2>4, JoinSets DEF TrackerInv
  <2>6. ASSUME Bounded(ip) PROVE Bounded(ip)'
    BY <2>2, <2>3, <2>4, <2>6, ReserveBounded DEF TrackerInv
  <2>7. ASSUME NEW j \in Ips, j # ip, Bounded(j) PROVE Bounded(j)'
    <3>1. buckets'[j] = buckets[j] BY <2>3, <2>7 DEF OneMoves
    <3>2. \A k \in Outstanding(j) : handlers'[k] = handlers[k]
      BY <2>4, <2>5 DEF Outstanding
    <3> QED BY <2>5, <2>7, <3>1, <3>2, BoundedSame
  <2> QED BY <2>3, <2>6, <2>7 DEF GuessInv
<1>4. ASSUME NEW h \in Handlers, LoginFails(h) PROVE GuessInv'
  <2>1. PICK ip \in Ips : ip = handlers[h].remote BY DEF TrackerInv, TypeOK
  <2>2. /\ handlers[h].busy /\ Settle(h) /\ UNCHANGED <<now, steady>>
        /\ forgiven \subseteq forgiven'
        /\ \A j \in Ips \ forgiven' :
             buckets'[j] = IF j = ip THEN FailedBucket(ip) ELSE buckets[j]
    BY <1>4, <2>1, FailsFields DEF TrackerInv
  <2>9. steady' => /\ steady /\ ip = handlers[h].remote
                   /\ \A j \in Ips \ forgiven' :
                        buckets'[j] = IF j = ip THEN FailedBucket(ip) ELSE buckets[j]
    BY <2>1, <2>2
  <2> QED BY <1>1, <2>1, <2>2, <2>9, SettleGuesses
<1>5. ASSUME NEW h \in Handlers, LoginSucceeds(h) PROVE GuessInv'
  <2>1. PICK ip \in Ips : ip = handlers[h].remote BY DEF TrackerInv, TypeOK
  <2>2. /\ handlers[h].busy /\ Settle(h) /\ UNCHANGED <<now, steady>>
        /\ buckets' = [buckets EXCEPT ![ip] = NoBucket] /\ forgiven' = forgiven \cup {ip}
    BY <1>5, <2>1 DEF LoginSucceeds
  <2>3. OneMoves(buckets', ip)
    BY <2>2, BucketTypes DEF OneMoves, TrackerInv, TypeOK, NoBucket
  <2>9. steady' => /\ steady /\ ip = handlers[h].remote
                   /\ \A j \in Ips \ forgiven' :
                        buckets'[j] = IF j = ip THEN FailedBucket(ip) ELSE buckets[j]
    BY <2>1, <2>2, <2>3 DEF OneMoves
  <2> QED BY <1>1, <2>2, <2>9, SettleGuesses
<1>6. ASSUME NEW h \in Handlers, LoginAborts(h) PROVE GuessInv'
  <2>1. PICK ip \in Ips : ip = AbortAddress(h)
    BY EffectiveIps DEF AbortAddress, TrackerInv, TypeOK
  <2>2. /\ handlers[h].busy /\ Settle(h) /\ UNCHANGED <<now, steady, forgiven>>
        /\ buckets' = [buckets EXCEPT ![ip] = FailedBucket(ip)]
    BY <1>6, <2>1 DEF LoginAborts
  <2>3. OneMoves(buckets', ip) /\ buckets'[ip] = FailedBucket(ip)
    BY <2>2, FailedMoves DEF TrackerInv, TypeOK
  <2>4. steady => ip = handlers[h].remote
    BY <2>1, <2>2 DEF TrackerInv, HandlerInv, AbortAddress
  <2>9. steady' => /\ steady /\ ip = handlers[h].remote
                   /\ \A j \in Ips \ forgiven' :
                        buckets'[j] = IF j = ip THEN FailedBucket(ip) ELSE buckets[j]
    BY <2>2, <2>3, <2>4 DEF OneMoves
  <2> QED BY <1>1, <2>2, <2>9, SettleGuesses
<1> QED BY <1>2, <1>3, <1>4, <1>5, <1>6 DEF LoginGate

(* Every step keeps that bound.                                            *)
LEMMA GuessStep ==
  ASSUME TrackerInv, GuessInv, [Next]_vars
  PROVE  GuessInv'
<1>1. ASSUME UNCHANGED <<gate, buckets, handlers, steady, forgiven>> PROVE GuessInv'
  <2>1. \A j \in Ips : Outstanding(j)' = Outstanding(j) BY <1>1 DEF Outstanding
  <2>2. ASSUME NEW j \in Ips, Bounded(j) PROVE Bounded(j)'
    BY <1>1, <2>1, <2>2, BoundedSame
  <2> QED BY <1>1, <2>2 DEF GuessInv
<1>2. CASE Tick BY <1>1, <1>2 DEF Tick
<1>3. CASE TrustChanges BY <1>3 DEF TrustChanges, GuessInv
<1>4. CASE LoginGate BY <1>4, LoginGateGuesses
<1>5. CASE UpgradeGate
  <2>1. gate' # "login"
    BY <1>5 DEF UpgradeGate, UpgradeDenied, UpgradeFails, UpgradeForwarded, UpgradeOpens,
      UpgradeEnds
  <2> QED BY <2>1 DEF GuessInv
<1>6. CASE UNCHANGED vars BY <1>1, <1>6 DEF vars
<1> QED BY <1>2, <1>3, <1>4, <1>5, <1>6 DEF Next

---------------------------------------------------------------------------
(* Theorems                                                                *)

(* As long as trust does not change, no reservation outlives its request:  *)
(* whatever prune, a new window or a success drops in between, an address  *)
(* without requests in flight is refused for its failures only (reserve,   *)
(* fail and success, src/proxy.ts:202-229, and the ends of handleLogin).   *)
THEOREM NoLeakedReservationHolds == Spec => []NoLeakedReservation
<1>1. TrackerInv => NoLeakedReservation BY DEF TrackerInv
<1> QED BY <1>1, TrackerInvariant, PTL

(* Whatever the time a request may last, an address whose bucket was never *)
(* dropped has no more failures counted than the attempts of one window    *)
(* and of each earlier one a request may outlast, as long as trust does    *)
(* not change ("This bounds total guessing capacity per source address",   *)
(* reserve and fail, src/proxy.ts:174-229).                                *)
THEOREM GuessesBoundedHolds == Spec => []GuessesBounded
<1>1. Init => GuessInv
  <2>1. ASSUME Init, NEW ip \in Ips PROVE Bounded(ip)
    <3>1. ~buckets[ip].held /\ Outstanding(ip) = {}
      BY <2>1 DEF Init, NoBucket, NoRequest, Outstanding
    <3> QED BY <3>1 DEF Bounded
  <2> QED BY <2>1 DEF GuessInv
<1>2. TrackerInv /\ GuessInv /\ [Next]_vars => GuessInv' BY GuessStep
<1>3. TrackerInv /\ GuessInv => GuessesBounded
  <2>1. ASSUME TrackerInv, GuessInv, steady, NEW ip \in Ips \ forgiven
        PROVE  buckets[ip].failures <= (1 + Windows) * MaxAttempts
    <3> USE TrackerAssumption DEF TrackerAssumption
    <3>1. PICK w \in Nat : Windows = w + 1 BY WindowFacts
    <3>2. PICK q \in Nat : q = Quota(w) /\ Quota(Windows) = q + MaxAttempts
      BY <3>1, WindowFacts
    <3>3. (1 + Windows) * MaxAttempts = q + 2 * MaxAttempts
      <4>1. Quota(Windows + 1) = q + MaxAttempts + MaxAttempts BY <3>2, WindowFacts
      <4>2. Quota(Windows + 1) = (1 + Windows) * MaxAttempts BY WindowFacts DEF Quota
      <4> QED BY <4>1, <4>2
    <3>4. buckets[ip].failures \in Nat BY <2>1 DEF TrackerInv, TypeOK, Bucket
    <3>5. buckets[ip].failures <= q + 2 * MaxAttempts
      <4>1. CASE gate = "upgrade"
        <5>1. buckets[ip].failures <= 2 * MaxAttempts
          BY <2>1, <4>1 DEF TrackerInv, UpgradeInv
        <5> QED BY <3>4, <5>1
      <4>2. CASE gate = "login" /\ ~buckets[ip].held
        <5>1. buckets[ip].failures = 0
          BY <2>1, <4>2 DEF TrackerInv, BucketInv, NoBucket
        <5> QED BY <5>1
      <4>3. CASE gate = "login" /\ buckets[ip].held
        <5>1. buckets[ip].failures + Cardinality(Outstanding(ip))
                <= Quota(Windows) + MaxAttempts
          BY <2>1, <4>3 DEF GuessInv, Bounded
        <5>2. Cardinality(Outstanding(ip)) \in Nat BY FlightFinite
        <5> QED BY <3>2, <3>4, <5>1, <5>2
      <4> QED BY <2>1, <4>1, <4>2, <4>3 DEF TrackerInv, TypeOK
    <3> QED BY <3>3, <3>5
  <2> QED BY <2>1 DEF GuessesBounded
<1> QED BY <1>1, <1>2, <1>3, TrackerInvariant, PTL DEF Spec

(* An address whose bucket is expired goes with the sweep, and the sweep   *)
(* alone then meets the cap: prune evicts a running lock only for a bucket *)
(* that stays.                                                             *)
LEMMA UpgradeFailsKeepsLocks ==
  ASSUME TrackerInv, gate = "upgrade", NEW src \in Ips, UpgradeFails(src),
         NEW ip \in Ips, Locked(buckets[ip]), Tracked(buckets)' \subseteq Tracked(buckets)
  PROVE  buckets'[ip] = buckets[ip]
<1> USE TrackerAssumption DEF TrackerAssumption
<1>1. PICK at \in Ips : at = Effective(src) BY EffectiveIps
<1>2. PICK map \in [Ips -> Bucket] :
        /\ buckets' \in Pruned(map)
        /\ \A j \in Ips : j # at => map[j] = buckets[j]
        /\ map[at].held
        /\ ~buckets[at].held => map[at].firstFailure = now /\ map[at].lockedUntil = 0
  BY <1>1, UpgradeFailedMap
<1>3. ip # at BY <1>1 DEF UpgradeFails, CheckLocks
<1>4. map[ip] = buckets[ip] /\ map[ip].held BY <1>2, <1>3 DEF Locked
<1>5. CASE Cardinality(Tracked(map)) <= MaxTracked
  BY <1>2, <1>4, <1>5, PrunedFields DEF TrackerInv
<1>6. CASE ~(Cardinality(Tracked(map)) <= MaxTracked)
  <2>1. ~buckets[at].held
    <3>1. ASSUME buckets[at].held PROVE FALSE
      <4>1. Tracked(map) \subseteq Tracked(buckets) BY <1>2, <3>1 DEF Tracked
      <4>2. /\ Cardinality(Tracked(map)) <= Cardinality(Tracked(buckets))
            /\ Cardinality(Tracked(map)) \in Nat /\ Cardinality(Tracked(buckets)) \in Nat
        BY <4>1, TrackedFinite, FS_Subset
      <4> QED BY <1>6, <4>2 DEF TrackerInv, UpgradeInv
    <3> QED BY <3>1
  <2>2. at \notin Expired(map)
    BY <1>2, <2>1, BucketTypes DEF Expired, Stale, TrackerInv
  <2>3. Swept(map)[at] = map[at] /\ at \in Tracked(Swept(map))
    BY <1>2, <2>2 DEF Swept, Tracked
  <2>4. ~buckets'[at].held BY <2>1 DEF Tracked
  <2>5. PICK gone \in Tracked(Swept(map)) :
          /\ buckets' = [Swept(map) EXCEPT ![gone] = NoBucket]
          /\ ~(Cardinality(Tracked(Swept(map))) <= MaxTracked)
    <3>1. buckets' # Swept(map) BY <1>2, <2>3, <2>4
    <3> QED BY <1>2, <1>6, <3>1, PrunedFields DEF TrackerInv
  <2>6. gone = at
    BY <1>2, <2>3, <2>4, <2>5 DEF Swept
  <2>7. ip \notin Expired(map)
    <3>1. ASSUME ip \in Expired(map) PROVE FALSE
      <4>1. PICK M \in SUBSET Ips, m \in Nat :
              /\ M = Tracked(map) /\ m = Cardinality(M) /\ IsFiniteSet(M)
              /\ m <= MaxTracked + 1 /\ ip \in M
        <5>1. Cardinality(Tracked(map)) <= MaxTracked + 1 BY <1>2, PruneCaps
        <5> QED BY <1>4, <5>1, TrackedFinite DEF Tracked
      <4>2. Tracked(Swept(map)) \subseteq M \ {ip}
        BY <3>1, <4>1 DEF Tracked, Swept, NoBucket
      <4>3. Cardinality(M \ {ip}) = m - 1 /\ IsFiniteSet(M \ {ip})
        BY <4>1, FS_RemoveElement
      <4>4. /\ Cardinality(Tracked(Swept(map))) <= Cardinality(M \ {ip})
            /\ Cardinality(Tracked(Swept(map))) \in Nat
        BY <4>2, <4>3, FS_Subset, TrackedFinite
      <4> QED BY <2>5, <4>1, <4>3, <4>4
    <3> QED BY <3>1
  <2> QED BY <1>3, <1>4, <2>5, <2>6, <2>7 DEF Swept
<1> QED BY <1>5, <1>6

(* "WebSocket upgrade rate limiting: repeated failed upgrades are locked   *)
(* out": a lock of the upgrade gate stays until its end, unless a success  *)
(* of the address lifts it or a new address takes its place under the cap  *)
(* (createUpgradeLimiter, src/proxy.ts:193-243).                           *)
THEOREM UpgradeLockKeptHolds == Spec => UpgradeLockKept
<1>1. ASSUME TrackerInv, gate = "upgrade", [Next]_vars, NEW ip \in Ips,
             Locked(buckets[ip]), ~lifted', Tracked(buckets)' \subseteq Tracked(buckets)
      PROVE  buckets'[ip] = buckets[ip]
  <2>1. CASE Tick BY <2>1 DEF Tick
  <2>2. CASE TrustChanges BY <2>2 DEF TrustChanges
  <2>3. CASE UNCHANGED vars BY <2>3 DEF vars
  <2>4. CASE LoginGate BY <1>1, <2>4 DEF LoginGate
  <2>5. ASSUME NEW src \in Ips, UpgradeDenied(src) PROVE buckets'[ip] = buckets[ip]
    BY <2>5 DEF UpgradeDenied
  <2>6. ASSUME NEW src \in Ips, UpgradeFails(src) PROVE buckets'[ip] = buckets[ip]
    BY <1>1, <2>6, UpgradeFailsKeepsLocks
  <2>7. ASSUME NEW h \in Handlers, NEW src \in Ips, UpgradeForwarded(h, src)
        PROVE  buckets'[ip] = buckets[ip]
    <3>1. PICK at \in Ips : at = Effective(src) BY EffectiveIps
    <3>2. ip # at BY <1>1, <2>7, <3>1 DEF UpgradeForwarded, CheckLocks
    <3> QED BY <1>1, <2>7, <3>1, <3>2, CheckedFields DEF UpgradeForwarded, TrackerInv
  <2>8. ASSUME NEW h \in Handlers, UpgradeOpens(h) PROVE buckets'[ip] = buckets[ip]
    BY <1>1, <2>8 DEF UpgradeOpens
  <2>9. ASSUME NEW h \in Handlers, UpgradeEnds(h) PROVE buckets'[ip] = buckets[ip]
    BY <2>9 DEF UpgradeEnds
  <2> QED
    BY <1>1, <2>1, <2>2, <2>3, <2>4, <2>5, <2>6, <2>7, <2>8, <2>9 DEF Next, UpgradeGate
<1>2. TrackerInv /\ [Next]_vars => [gate = "upgrade" => LockKept]_vars
  <2>1. ASSUME TrackerInv, gate = "upgrade", [Next]_vars PROVE LockKept
    <3>1. ASSUME NEW ip \in Ips, Locked(buckets[ip]), ~lifted',
                 Tracked(buckets)' \subseteq Tracked(buckets)
          PROVE  buckets'[ip].held /\ buckets'[ip].lockedUntil >= buckets[ip].lockedUntil
      <4>1. buckets'[ip] = buckets[ip] BY <1>1, <2>1, <3>1
      <4>2. buckets[ip].lockedUntil \in Nat BY <2>1 DEF TrackerInv, TypeOK, Bucket
      <4> QED BY <3>1, <4>1, <4>2 DEF Locked
    <3> QED BY <3>1 DEF LockKept
  <2> QED BY <2>1
<1> QED BY <1>2, TrackerInvariant, PTL DEF Spec, UpgradeLockKept
=============================================================================
