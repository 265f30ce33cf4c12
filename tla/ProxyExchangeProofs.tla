------------------------ MODULE ProxyExchangeProofs ------------------------
(***************************************************************************)
(* Theorems about ProxyExchange, for any number of devices, connections,   *)
(* assets and captures.                                                    *)
(***************************************************************************)
EXTENDS ProxyExchange, FiniteSetTheorems, TLAPS

(* The connections whose exchange holds a capture *)
Holders == {c \in Conns : exchange[c].capture = "held"}

(* What the proof reads of the two records of a connection is there. *)
Shape ==
  /\ DOMAIN conns = Conns /\ DOMAIN exchange = Conns
  /\ \A c \in Conns : /\ "phase" \in DOMAIN conns[c]
                      /\ {"answered", "capture", "body", "timer"} \subseteq DOMAIN exchange[c]

(* A held capture belongs to an exchange that is not over and, unless it   *)
(* was destroyed, was answered: so nobody takes its connection for another *)
(* exchange, and no second answer takes a second capture.                  *)
HolderInv ==
  \A c \in Holders : conns[c].phase # "free" /\ (Live(c) => exchange[c].answered)

CaptureInv == Shape /\ HolderInv /\ CapturesCounted

---------------------------------------------------------------------------
(* Counting *)

(* One capture more or less. *)
LEMMA HoldersCount ==
  ASSUME NEW c \in Conns
  PROVE  /\ IsFiniteSet(Holders) /\ Cardinality(Holders) \in Nat
         /\ c \notin Holders => Cardinality(Holders \cup {c}) = Cardinality(Holders) + 1
         /\ c \in Holders => Cardinality(Holders \ {c}) = Cardinality(Holders) - 1
<1>1. IsFiniteSet(Holders)
  <2>1. IsFiniteSet(Conns) BY ConnectionsAssumption DEF ConnectionsAssumption
  <2>2. Holders \subseteq Conns BY DEF Holders
  <2> QED BY <2>1, <2>2, FS_Subset
<1>2. Cardinality(Holders) \in Nat BY <1>1, FS_CardinalityType
<1>3. c \notin Holders => Cardinality(Holders \cup {c}) = Cardinality(Holders) + 1
  BY <1>1, FS_AddElement
<1>4. c \in Holders => Cardinality(Holders \ {c}) = Cardinality(Holders) - 1
  BY <1>1, FS_RemoveElement
<1> QED BY <1>1, <1>2, <1>3, <1>4

(* When a connection's exchange is over its capture, if it held one, is    *)
(* given back once.                                                        *)
LEMMA OverCounts ==
  ASSUME CaptureInv, NEW c \in Conns, Over(c),
         conns' = [conns EXCEPT ![c] = NoConn]
  PROVE  CaptureInv'
<1>1. Shape' BY DEF CaptureInv, Shape, Over, NoConn, NoExchange
<1>2. Holders' = Holders \ {c}
  BY DEF CaptureInv, Shape, Over, NoExchange, Holders
<1>3. HolderInv' BY <1>2 DEF CaptureInv, Shape, HolderInv, Over, NoExchange, Holders, Live
<1>4. CapturesCounted'
  <2>1. captures' = IF c \in Holders THEN captures - 1 ELSE captures
    <3>1. captures \in Nat BY HoldersCount DEF CaptureInv, CapturesCounted, Holders
    <3> QED BY <3>1 DEF Over, Released, Holders
  <2>2. captures' = Cardinality(Holders')
    BY <1>2, <2>1, HoldersCount DEF CaptureInv, CapturesCounted, Holders
  <2> QED BY <2>2 DEF CapturesCounted, Holders
<1> QED BY <1>1, <1>3, <1>4 DEF CaptureInv

(* Connections that are destroyed, by whomever, keep their captures until  *)
(* their close event.                                                      *)
LEMMA DestroyedKeep ==
  ASSUME CaptureInv, Shape', UNCHANGED captures, exchange' = Remains,
         \A c \in Conns : conns'[c].phase \in {conns[c].phase, "closing"}
  PROVE  CaptureInv'
<1>1. ASSUME NEW c \in Conns
      PROVE  /\ exchange'[c].capture = exchange[c].capture
             /\ conns'[c].phase = "live" => exchange'[c] = exchange[c]
  BY DEF Remains, NoExchange
<1>2. Holders' = Holders BY <1>1 DEF Holders
<1>3. HolderInv' BY <1>1, <1>2 DEF CaptureInv, HolderInv, Holders, Live
<1>4. CapturesCounted' BY <1>2 DEF CaptureInv, CapturesCounted, Holders
<1> QED BY <1>3, <1>4 DEF CaptureInv

(* The shape of an exchange that is what is left of a destroyed one *)
LEMMA RemainsShape ==
  ASSUME Shape, exchange' = Remains, DOMAIN conns' = Conns,
         \A c \in Conns : "phase" \in DOMAIN conns'[c]
  PROVE  Shape'
<1>1. DOMAIN exchange' = Conns BY DEF Remains
<1>2. ASSUME NEW c \in Conns
      PROVE  {"answered", "capture", "body", "timer"} \subseteq DOMAIN exchange'[c]
  BY DEF Shape, Remains, NoExchange
<1> QED BY <1>1, <1>2 DEF Shape

---------------------------------------------------------------------------
(* The steps that touch one connection *)

(* A request begins on a connection that is free. *)
LEMMA RequestBegins ==
  ASSUME CaptureInv, NEW c \in Conns, NEW d \in Devices, Accept(c, d), UNCHANGED captures,
         NEW x, exchange' = [exchange EXCEPT ![c] = x], x.capture = "none",
         {"answered", "capture", "body", "timer"} \subseteq DOMAIN x
  PROVE  CaptureInv'
<1>1. Shape' BY DEF CaptureInv, Shape, Accept
<1>2. c \notin Holders BY DEF CaptureInv, HolderInv, Accept, Holders
<1>3. Holders' = Holders BY <1>2 DEF CaptureInv, Shape, Holders
<1>4. HolderInv' BY <1>2, <1>3 DEF CaptureInv, Shape, HolderInv, Accept, Holders, Live
<1>5. CapturesCounted' BY <1>3 DEF CaptureInv, CapturesCounted, Holders
<1> QED BY <1>1, <1>4, <1>5 DEF CaptureInv

(* The headers of an answer take a capture if one is to be had. *)
LEMMA HeadersCount ==
  ASSUME CaptureInv, NEW c \in Conns, Headers(c) PROVE CaptureInv'
<1>1. c \notin Holders BY DEF CaptureInv, HolderInv, Headers
<1>2. UNCHANGED conns BY DEF Headers, vars
<1>3. CASE /\ captures' = captures + 1
           /\ \E freshness \in Freshness :
                exchange' = [exchange EXCEPT ![c] =
                  [@ EXCEPT !.answered = TRUE, !.capture = "held",
                            !.freshness = freshness, !.receivedAt = clock]]
  <2>1. Shape' BY <1>2, <1>3 DEF CaptureInv, Shape
  <2>2. exchange'[c].capture = "held" /\ exchange'[c].answered
    BY <1>3 DEF CaptureInv, Shape
  <2>3. \A k \in Conns \ {c} : exchange'[k] = exchange[k] BY <1>3 DEF CaptureInv, Shape
  <2>4. Holders' = Holders \cup {c} BY <2>2, <2>3 DEF Holders
  <2>5. HolderInv'
    BY <1>2, <2>2, <2>3, <2>4 DEF CaptureInv, HolderInv, Headers, Live, Holders
  <2>6. captures' = Cardinality(Holders')
    BY <1>1, <1>3, <2>4, HoldersCount DEF CaptureInv, CapturesCounted, Holders
  <2> QED BY <2>1, <2>5, <2>6 DEF CaptureInv, CapturesCounted, Holders
<1>4. CASE /\ UNCHANGED captures
           /\ exchange' = [exchange EXCEPT ![c] = [Answered EXCEPT !.body = exchange[c].body]]
  <2>1. Shape' BY <1>2, <1>4 DEF CaptureInv, Shape, Answered, NoExchange
  <2>2. exchange'[c].capture = "none"
    BY <1>4 DEF CaptureInv, Shape, Answered, NoExchange
  <2>3. \A k \in Conns \ {c} : exchange'[k] = exchange[k] BY <1>4 DEF CaptureInv, Shape
  <2>4. Holders' = Holders BY <1>1, <2>2, <2>3 DEF Holders
  <2>5. HolderInv' BY <1>1, <1>2, <2>3, <2>4 DEF CaptureInv, HolderInv, Live, Holders
  <2> QED BY <1>4, <2>1, <2>4, <2>5 DEF CaptureInv, CapturesCounted, Holders
<1> QED BY <1>3, <1>4 DEF Headers

(* A capture that grows too large is given back while its exchange goes on. *)
LEMMA ChunkCounts ==
  ASSUME CaptureInv, NEW c \in Conns, Chunk(c) PROVE CaptureInv'
<1>1. c \in Holders BY DEF Chunk, Holders
<1>2. UNCHANGED conns BY DEF Chunk, vars
<1>3. CASE /\ exchange' = [exchange EXCEPT ![c].size = @ + 1]
           /\ UNCHANGED captures
  <2>1. Shape' BY <1>2, <1>3 DEF CaptureInv, Shape
  <2>2. \A k \in Conns : /\ exchange'[k].capture = exchange[k].capture
                         /\ exchange'[k].answered = exchange[k].answered
    BY <1>3 DEF CaptureInv, Shape
  <2>3. Holders' = Holders BY <2>2 DEF Holders
  <2>4. HolderInv' BY <1>2, <2>2, <2>3 DEF CaptureInv, HolderInv, Live, Holders
  <2> QED BY <1>3, <2>1, <2>3, <2>4 DEF CaptureInv, CapturesCounted, Holders
<1>4. CASE /\ exchange' = [exchange EXCEPT ![c] = Dropped]
           /\ captures' = captures - 1
  <2>1. Shape' BY <1>2, <1>4 DEF CaptureInv, Shape, Dropped, Answered, NoExchange
  <2>2. exchange'[c].capture = "dropped"
    BY <1>4 DEF CaptureInv, Shape, Dropped, Answered, NoExchange
  <2>3. \A k \in Conns \ {c} : exchange'[k] = exchange[k] BY <1>4 DEF CaptureInv, Shape
  <2>4. Holders' = Holders \ {c} BY <2>2, <2>3 DEF Holders
  <2>5. HolderInv' BY <1>2, <2>3, <2>4 DEF CaptureInv, HolderInv, Live, Holders
  <2>6. captures' = Cardinality(Holders')
    BY <1>1, <1>4, <2>4, HoldersCount DEF CaptureInv, CapturesCounted, Holders
  <2> QED BY <2>1, <2>5, <2>6 DEF CaptureInv, CapturesCounted, Holders
<1> QED BY <1>3, <1>4 DEF Chunk

(* The request's body ends. *)
LEMMA BodyKeeps ==
  ASSUME CaptureInv, NEW c \in Conns, BodyEnds(c) PROVE CaptureInv'
<1>1. UNCHANGED <<conns, captures>> BY DEF BodyEnds, vars
<1>2. Shape' BY <1>1 DEF CaptureInv, Shape, BodyEnds
<1>3. \A k \in Conns : /\ exchange'[k].capture = exchange[k].capture
                       /\ exchange'[k].answered = exchange[k].answered
  BY DEF CaptureInv, Shape, BodyEnds
<1>4. Holders' = Holders BY <1>3 DEF Holders
<1>5. HolderInv' BY <1>1, <1>3, <1>4 DEF CaptureInv, HolderInv, Live, Holders
<1> QED BY <1>1, <1>2, <1>4, <1>5 DEF CaptureInv, CapturesCounted, Holders

(* A peer is lost: a failed stream gives its capture back at once, a lost  *)
(* client with the close event.                                            *)
LEMMA LostCounts ==
  ASSUME CaptureInv, NEW c \in Conns, Lost(c) PROVE CaptureInv'
<1>1. conns' = [conns EXCEPT ![c].phase = "closing"] BY DEF Lost, Breaks
<1>2. /\ DOMAIN conns' = Conns
      /\ \A k \in Conns : /\ "phase" \in DOMAIN conns'[k]
                          /\ conns'[k].phase \in {conns[k].phase, "closing"}
      /\ conns'[c].phase = "closing"
  BY <1>1 DEF CaptureInv, Shape
<1>3. CASE exchange' = Remains /\ UNCHANGED captures
  BY <1>2, <1>3, RemainsShape, DestroyedKeep DEF CaptureInv
<1>4. CASE /\ exchange[c].capture = "held"
           /\ captures' = captures - 1
           /\ exchange' = [Remains EXCEPT ![c].capture = "dropped"]
  <2>1. /\ Remains[c] = [NoExchange EXCEPT !.capture = exchange[c].capture]
        /\ exchange'[c].capture = "dropped"
        /\ {"answered", "capture", "body", "timer"} \subseteq DOMAIN exchange'[c]
    BY <1>2, <1>4 DEF Remains, NoExchange
  <2>2. ASSUME NEW k \in Conns \ {c}
        PROVE  /\ exchange'[k] = Remains[k]
               /\ exchange'[k].capture = exchange[k].capture
               /\ conns'[k].phase = "live" => exchange'[k] = exchange[k]
               /\ {"answered", "capture", "body", "timer"} \subseteq DOMAIN exchange'[k]
    BY <1>4 DEF Remains, NoExchange, CaptureInv, Shape
  <2>3. Shape' BY <1>2, <1>4, <2>1, <2>2 DEF Shape, Remains
  <2>4. c \in Holders /\ Holders' = Holders \ {c} BY <1>4, <2>1, <2>2 DEF Holders
  <2>5. HolderInv' BY <1>2, <2>2, <2>4 DEF CaptureInv, HolderInv, Live, Holders
  <2>6. captures' = Cardinality(Holders')
    BY <1>4, <2>4, HoldersCount DEF CaptureInv, CapturesCounted, Holders
  <2> QED BY <2>3, <2>5, <2>6 DEF CaptureInv, CapturesCounted, Holders
<1> QED BY <1>3, <1>4 DEF Lost

(* Nothing happens to connections, exchanges and the counter. *)
LEMMA StutterKeeps ==
  ASSUME CaptureInv, UNCHANGED <<conns, exchange, captures>> PROVE CaptureInv'
  BY DEF CaptureInv, Shape, HolderInv, CapturesCounted, Holders, Live

---------------------------------------------------------------------------
(* The steps of the listener and of the devices destroy connections, and   *)
(* free none.                                                              *)
LEMMA Destroys ==
  ASSUME CaptureInv, Unexchanged,
         \/ ExpiryTimer \/ Close \/ RevokeSaved \/ RevokeFails
         \/ \E d \in Devices : Logout(d) \/ Expire(d) \/ Reissue(d) \/ RevokeBegin(d)
  PROVE  CaptureInv'
<1> DEFINE Keeps(k) == /\ "phase" \in DOMAIN conns'[k]
                       /\ conns'[k].phase \in {conns[k].phase, "closing"}
<1>1. ASSUME NEW map, NEW D, NEW k \in Conns, "phase" \in DOMAIN map[k],
             map[k].phase \in {conns[k].phase, "closing"}
      PROVE  /\ "phase" \in DOMAIN DestroyedOf(map, D)[k]
             /\ DestroyedOf(map, D)[k].phase \in {conns[k].phase, "closing"}
  BY <1>1 DEF DestroyedOf, Destroyed
<1>2. \A k \in Conns : "phase" \in DOMAIN conns[k] BY DEF CaptureInv, Shape
<1>3. DOMAIN conns' = Conns /\ \A k \in Conns : Keeps(k)
  <2>1. CASE ExpiryTimer
    <3>1. PICK unleased :
            /\ unleased = [k \in Conns |->
                 IF conns[k].lease /\ ~LeaseValid(k) THEN Destroyed(conns[k]) ELSE conns[k]]
            /\ conns' = DestroyedOf(unleased, Inactive)
      BY <2>1 DEF ExpiryTimer
    <3>2. \A k \in Conns : /\ "phase" \in DOMAIN unleased[k]
                           /\ unleased[k].phase \in {conns[k].phase, "closing"}
      BY <1>2, <3>1 DEF Destroyed
    <3>3. DOMAIN conns' = Conns BY <3>1 DEF DestroyedOf
    <3> QED BY <1>1, <3>1, <3>2, <3>3
  <2>2. CASE Close
    BY <1>2, <2>2 DEF Close, Destroyed
  <2>3. CASE \/ RevokeSaved
             \/ \E d \in Devices : Logout(d)
    <3>1. PICK d : CloseSession(d) BY <2>3 DEF RevokeSaved, Logout
    <3>2. conns' = DestroyedOf(conns, {d}) BY <3>1 DEF CloseSession
    <3>3. DOMAIN conns' = Conns BY <3>2 DEF DestroyedOf
    <3> QED BY <1>1, <1>2, <3>2, <3>3
  <2>4. CASE \/ RevokeFails
             \/ \E d \in Devices : Expire(d) \/ Reissue(d) \/ RevokeBegin(d)
    BY <1>2, <2>4 DEF RevokeFails, Expire, Reissue, RevokeBegin, CaptureInv, Shape
  <2> QED BY <2>1, <2>2, <2>3, <2>4
<1>4. exchange' = Remains /\ UNCHANGED captures BY DEF Unexchanged
<1>5. Shape' BY <1>3, <1>4, RemainsShape DEF CaptureInv
<1> QED BY <1>3, <1>4, <1>5, DestroyedKeep

---------------------------------------------------------------------------
(* Every step keeps the invariant. *)
LEMMA CaptureStep == CaptureInv /\ [ExchangeNext]_exchangeVars => CaptureInv'
<1> SUFFICES ASSUME CaptureInv, [ExchangeNext]_exchangeVars PROVE CaptureInv'
  OBVIOUS
<1>1. CASE ExpiryTick \/ CloseAll \/ Revoked \/ NotRevoked
  BY <1>1, Destroys DEF ExpiryTick, CloseAll, Revoked, NotRevoked
<1>2. ASSUME NEW d \in Devices, SignOut(d) \/ DeviceStep(d) PROVE CaptureInv'
  BY <1>2, Destroys DEF SignOut, DeviceStep
<1>3. CASE Tick BY <1>3, StutterKeeps DEF Tick, vars
<1>4. ASSUME NEW d \in Devices, NEW a \in Assets, NEW p \in Accepts, Hit(d, a, p)
      PROVE  CaptureInv'
  BY <1>4, StutterKeeps DEF Hit, vars
<1>5. ASSUME NEW c \in Conns, NEW d \in Devices, NEW a \in Assets, NEW p \in Accepts,
             Get(c, d, a, p)
      PROVE  CaptureInv'
  <2> DEFINE x == [NoExchange EXCEPT !.asset = a, !.accept = p]
  <2>1. /\ Accept(c, d) /\ UNCHANGED captures
        /\ exchange' = [exchange EXCEPT ![c] = x]
    BY <1>5 DEF Get
  <2>2. /\ x.capture = "none"
        /\ {"answered", "capture", "body", "timer"} \subseteq DOMAIN x
    BY DEF NoExchange
  <2> HIDE DEF x
  <2> QED BY <2>1, <2>2, RequestBegins
<1>6. ASSUME NEW c \in Conns, NEW d \in Devices, Post(c, d) PROVE CaptureInv'
  <2> DEFINE x == [NoExchange EXCEPT !.body = "open"]
  <2>1. /\ Accept(c, d) /\ UNCHANGED captures
        /\ exchange' = [exchange EXCEPT ![c] = x]
    BY <1>6 DEF Post
  <2>2. /\ x.capture = "none"
        /\ {"answered", "capture", "body", "timer"} \subseteq DOMAIN x
    BY DEF NoExchange
  <2> HIDE DEF x
  <2> QED BY <2>1, <2>2, RequestBegins
<1>7. ASSUME NEW c \in Conns,
             \/ BodyEnds(c) \/ Headers(c) \/ Chunk(c) \/ Lost(c)
             \/ Ends(c) \/ Refused(c) \/ FirstByteTimeout(c) \/ Gone(c)
      PROVE  CaptureInv'
  <2>1. CASE BodyEnds(c) BY <2>1, BodyKeeps
  <2>2. CASE Headers(c) BY <2>2, HeadersCount
  <2>3. CASE Chunk(c) BY <2>3, ChunkCounts
  <2>4. CASE Lost(c) BY <2>4, LostCounts
  <2>5. CASE Ends(c) \/ Refused(c) \/ FirstByteTimeout(c) \/ Gone(c)
    <3>1. Over(c) BY <2>5 DEF Ends, Refused, FirstByteTimeout, Gone
    <3>2. conns' = [conns EXCEPT ![c] = NoConn]
      BY <2>5 DEF Ends, Refused, FirstByteTimeout, Gone, Finish, CloseEvent, Release
    <3> QED BY <3>1, <3>2, OverCounts
  <2> QED BY <1>7, <2>1, <2>2, <2>3, <2>4, <2>5
<1>8. CASE UNCHANGED exchangeVars BY <1>8, StutterKeeps DEF exchangeVars, vars
<1> QED BY <1>1, <1>2, <1>3, <1>4, <1>5, <1>6, <1>7, <1>8 DEF ExchangeNext

(* The counter of captures is the number of exchanges that hold one, for   *)
(* any number of connections and whatever the limit: no way an exchange    *)
(* may end loses a capture or gives it back twice.                         *)
THEOREM CapturesAreCounted == ExchangeSpec => []CapturesCounted
<1>1. ExchangeInit => CaptureInv
  <2> SUFFICES ASSUME ExchangeInit PROVE CaptureInv OBVIOUS
  <2>1. Shape BY DEF ExchangeInit, Init, Shape, NoConn, NoExchange
  <2>2. Holders = {} BY DEF ExchangeInit, Holders, NoExchange
  <2>3. CapturesCounted
    BY <2>2, FS_EmptySet DEF CapturesCounted, Holders, ExchangeInit
  <2> QED BY <2>1, <2>2, <2>3 DEF CaptureInv, HolderInv
<1>2. CaptureInv => CapturesCounted BY DEF CaptureInv
<1> QED BY <1>1, <1>2, CaptureStep, PTL DEF ExchangeSpec

---------------------------------------------------------------------------
(* The connections of a device that was cut                                *)

(* A free connection has no record; another one is of a device. *)
ConnShape ==
  /\ conns \in [Conns -> [phase : {"free", "live", "closing"}, device : Devices \cup {Nobody},
                          secret : Nat, set : Nat, lease : BOOLEAN]]
  /\ \A c \in Conns : IF conns[c].phase = "free" THEN conns[c].set = 0 /\ ~conns[c].lease
                       ELSE conns[c].device \in Devices
  /\ sessions \in [Devices -> Nat] /\ minted \in [Devices -> Nat]
  /\ before \in [Devices -> Nat] /\ registry \in [Devices -> Nat]
  /\ revoking \in Devices \cup {Nobody} /\ failures \in Nat

(* As long as every write succeeded: a connection is in the Set that its   *)
(* device has; or it is being closed, and the device has no Set any more   *)
(* and will not get one, for want of a session or of a listener.  So when  *)
(* an old connection's release drops whatever Set the device has, there is *)
(* none to lose.                                                           *)
SetInv ==
  failures = 0 =>
    \A c \in Conns : conns[c].phase # "free" =>
      \/ registry[conns[c].device] = conns[c].set /\ conns[c].set # 0
      \/ /\ conns[c].phase = "closing" /\ registry[conns[c].device] = 0
         /\ closed \/ sessions[conns[c].device] = 0

(* A device whose cut was acknowledged has no session, and no connection;  *)
(* the one that is being revoked has no session either.                    *)
CutInv ==
  /\ failures = 0 => \A d \in Devices : d \in cut \/ (revoking = d /\ d # Nobody)
                                         => sessions[d] = 0
  /\ CutClosesStreams

ConnInv == ConnShape /\ SetInv /\ CutInv

(* Each connection is in one Set, and there is one Set more. *)
LEMMA FreeSetExists ==
  ASSUME ConnShape
  PROVE  FreeSet \in Nat \ {0}
<1> DEFINE n == Cardinality(Conns)
<1>1. IsFiniteSet(Conns) /\ n \in Nat
  BY FS_CardinalityType, ConnectionsAssumption DEF ConnectionsAssumption
<1> HIDE DEF n
<1>2. IsFiniteSet(1..(n + 1)) /\ Cardinality(1..(n + 1)) = n + 1
  <2>1. PICK a \in Int, m \in Int : a = 1 /\ m = n + 1 BY <1>1
  <2>2. IsFiniteSet(a..m) /\ Cardinality(a..m) = IF a > m THEN 0 ELSE m - a + 1
    BY FS_Interval
  <2>3. ~(a > m) /\ m - a + 1 = n + 1 BY <1>1, <2>1
  <2> QED BY <2>1, <2>2, <2>3
<1>3. Sets = 1..(n + 1) BY DEF Sets, n
<1>4. \E s \in Sets : \A c \in Conns : conns[c].set # s
  <2> SUFFICES ASSUME \A s \in Sets : \E c \in Conns : conns[c].set = s
               PROVE  FALSE
    OBVIOUS
  <2> DEFINE f == [s \in Sets |-> CHOOSE c \in Conns : conns[c].set = s]
  <2>1. f \in [Sets -> Conns] /\ \A s \in Sets : conns[f[s]].set = s OBVIOUS
  <2> HIDE DEF f
  <2>2. Cardinality(Conns) < Cardinality(Sets) BY <1>1, <1>2, <1>3 DEF n
  <2>3. \E x, y \in Sets : x # y /\ f[x] = f[y]
    BY <1>1, <1>2, <1>3, <2>1, <2>2, FS_PigeonHole
  <2> QED BY <2>1, <2>3
<1>5. FreeSet \in Sets BY <1>4 DEF FreeSet
<1> QED BY <1>1, <1>3, <1>5

(* What a step does to the records of connections when it destroys some of *)
(* them and frees none.                                                    *)
Destroying ==
  /\ conns' = [c \in Conns |-> conns'[c]]
  /\ \A c \in Conns :
       \/ conns'[c] = conns[c]
       \/ conns[c].phase # "free" /\ conns'[c] = Destroyed(conns[c])
       \/ conns[c].phase # "free" /\ conns'[c] = [conns[c] EXCEPT !.phase = "closing"]
       \/ conns'[c] = [conns[c] EXCEPT !.lease = FALSE]

(* Destroying connections leaves them their device and their set.          *)
LEMMA DestroyingFields ==
  ASSUME ConnShape, Destroying
  PROVE  /\ conns' \in [Conns -> [phase : {"free", "live", "closing"},
                                  device : Devices \cup {Nobody},
                                  secret : Nat, set : Nat, lease : BOOLEAN]]
         /\ \A c \in Conns : /\ conns'[c].device = conns[c].device
                             /\ conns'[c].set = conns[c].set
                             /\ conns'[c].phase \in {conns[c].phase, "closing"}
                             /\ conns'[c].phase = "free" <=> conns[c].phase = "free"
                             /\ conns'[c].phase = "free" => ~conns'[c].lease
<1> DEFINE R == [phase : {"free", "live", "closing"}, device : Devices \cup {Nobody},
                 secret : Nat, set : Nat, lease : BOOLEAN]
<1>1. ASSUME NEW c \in Conns
      PROVE  /\ conns'[c] \in R
             /\ conns'[c].device = conns[c].device /\ conns'[c].set = conns[c].set
             /\ conns'[c].phase \in {conns[c].phase, "closing"}
             /\ conns'[c].phase = "free" <=> conns[c].phase = "free"
             /\ conns'[c].phase = "free" => ~conns'[c].lease
  <2>1. PICK r \in R : r = conns[c] /\ (r.phase = "free" => ~r.lease) BY DEF ConnShape
  <2>2. CASE conns'[c] = r BY <2>1, <2>2
  <2>3. CASE r.phase # "free" /\ conns'[c] = [r EXCEPT !.phase = "closing", !.lease = FALSE]
    BY <2>1, <2>3
  <2>4. CASE conns'[c] = [r EXCEPT !.lease = FALSE] BY <2>1, <2>4
  <2>5. CASE r.phase # "free" /\ conns'[c] = [r EXCEPT !.phase = "closing"]
    BY <2>1, <2>5
  <2> QED BY <2>1, <2>2, <2>3, <2>4, <2>5 DEF Destroying, Destroyed
<1>2. conns' \in [Conns -> R]
  <2>1. conns' = [c \in Conns |-> conns'[c]] BY DEF Destroying
  <2> QED BY <1>1, <2>1
<1> QED BY <1>1, <1>2

(* A step that destroys connections and drops Sets keeps the invariant if  *)
(* a Set is dropped only with the session or the listener, and its live    *)
(* members go along.                                                       *)
LEMMA DestroyingKeeps ==
  ASSUME ConnInv, Destroying,
         sessions' \in [Devices -> Nat], minted' \in [Devices -> Nat],
         before' \in [Devices -> Nat], registry' \in [Devices -> Nat],
         revoking' \in Devices \cup {Nobody}, failures' \in Nat,
         failures' = 0 => failures = 0, closed => closed',
         failures' = 0 => \A d \in Devices :
           /\ sessions[d] = 0 => sessions'[d] = 0
           /\ \/ registry'[d] = registry[d]
              \/ /\ registry'[d] = 0
                 /\ closed' \/ sessions'[d] = 0
                 /\ \A c \in Conns : conns[c].device = d => conns'[c].phase # "live"
           /\ d \in cut' \/ (revoking' = d /\ d # Nobody) => sessions'[d] = 0
           /\ d \in cut' \ cut =>
                \A c \in Conns : conns[c].device = d => conns'[c].phase # "live"
  PROVE  ConnInv'
<1>1. /\ conns' \in [Conns -> [phase : {"free", "live", "closing"},
                               device : Devices \cup {Nobody},
                               secret : Nat, set : Nat, lease : BOOLEAN]]
      /\ \A c \in Conns : /\ conns'[c].device = conns[c].device
                          /\ conns'[c].set = conns[c].set
                          /\ conns'[c].phase \in {conns[c].phase, "closing"}
                          /\ conns'[c].phase = "free" <=> conns[c].phase = "free"
                          /\ conns'[c].phase = "free" => ~conns'[c].lease
  BY DestroyingFields DEF ConnInv
<1>2. \A c \in Conns : /\ conns[c].phase # "free" => conns[c].device \in Devices
                       /\ conns'[c].phase \in {"free", "live", "closing"}
  BY <1>1 DEF ConnInv, ConnShape
<1>3. ConnShape' BY <1>1, <1>2 DEF ConnInv, ConnShape
<1>4. SetInv'
  <2>1. ASSUME failures' = 0, NEW c \in Conns, conns'[c].phase # "free"
        PROVE  \/ registry'[conns'[c].device] = conns'[c].set /\ conns'[c].set # 0
               \/ /\ conns'[c].phase = "closing" /\ registry'[conns'[c].device] = 0
                  /\ closed' \/ sessions'[conns'[c].device] = 0
    <3>1. PICK d \in Devices : d = conns[c].device BY <1>1, <1>2, <2>1
    <3>2. \/ registry[d] = conns[c].set /\ conns[c].set # 0
          \/ /\ conns[c].phase = "closing" /\ registry[d] = 0
             /\ closed \/ sessions[d] = 0
      BY <1>1, <2>1, <3>1 DEF ConnInv, SetInv
    <3>3. \/ registry'[d] = registry[d]
          \/ registry'[d] = 0 /\ (closed' \/ sessions'[d] = 0) /\ conns'[c].phase # "live"
      BY <2>1, <3>1
    <3>4. sessions[d] = 0 => sessions'[d] = 0 BY <2>1
    <3>5. conns'[c].phase \in {"live", "closing"} BY <1>2, <2>1
    <3>6. conns[c].phase = "closing" => conns'[c].phase = "closing" BY <1>1
    <3> QED BY <1>1, <3>1, <3>2, <3>3, <3>4, <3>5, <3>6
  <2> QED BY <2>1 DEF SetInv
<1>5. CutInv'
  <2>1. ASSUME failures' = 0, NEW c \in Conns, conns'[c].phase = "live"
        PROVE  conns'[c].device \notin cut'
    <3>1. conns[c].phase = "live" /\ conns[c].device \in Devices BY <1>1, <1>2, <2>1
    <3>2. conns[c].device \notin cut
      BY <2>1, <3>1 DEF ConnInv, CutInv, CutClosesStreams, Live
    <3> QED BY <1>1, <2>1, <3>1, <3>2
  <2> QED BY <2>1 DEF CutInv, CutClosesStreams, Live
<1> QED BY <1>3, <1>4, <1>5 DEF ConnInv

(* closeSessionConnections leaves no live connection of its devices. *)
LEMMA ClosedSessions ==
  ASSUME ConnInv, NEW map, NEW D \in SUBSET Devices, conns' = DestroyedOf(map, D),
         \A c \in Conns : \/ map[c] = conns[c]
                          \/ conns[c].phase # "free" /\ map[c] = Destroyed(conns[c])
  PROVE  /\ Destroying
         /\ failures = 0 => \A c \in Conns : conns[c].device \in D => conns'[c].phase # "live"
<1>1. ASSUME NEW c \in Conns
      PROVE  /\ map[c].set = conns[c].set
             /\ map[c].phase \in {conns[c].phase, "closing"}
             /\ Destroyed(map[c]) = Destroyed(conns[c])
  <2>1. CASE map[c] = conns[c] BY <2>1
  <2>2. CASE map[c] = Destroyed(conns[c])
    <3>1. PICK r \in [phase : {"free", "live", "closing"}, device : Devices \cup {Nobody},
                      secret : Nat, set : Nat, lease : BOOLEAN] : r = conns[c]
      BY DEF ConnInv, ConnShape
    <3>2. /\ Destroyed(r).phase = "closing" /\ Destroyed(r).set = r.set
          /\ Destroyed(Destroyed(r)) = Destroyed(r)
      BY DEF Destroyed
    <3> QED BY <2>2, <3>1, <3>2
  <2> QED BY <2>1, <2>2
<1>2. ASSUME NEW c \in Conns
      PROVE  \/ conns'[c] = conns[c]
             \/ conns[c].phase # "free" /\ conns'[c] = Destroyed(conns[c])
  <2>1. conns[c].phase = "free" => conns[c].set = 0 BY DEF ConnInv, ConnShape, NoConn
  <2> QED BY <1>1, <2>1 DEF DestroyedOf
<1>3. Destroying
  <2>1. conns' = [c \in Conns |-> conns'[c]] BY DEF DestroyedOf
  <2> QED BY <1>2, <2>1 DEF Destroying
<1>4. ASSUME failures = 0, NEW c \in Conns, conns[c].device \in D
      PROVE  conns'[c].phase # "live"
  <2>1. CASE conns[c].phase = "live"
    <3>1. registry[conns[c].device] # 0 /\ map[c].set = registry[conns[c].device]
      BY <1>1, <1>4, <2>1 DEF ConnInv, SetInv
    <3>2. conns'[c] = Destroyed(conns[c]) BY <1>1, <1>4, <3>1 DEF DestroyedOf
    <3> QED BY <3>2, <1>3, DestroyingFields DEF ConnInv, ConnShape, Destroyed
  <2>2. CASE conns[c].phase # "live"
    BY <1>3, <2>2, DestroyingFields DEF ConnInv
  <2> QED BY <2>1, <2>2
<1> QED BY <1>3, <1>4

(* Closing a session reaches every live connection of the device, unless a *)
(* close fails.                                                            *)
LEMMA ClosedSession ==
  ASSUME ConnInv, NEW d \in Devices, conns' = DestroyedOf(conns, {d})
  PROVE  /\ Destroying
         /\ failures = 0 => \A c \in Conns : conns[c].device = d => conns'[c].phase # "live"
<1>1. PICK D \in SUBSET Devices : D = {d} OBVIOUS
<1>2. \E map : map = conns OBVIOUS
<1>3. PICK map : map = conns BY <1>2
<1>4. conns' = DestroyedOf(map, D) BY <1>1, <1>3
<1>5. \A c \in Conns : map[c] = conns[c] BY <1>3
<1>6. /\ Destroying
      /\ failures = 0 => \A c \in Conns : conns[c].device \in D => conns'[c].phase # "live"
  BY <1>4, <1>5, ClosedSessions
<1> QED BY <1>1, <1>6

(* A new connection goes into the Set of its device, the first of them all *)
(* if the device has none: what is left of older ones would mean that the  *)
(* device has no session.                                                  *)
LEMMA AcceptKeeps ==
  ASSUME ConnInv, NEW c \in Conns, NEW d \in Devices, Accept(c, d)
  PROVE  ConnInv'
<1>1. /\ conns[c].phase = "free" /\ ~closed /\ sessions[d] # 0
      /\ UNCHANGED <<sessions, minted, revoking, before, failures, cut, closed>>
  BY DEF Accept, storeVars
<1>2. PICK s \in Nat \ {0} : s = SetOf(d)
  BY FreeSetExists DEF ConnInv, ConnShape, SetOf
<1>3. PICK r : r = [phase |-> "live", device |-> d, secret |-> sessions[d],
                    set |-> s, lease |-> TRUE]
  OBVIOUS
<1>4. /\ conns' = [conns EXCEPT ![c] = r]
      /\ registry' = [registry EXCEPT ![d] = IF @ = 0 THEN s ELSE @]
  BY <1>2, <1>3 DEF Accept
<1>5. /\ conns'[c] = r /\ r.phase = "live" /\ r.device = d /\ r.set = s
      /\ \A k \in Conns : k # c => conns'[k] = conns[k]
      /\ conns' \in [Conns -> [phase : {"free", "live", "closing"},
                               device : Devices \cup {Nobody},
                               secret : Nat, set : Nat, lease : BOOLEAN]]
  BY <1>1, <1>2, <1>3, <1>4 DEF ConnInv, ConnShape
<1>6. /\ registry' \in [Devices -> Nat] /\ registry'[d] = s
      /\ \A e \in Devices : e # d => registry'[e] = registry[e]
      /\ registry[d] # 0 => s = registry[d]
  BY <1>2, <1>4 DEF ConnInv, ConnShape, SetOf
<1>7. ConnShape' BY <1>1, <1>5, <1>6 DEF ConnInv, ConnShape
<1>8. SetInv'
  <2>1. ASSUME failures = 0, NEW k \in Conns, conns'[k].phase # "free"
        PROVE  \/ registry'[conns'[k].device] = conns'[k].set /\ conns'[k].set # 0
               \/ /\ conns'[k].phase = "closing" /\ registry'[conns'[k].device] = 0
                  /\ closed \/ sessions[conns'[k].device] = 0
    <3>1. CASE k = c BY <1>2, <1>5, <1>6, <3>1
    <3>2. CASE k # c
      <4>1. conns'[k] = conns[k] /\ conns[k].device \in Devices
        BY <1>5, <2>1, <3>2 DEF ConnInv, ConnShape
      <4>2. \/ registry[conns[k].device] = conns[k].set /\ conns[k].set # 0
            \/ /\ conns[k].phase = "closing" /\ registry[conns[k].device] = 0
               /\ closed \/ sessions[conns[k].device] = 0
        BY <2>1, <4>1 DEF ConnInv, SetInv
      <4> QED BY <1>1, <1>6, <4>1, <4>2
    <3> QED BY <3>1, <3>2
  <2> QED BY <1>1, <2>1 DEF SetInv
<1>9. CutInv'
  <2>1. ASSUME failures = 0, NEW k \in Conns, conns'[k].phase = "live"
        PROVE  conns'[k].device \notin cut
    <3>1. CASE k = c
      <4>1. d \notin cut BY <1>1, <2>1 DEF ConnInv, CutInv
      <4> QED BY <1>5, <3>1, <4>1
    <3>2. CASE k # c BY <1>5, <2>1, <3>2 DEF ConnInv, CutInv, CutClosesStreams, Live
    <3> QED BY <3>1, <3>2
  <2> QED BY <1>1, <2>1 DEF ConnInv, CutInv, CutClosesStreams, Live
<1> QED BY <1>7, <1>8, <1>9 DEF ConnInv

(* The release of a connection drops the Set of its device only when no    *)
(* other connection of the device is in it.                                *)
LEMMA ReleaseKeeps ==
  ASSUME ConnInv, NEW c \in Conns, conns[c].phase # "free", Release(c, NoConn)
  PROVE  ConnInv'
<1> DEFINE rest == Members(conns[c].set) \ {c}
<1>1. PICK d \in Devices, s \in Nat : d = conns[c].device /\ s = conns[c].set
  BY DEF ConnInv, ConnShape
<1>2. /\ conns' = [conns EXCEPT ![c] = NoConn]
      /\ registry' = IF rest = {} THEN [registry EXCEPT ![d] = 0] ELSE registry
      /\ UNCHANGED <<sessions, minted, revoking, before, failures, cut, closed>>
  BY <1>1 DEF Release, storeVars
<1>3. /\ conns'[c] = NoConn /\ \A k \in Conns : k # c => conns'[k] = conns[k]
      /\ conns' \in [Conns -> [phase : {"free", "live", "closing"},
                               device : Devices \cup {Nobody},
                               secret : Nat, set : Nat, lease : BOOLEAN]]
      /\ NoConn.phase = "free"
  BY <1>2 DEF ConnInv, ConnShape, NoConn
<1>4. /\ registry' \in [Devices -> Nat]
      /\ \A e \in Devices : e # d => registry'[e] = registry[e]
      /\ registry'[d] # registry[d] => registry'[d] = 0 /\ rest = {}
  BY <1>2 DEF ConnInv, ConnShape
<1>5. ConnShape' BY <1>2, <1>3, <1>4 DEF ConnInv, ConnShape, NoConn
<1>6. SetInv'
  <2>1. ASSUME failures = 0, NEW k \in Conns, k # c, conns[k].phase # "free"
        PROVE  \/ registry'[conns[k].device] = conns[k].set /\ conns[k].set # 0
               \/ /\ conns[k].phase = "closing" /\ registry'[conns[k].device] = 0
                  /\ closed \/ sessions[conns[k].device] = 0
    <3>1. PICK e \in Devices : e = conns[k].device BY <2>1 DEF ConnInv, ConnShape
    <3>2. \/ registry[e] = conns[k].set /\ conns[k].set # 0
          \/ /\ conns[k].phase = "closing" /\ registry[e] = 0
             /\ closed \/ sessions[e] = 0
      BY <2>1, <3>1 DEF ConnInv, SetInv
    <3>3. CASE registry'[e] = registry[e] BY <3>1, <3>2, <3>3
    <3>4. CASE registry'[e] # registry[e]
      <4>1. e = d /\ registry'[d] = 0 /\ rest = {} BY <1>4, <3>4
      <4>2. registry[d] = s \/ registry[d] = 0
        BY <1>1, <2>1 DEF ConnInv, SetInv
      <4>3. conns[k].set # s BY <1>1, <2>1, <4>1 DEF Members
      <4> QED BY <3>1, <3>2, <4>1, <4>2, <4>3
    <3> QED BY <3>3, <3>4
  <2> QED BY <1>2, <1>3, <2>1 DEF SetInv
<1>7. CutInv' BY <1>2, <1>3 DEF ConnInv, CutInv, CutClosesStreams, Live
<1> QED BY <1>5, <1>6, <1>7 DEF ConnInv

(* Nothing is destroyed. *)
LEMMA NothingDestroyed ==
  ASSUME ConnInv, UNCHANGED conns
  PROVE  Destroying
  BY DEF ConnInv, ConnShape, Destroying

(* Every step keeps the invariant of the connections.                      *)
LEMMA ConnStep == ConnInv /\ [Next]_vars => ConnInv'
<1> SUFFICES ASSUME ConnInv, [Next]_vars PROVE ConnInv' OBVIOUS
<1>0. /\ sessions \in [Devices -> Nat] /\ minted \in [Devices -> Nat]
      /\ before \in [Devices -> Nat] /\ registry \in [Devices -> Nat]
      /\ revoking \in Devices \cup {Nobody} /\ failures \in Nat
      /\ \A d \in Devices : Nothing[d] = 0 /\ Nothing \in [Devices -> Nat]
      /\ failures = 0 => \A d \in Devices : d \in cut \/ (revoking = d /\ d # Nobody)
                                             => sessions[d] = 0
  BY DEF ConnInv, ConnShape, CutInv, Nothing
<1>1. ASSUME NEW c \in Conns, NEW d \in Devices, Accept(c, d) PROVE ConnInv'
  BY <1>1, AcceptKeeps
<1>2. ASSUME NEW c \in Conns, Finish(c) \/ CloseEvent(c) PROVE ConnInv'
  BY <1>2, ReleaseKeeps DEF Finish, CloseEvent, Live
<1>3. ASSUME NEW c \in Conns, Breaks(c) PROVE ConnInv'
  <2>1. Destroying BY <1>3 DEF Breaks, Live, Destroying, ConnInv, ConnShape
  <2> QED BY <1>0, <1>3, <2>1, DestroyingKeeps DEF Breaks, storeVars
<1>4. CASE ExpiryTimer
  <2>1. PICK unleased :
          /\ unleased = [c \in Conns |->
               IF c \in {k \in Conns : conns[k].lease /\ ~LeaseValid(k)}
                 THEN Destroyed(conns[c]) ELSE conns[c]]
          /\ conns' = DestroyedOf(unleased, Inactive) /\ registry' = Unregistered(Inactive)
          /\ UNCHANGED <<sessions, minted, revoking, before, failures, cut, closed>>
    BY <1>4 DEF ExpiryTimer, storeVars
  <2>2. \A c \in Conns :
          \/ unleased[c] = conns[c]
          \/ conns[c].phase # "free" /\ unleased[c] = Destroyed(conns[c])
    BY <2>1 DEF ConnInv, ConnShape, NoConn
  <2>3. Inactive \in SUBSET Devices /\ \A d \in Inactive : sessions[d] = 0
    BY DEF Inactive
  <2>4. /\ Destroying
        /\ failures = 0 =>
             \A c \in Conns : conns[c].device \in Inactive => conns'[c].phase # "live"
    BY <2>1, <2>2, <2>3, ClosedSessions
  <2>5. /\ registry' \in [Devices -> Nat]
        /\ \A d \in Devices : registry'[d] = IF d \in Inactive THEN 0 ELSE registry[d]
    BY <1>0, <2>1 DEF Unregistered
  <2> QED BY <1>0, <2>1, <2>3, <2>4, <2>5, DestroyingKeeps
<1>5. CASE Close
  <2>1. /\ closed' = TRUE /\ registry' = [d \in Devices |-> 0]
        /\ conns' = [c \in Conns |-> IF Live(c) THEN Destroyed(conns[c])
                                     ELSE [conns[c] EXCEPT !.lease = FALSE]]
        /\ UNCHANGED <<sessions, minted, revoking, before, failures, cut>>
    BY <1>5 DEF Close, storeVars
  <2>2. Destroying BY <2>1 DEF Destroying, Live
  <2>3. \A c \in Conns : conns'[c].phase # "live"
    BY <2>1 DEF Live, Destroyed, ConnInv, ConnShape
  <2>4. registry' \in [Devices -> Nat] /\ \A d \in Devices : registry'[d] = 0 BY <2>1
  <2> QED BY <1>0, <2>1, <2>2, <2>3, <2>4, DestroyingKeeps
<1>6. ASSUME NEW d \in Devices, CloseSession(d), sessions' \in [Devices -> Nat], sessions'[d] = 0,
             \A e \in Devices : sessions'[e] \in {sessions[e], 0},
             cut' = cut \cup {d}, UNCHANGED <<failures, closed, minted>>,
             revoking' \in {revoking, Nobody}, before' \in [Devices -> Nat]
      PROVE  ConnInv'
  <2>1. conns' = DestroyedOf(conns, {d}) /\ registry' = Unregistered({d})
    BY <1>6 DEF CloseSession
  <2>2. /\ Destroying
        /\ failures = 0 => \A c \in Conns : conns[c].device = d => conns'[c].phase # "live"
    BY <2>1, ClosedSession
  <2>3. /\ registry' \in [Devices -> Nat]
        /\ \A e \in Devices : registry'[e] = IF e = d THEN 0 ELSE registry[e]
    BY <1>0, <2>1 DEF Unregistered
  <2> QED BY <1>0, <1>6, <2>2, <2>3, DestroyingKeeps
<1>7. ASSUME NEW d \in Devices, Logout(d) PROVE ConnInv'
  BY <1>0, <1>6, <1>7 DEF Logout
<1>8. CASE RevokeSaved
  <2>1. PICK d \in Devices : d = revoking /\ d # Nobody BY <1>0, <1>8 DEF RevokeSaved
  <2>2. CASE failures = 0
    BY <1>0, <1>6, <1>8, <2>1, <2>2 DEF RevokeSaved
  <2>3. CASE failures # 0
    <3>1. conns' = DestroyedOf(conns, {d}) /\ registry' = Unregistered({d})
      BY <1>8, <2>1 DEF RevokeSaved, CloseSession
    <3>2. Destroying BY <3>1, ClosedSession
    <3>3. registry' \in [Devices -> Nat] BY <1>0, <3>1 DEF Unregistered
    <3> QED BY <1>0, <1>8, <2>3, <3>2, <3>3, DestroyingKeeps DEF RevokeSaved
  <2> QED BY <2>2, <2>3
<1>9. CASE RevokeFails
  <2>1. failures' \in Nat /\ failures' # 0 BY <1>0, <1>9 DEF RevokeFails
  <2>2. Destroying BY <1>9, NothingDestroyed DEF RevokeFails
  <2> QED BY <1>0, <1>9, <2>1, <2>2, DestroyingKeeps DEF RevokeFails
<1>10. ASSUME NEW d \in Devices, Expire(d) PROVE ConnInv'
  <2>1. Destroying BY <1>10, NothingDestroyed DEF Expire
  <2>2. sessions' \in [Devices -> Nat] /\ before' \in [Devices -> Nat] BY <1>0, <1>10 DEF Expire
  <2>3. \A e \in Devices : sessions'[e] \in {sessions[e], 0} BY <1>0, <1>10 DEF Expire
  <2> QED BY <1>0, <1>10, <2>1, <2>2, <2>3, DestroyingKeeps DEF Expire
<1>11. ASSUME NEW d \in Devices, Reissue(d) PROVE ConnInv'
  <2>1. Destroying BY <1>11, NothingDestroyed DEF Reissue
  <2>2. sessions' \in [Devices -> Nat] /\ minted' \in [Devices -> Nat]
    BY <1>0, <1>11 DEF Reissue
  <2>3. \A e \in Devices : sessions[e] = 0 => sessions'[e] = 0 BY <1>0, <1>11 DEF Reissue
  <2> QED BY <1>0, <1>11, <2>1, <2>2, <2>3, DestroyingKeeps DEF Reissue
<1>12. ASSUME NEW d \in Devices, RevokeBegin(d) PROVE ConnInv'
  <2>1. Destroying BY <1>12, NothingDestroyed DEF RevokeBegin
  <2>2. sessions' \in [Devices -> Nat] /\ sessions'[d] = 0
        /\ \A e \in Devices : sessions'[e] \in {sessions[e], 0}
    BY <1>0, <1>12 DEF RevokeBegin
  <2> QED BY <1>0, <1>12, <2>1, <2>2, DestroyingKeeps DEF RevokeBegin
<1>13. CASE UNCHANGED vars
  BY <1>0, <1>13, NothingDestroyed, DestroyingKeeps DEF vars
<1> QED
  BY <1>1, <1>2, <1>3, <1>4, <1>5, <1>7, <1>8, <1>9, <1>10, <1>11, <1>12, <1>13 DEF Next

(* An exchange does with its connection what the connections allow. *)
LEMMA ExchangeMoves == [ExchangeNext]_exchangeVars => [Next]_vars
<1>1. ASSUME NEW c \in Conns, NEW d \in Devices, NEW a \in Assets, NEW p \in Accepts,
             Get(c, d, a, p)
      PROVE  Next
  BY <1>1 DEF Get, Next
<1>2. ASSUME NEW c \in Conns, NEW d \in Devices, Post(c, d) PROVE Next
  BY <1>2 DEF Post, Next
<1>3. ASSUME NEW c \in Conns,
             \/ BodyEnds(c) \/ Headers(c) \/ Chunk(c) \/ Ends(c)
             \/ Refused(c) \/ FirstByteTimeout(c) \/ Lost(c) \/ Gone(c)
      PROVE  [Next]_vars
  BY <1>3 DEF BodyEnds, Headers, Chunk, Ends, Refused, FirstByteTimeout, Lost, Gone, Next
<1>4. ASSUME NEW d \in Devices, SignOut(d) \/ DeviceStep(d) PROVE Next
  BY <1>4 DEF SignOut, DeviceStep, Next
<1>5. ASSUME NEW d \in Devices, NEW a \in Assets, NEW p \in Accepts, Hit(d, a, p)
      PROVE  UNCHANGED vars
  BY <1>5 DEF Hit
<1>6. CASE ExpiryTick \/ CloseAll \/ Revoked \/ NotRevoked
  BY <1>6 DEF ExpiryTick, CloseAll, Revoked, NotRevoked, Next
<1>7. CASE Tick BY <1>7 DEF Tick
<1>8. CASE UNCHANGED exchangeVars BY <1>8 DEF exchangeVars
<1> QED BY <1>1, <1>2, <1>3, <1>4, <1>5, <1>6, <1>7, <1>8 DEF ExchangeNext

(* The invariant holds without connections.                                *)
LEMMA ConnStart == Init => ConnInv
<1> SUFFICES ASSUME Init PROVE ConnInv OBVIOUS
<1>1. ConnShape BY DEF Init, ConnShape, NoConn, Nothing
<1>2. SetInv BY DEF Init, SetInv, NoConn
<1>3. CutInv
  <2>1. \A d \in Devices : d \notin cut /\ ~(revoking = d /\ d # Nobody) BY DEF Init
  <2>2. \A c \in Conns : ~Live(c) BY DEF Init, Live, NoConn
  <2> QED BY <2>1, <2>2 DEF CutInv, CutClosesStreams
<1> QED BY <1>1, <1>2, <1>3 DEF ConnInv

(* Whatever an exchange captures, waits for or has timed, its connection   *)
(* lives as ProxyConnections says: its safety theorems are theorems of the *)
(* exchanges (trackSession, src/proxy.ts).                                 *)
THEOREM ExchangeImplementsConnections == ExchangeSpec => Init /\ [][Next]_vars
<1>1. ExchangeInit => Init BY DEF ExchangeInit
<1> QED BY <1>1, ExchangeMoves, PTL DEF ExchangeSpec

(* As long as every write of the state file succeeded, a device whose      *)
(* revocation or sign-out was acknowledged has no live connection: the     *)
(* registry has them all, although a late release drops whatever Set the   *)
(* device has by then (closeSessionConnections, src/proxy.ts).             *)
THEOREM CutClosesStreamsHolds == Spec => []CutClosesStreams
<1>1. ConnInv => CutClosesStreams BY DEF ConnInv, CutInv
<1> QED BY <1>1, ConnStart, ConnStep, PTL DEF Spec

(* So too with exchanges, captures and the cache on top. *)
THEOREM ExchangeClosesStreams == ExchangeSpec => []CutClosesStreams
<1>1. ConnInv => CutClosesStreams BY DEF ConnInv, CutInv
<1> QED BY <1>1, ConnStart, ConnStep, ExchangeImplementsConnections, PTL

---------------------------------------------------------------------------
(* The cache                                                               *)

ExchangeRecord ==
  [asset : Assets \cup {NoAsset}, accept : Accepts \cup {<<>>},
   body : {"open", "ended"}, answered : BOOLEAN, timer : BOOLEAN,
   capture : {"none", "held", "dropped"}, size : Nat, freshness : Nat, receivedAt : Nat]

(* Whoever may still put something into the cache asked for an asset, and  *)
(* its headers came no later than now.                                     *)
Sound(x, time) ==
  /\ x.receivedAt <= time
  /\ x.asset # NoAsset \/ (x.answered /\ x.capture = "held") => x.accept \in Accepts

ExchangesSound ==
  /\ clock \in Nat /\ exchange \in [Conns -> ExchangeRecord]
  /\ \A c \in Conns : Sound(exchange[c], clock)

(* An entry is fresh, and its coding suits the client it was made for.     *)
EntrySound(e) ==
  /\ e.expiresAt <= e.freshUntil
  /\ e.coding # Coding!None => Coding!Q(e.accept, e.coding) > 0

EntriesSound == \A e \in Entries : EntrySound(e)

CacheInv == ExchangesSound /\ EntriesSound /\ CutIsForgotten

(* An exchange without a request or an answer is sound. *)
LEMMA NoExchangeSound ==
  ASSUME NEW time \in Nat
  PROVE  /\ 0 <= time /\ NoExchange.receivedAt = 0 /\ NoExchange.asset = NoAsset
         /\ NoExchange \in ExchangeRecord /\ Sound(NoExchange, time)
         /\ Answered \in ExchangeRecord /\ Sound(Answered, time)
         /\ Dropped \in ExchangeRecord /\ Sound(Dropped, time)
<1>1. NoExchange \in ExchangeRecord BY DEF NoExchange, ExchangeRecord
<1>2. Answered \in ExchangeRecord BY <1>1 DEF Answered, ExchangeRecord
<1>3. Dropped \in ExchangeRecord BY <1>2 DEF Dropped, ExchangeRecord
<1>4. /\ NoExchange.receivedAt = 0 /\ NoExchange.asset = NoAsset
      /\ NoExchange.capture = "none"
  BY DEF NoExchange
<1>5. /\ Answered.receivedAt = 0 /\ Answered.asset = NoAsset
      /\ Answered.capture = "none"
  BY DEF NoExchange, Answered
<1>6. /\ Dropped.receivedAt = 0 /\ Dropped.asset = NoAsset
      /\ Dropped.capture = "dropped"
  BY DEF NoExchange, Answered, Dropped
<1>7. 0 <= time OBVIOUS
<1> QED BY <1>1, <1>2, <1>3, <1>4, <1>5, <1>6, <1>7 DEF Sound

(* One exchange gets a sound record. *)
LEMMA OneSound ==
  ASSUME ExchangesSound, UNCHANGED clock, NEW c \in Conns, NEW x \in ExchangeRecord,
         Sound(x, clock), exchange' = [exchange EXCEPT ![c] = x]
  PROVE  ExchangesSound'
  BY DEF ExchangesSound

(* What is left of destroyed exchanges is sound. *)
LEMMA RemainsSound ==
  ASSUME ExchangesSound
  PROVE  /\ Remains \in [Conns -> ExchangeRecord]
         /\ \A c \in Conns : Sound(Remains[c], clock)
<1> SUFFICES ASSUME NEW c \in Conns
             PROVE  Remains[c] \in ExchangeRecord /\ Sound(Remains[c], clock)
  BY DEF Remains
<1>1. PICK k \in {"none", "held", "dropped"} : k = exchange[c].capture
  BY DEF ExchangesSound, ExchangeRecord
<1>2. PICK x : x = [NoExchange EXCEPT !.capture = k] OBVIOUS
<1>3. x \in ExchangeRecord /\ Sound(x, clock)
  <2>1. /\ 0 <= clock /\ NoExchange.receivedAt = 0 /\ NoExchange.asset = NoAsset
        /\ NoExchange \in ExchangeRecord
    BY NoExchangeSound DEF ExchangesSound
  <2>2. x \in ExchangeRecord BY <1>2, <2>1 DEF ExchangeRecord
  <2>3. /\ x.receivedAt = NoExchange.receivedAt /\ x.asset = NoExchange.asset
        /\ x.answered = FALSE
    BY <1>2 DEF NoExchange
  <2> QED BY <2>1, <2>2, <2>3 DEF Sound
<1>4. Remains[c] \in {x, exchange[c]} BY <1>1, <1>2 DEF Remains
<1> QED BY <1>3, <1>4 DEF ExchangesSound

(* Every step keeps the exchanges sound. *)
LEMMA ExchangesStep ==
  ASSUME ExchangesSound, [ExchangeNext]_exchangeVars
  PROVE  ExchangesSound'
<1>1. clock \in Nat /\ \A c \in Conns : exchange[c] \in ExchangeRecord /\ Sound(exchange[c], clock)
  BY DEF ExchangesSound
<1>0. /\ 0 <= clock /\ NoExchange.receivedAt = 0 /\ NoExchange.asset = NoAsset
      /\ NoExchange \in ExchangeRecord /\ Answered \in ExchangeRecord
  BY <1>1, NoExchangeSound
<1>2. ASSUME exchange' = Remains, UNCHANGED clock PROVE ExchangesSound'
  BY <1>1, <1>2, RemainsSound DEF ExchangesSound
<1>3. ASSUME NEW c \in Conns, UNCHANGED clock,
             exchange' = [exchange EXCEPT ![c] = NoExchange]
      PROVE  ExchangesSound'
  BY <1>1, <1>3, NoExchangeSound, OneSound
<1>4. CASE ExpiryTick \/ CloseAll \/ Revoked \/ NotRevoked
  BY <1>2, <1>4 DEF ExpiryTick, CloseAll, Revoked, NotRevoked, Unexchanged
<1>5. ASSUME NEW d \in Devices, SignOut(d) \/ DeviceStep(d) PROVE ExchangesSound'
  BY <1>2, <1>5 DEF SignOut, DeviceStep, Unexchanged
<1>6. CASE Tick
  <2>1. clock' \in Nat /\ clock <= clock' /\ exchange' = exchange BY <1>1, <1>6 DEF Tick
  <2>2. \A c \in Conns : Sound(exchange[c], clock')
    BY <1>1, <2>1 DEF Sound, ExchangeRecord
  <2> QED BY <2>1, <2>2 DEF ExchangesSound
<1>7. ASSUME UNCHANGED <<exchange, clock>> PROVE ExchangesSound'
  BY <1>7 DEF ExchangesSound
<1>8. ASSUME NEW d \in Devices, NEW a \in Assets, NEW p \in Accepts, Hit(d, a, p)
      PROVE  ExchangesSound'
  BY <1>7, <1>8 DEF Hit
<1>9. ASSUME NEW c \in Conns, NEW d \in Devices, NEW a \in Assets, NEW p \in Accepts,
             Get(c, d, a, p)
      PROVE  ExchangesSound'
  <2>1. PICK x : x = [NoExchange EXCEPT !.asset = a, !.accept = p] OBVIOUS
  <2>2. x \in ExchangeRecord BY <1>0, <2>1 DEF ExchangeRecord
  <2>3. x.receivedAt = NoExchange.receivedAt /\ x.accept = p BY <2>1 DEF NoExchange
  <2>4. Sound(x, clock) BY <1>0, <2>3 DEF Sound
  <2> QED BY <2>4, <1>9, <2>1, <2>2, OneSound DEF Get
<1>10. ASSUME NEW c \in Conns, NEW d \in Devices, Post(c, d) PROVE ExchangesSound'
  <2>1. PICK x : x = [NoExchange EXCEPT !.body = "open"] OBVIOUS
  <2>2. x \in ExchangeRecord BY <1>0, <2>1 DEF ExchangeRecord
  <2>3. /\ x.receivedAt = NoExchange.receivedAt /\ x.asset = NoExchange.asset
        /\ x.answered = FALSE
    BY <2>1 DEF NoExchange
  <2>4. Sound(x, clock) BY <1>0, <2>3 DEF Sound
  <2> QED BY <2>4, <1>10, <2>1, <2>2, OneSound DEF Post
<1>11. ASSUME NEW c \in Conns, BodyEnds(c) PROVE ExchangesSound'
  <2>1. PICK r \in ExchangeRecord, t \in BOOLEAN : r = exchange[c] /\ t = Armed(c)
    BY <1>1 DEF Armed
  <2>2. PICK x : x = [r EXCEPT !.body = "ended", !.timer = t] OBVIOUS
  <2>3. x \in ExchangeRecord /\ Sound(x, clock)
    BY <1>1, <2>1, <2>2 DEF ExchangeRecord, Sound
  <2>4. exchange' = [exchange EXCEPT ![c] = x]
    BY <1>11, <2>1, <2>2 DEF BodyEnds, ExchangesSound
  <2> QED BY <1>11, <2>3, <2>4, OneSound DEF BodyEnds
<1>12. ASSUME NEW c \in Conns, Headers(c) PROVE ExchangesSound'
  <2>1. PICK r \in ExchangeRecord : r = exchange[c] /\ Sound(r, clock) BY <1>1
  <2>2. CASE \E f \in Freshness : r.asset # NoAsset /\ exchange' = [exchange EXCEPT ![c] =
                [r EXCEPT !.answered = TRUE, !.capture = "held",
                          !.freshness = f, !.receivedAt = clock]]
    <3>0. Freshness \subseteq Nat
      <4>1. Lifetime \in Nat BY ExchangeAssumption DEF ExchangeAssumption
      <4> QED BY <4>1 DEF Freshness
    <3>1. PICK f \in Nat : r.asset # NoAsset /\ exchange' = [exchange EXCEPT ![c] =
                [r EXCEPT !.answered = TRUE, !.capture = "held",
                          !.freshness = f, !.receivedAt = clock]]
      BY <2>2, <3>0
    <3>2. PICK x : x = [r EXCEPT !.answered = TRUE, !.capture = "held",
                                 !.freshness = f, !.receivedAt = clock]
      OBVIOUS
    <3>3. x \in ExchangeRecord BY <1>1, <2>1, <3>1, <3>2 DEF ExchangeRecord
    <3>4. /\ x.receivedAt = clock /\ x.asset = r.asset /\ x.accept = r.accept
      BY <2>1, <3>2 DEF ExchangeRecord
    <3>5. clock <= clock BY <1>1
    <3>6. Sound(x, clock) BY <2>1, <3>1, <3>4, <3>5 DEF Sound
    <3> QED BY <3>6, <1>12, <3>1, <3>2, <3>3, OneSound DEF Headers
  <2>3. CASE exchange' = [exchange EXCEPT ![c] = [Answered EXCEPT !.body = r.body]]
    <3>1. PICK x : x = [Answered EXCEPT !.body = r.body] OBVIOUS
    <3>2. x \in ExchangeRecord
      <4>1. PICK b \in {"open", "ended"} : b = r.body BY DEF ExchangeRecord
      <4>2. x = [Answered EXCEPT !.body = b] BY <3>1, <4>1
      <4> QED BY <1>0, <4>2 DEF ExchangeRecord
    <3>3. /\ x.receivedAt = NoExchange.receivedAt /\ x.asset = NoExchange.asset
          /\ x.capture = "none"
      BY <3>1 DEF Answered, NoExchange
    <3>4. Sound(x, clock) BY <1>0, <3>3 DEF Sound
    <3> QED BY <3>4, <1>12, <2>3, <3>1, <3>2, OneSound DEF Headers
  <2> QED BY <1>12, <2>1, <2>2, <2>3 DEF Headers
<1>13. ASSUME NEW c \in Conns, Chunk(c) PROVE ExchangesSound'
  <2>1. PICK r \in ExchangeRecord, n \in Nat : r = exchange[c] /\ n = exchange[c].size + 1
    BY <1>1 DEF ExchangeRecord
  <2>2. PICK x : x = [r EXCEPT !.size = n] OBVIOUS
  <2>3. x \in ExchangeRecord /\ Sound(x, clock)
    BY <1>1, <2>1, <2>2 DEF ExchangeRecord, Sound
  <2>4. CASE exchange' = [exchange EXCEPT ![c].size = @ + 1]
    <3>1. exchange' = [exchange EXCEPT ![c] = x]
      BY <2>1, <2>2, <2>4 DEF ExchangesSound
    <3> QED BY <1>13, <2>3, <3>1, OneSound DEF Chunk
  <2>5. CASE exchange' = [exchange EXCEPT ![c] = Dropped]
    BY <1>1, <1>13, <2>5, NoExchangeSound, OneSound DEF Chunk
  <2> QED BY <1>13, <2>4, <2>5 DEF Chunk
<1>14. ASSUME NEW c \in Conns, Lost(c) PROVE ExchangesSound'
  <2>1. CASE exchange' = [Remains EXCEPT ![c].capture = "dropped"]
    <3>1. PICK f \in [Conns -> ExchangeRecord] : f = Remains /\ \A k \in Conns : Sound(f[k], clock)
      BY RemainsSound
    <3>2. PICK r \in ExchangeRecord : r = f[c] /\ Sound(r, clock) BY <3>1
    <3>3. PICK x : x = [r EXCEPT !.capture = "dropped"] OBVIOUS
    <3>4. x \in ExchangeRecord /\ Sound(x, clock) BY <3>2, <3>3 DEF ExchangeRecord, Sound
    <3>5. exchange' = [f EXCEPT ![c] = x] BY <2>1, <3>1, <3>2, <3>3
    <3> QED BY <1>1, <1>14, <3>1, <3>4, <3>5 DEF Lost, ExchangesSound
  <2> QED BY <1>2, <1>14, <2>1 DEF Lost
<1>15. ASSUME NEW c \in Conns, Ends(c) \/ Refused(c) \/ FirstByteTimeout(c) \/ Gone(c)
       PROVE  ExchangesSound'
  BY <1>3, <1>15 DEF Ends, Refused, FirstByteTimeout, Gone, Over
<1>16. CASE UNCHANGED exchangeVars BY <1>7, <1>16 DEF exchangeVars
<1> QED
  BY <1>4, <1>5, <1>6, <1>8, <1>9, <1>10, <1>11, <1>12, <1>13, <1>14, <1>15, <1>16
  DEF ExchangeNext

(* What the operations on the cache leave in it *)
LEMMA CacheContents ==
  ASSUME NEW ch, NEW E, NEW e, NEW size
  PROVE  /\ Stored(Without(ch, E)) = Stored(ch) \ E
         /\ Stored(WithLast(ch, e)) = Stored(ch) \cup {e}
         /\ Stored(MakeRoom(ch, size)) \subseteq Stored(ch)
<1>1. \A D : Stored(Without(ch, D)) = Stored(ch) \ D BY DEF Stored, Without
<1>2. Stored(WithLast(ch, e)) = Stored(ch) \cup {e} BY DEF Stored, WithLast
<1>3. \E D : MakeRoom(ch, size) = Without(ch, D) BY DEF MakeRoom
<1> QED BY <1>1, <1>2, <1>3

(* A coding that the negotiation chooses is one the client accepts. *)
LEMMA ChosenAccepted ==
  ASSUME NEW p \in Accepts, Coding!SelectContentEncoding(p) # Coding!None
  PROVE  Coding!Q(p, Coding!SelectContentEncoding(p)) > 0
<1>1. Coding!IsPreferences(p) BY ExchangeAssumption DEF ExchangeAssumption
<1>2. \A c : Coding!Q(p, c) \in Nat
  BY <1>1 DEF Coding!IsPreferences, Coding!Weights, Coding!Q
<1>3. PICK br \in Nat, gzip \in Nat : br = Coding!Q(p, "br") /\ gzip = Coding!Q(p, "gzip")
  BY <1>2
<1> QED BY <1>3 DEF Coding!SelectContentEncoding, Coding!None

(* put adds at most one entry, which is fresh, suits the client and is of  *)
(* the device.                                                             *)
LEMMA PutEntries ==
  ASSUME ExchangesSound, NEW d, NEW c \in Conns,
         exchange[c].answered, exchange[c].capture = "held"
  PROVE  \A e \in Stored(Put(d, exchange[c])) :
           e \in Entries \/ (EntrySound(e) /\ e.device = d)
<1>1. PICK x \in ExchangeRecord : x = exchange[c] BY DEF ExchangesSound
<1>2. PICK rest : rest = Without(Swept, Of(d, x.asset, x.accept) \ Expired) OBVIOUS
<1>3. PICK size : size = x.size + Overhead OBVIOUS
<1>4. PICK entry :
        entry = [device |-> d, asset |-> x.asset, accept |-> x.accept,
                 coding |-> CodingOf(x), bytes |-> size, expiresAt |-> clock + Remaining(x),
                 freshUntil |-> x.receivedAt + x.freshness]
  OBVIOUS
<1>5. \/ Put(d, x) = rest
      \/ Put(d, x) = Swept
      \/ Remaining(x) # 0 /\ Put(d, x) = WithLast(MakeRoom(rest, size), entry)
  BY <1>2, <1>3, <1>4 DEF Put
<1>6. Stored(Swept) \subseteq Entries BY CacheContents DEF Swept, Entries
<1>7. Stored(rest) \subseteq Entries
  <2>1. PICK now, E : rest = Without(now, E) /\ Stored(now) \subseteq Entries
    BY <1>2, <1>6
  <2>2. Stored(rest) = Stored(now) \ E BY <2>1, CacheContents
  <2> QED BY <2>1, <2>2
<1>8. Stored(WithLast(MakeRoom(rest, size), entry)) \subseteq Entries \cup {entry}
  <2>1. PICK room : room = MakeRoom(rest, size) OBVIOUS
  <2>2. Stored(room) \subseteq Stored(rest) BY <2>1, CacheContents
  <2>3. Stored(WithLast(room, entry)) = Stored(room) \cup {entry} BY CacheContents
  <2> QED BY <1>7, <2>1, <2>2, <2>3
<1>9. Remaining(x) # 0 => entry.expiresAt <= entry.freshUntil
  <2>1. clock \in Nat /\ x.receivedAt \in Nat /\ x.freshness \in Nat /\ x.receivedAt <= clock
    BY <1>1 DEF ExchangesSound, Sound, ExchangeRecord
  <2>2. /\ entry.expiresAt = clock + Remaining(x)
        /\ entry.freshUntil = x.receivedAt + x.freshness
    BY <1>4
  <2> QED BY <2>1, <2>2 DEF Remaining
<1>10. entry.coding # Coding!None => Coding!Q(entry.accept, entry.coding) > 0
  <2>1. x.accept \in Accepts BY <1>1 DEF ExchangesSound, Sound
  <2>2. entry.coding = CodingOf(x) /\ entry.accept = x.accept BY <1>4
  <2> QED BY <2>1, <2>2, ChosenAccepted DEF CodingOf
<1>11. entry.device = d BY <1>4
<1> QED BY <1>1, <1>5, <1>6, <1>7, <1>8, <1>9, <1>10, <1>11 DEF EntrySound

(* A step that adds nothing to the cache, cuts no device more and fails no *)
(* write leaves the cache as sound as it was.                              *)
LEMMA FewerEntries ==
  ASSUME CacheInv, Entries' \subseteq Entries, failures' = 0 => failures = 0 /\ cut' = cut
  PROVE  EntriesSound' /\ CutIsForgotten'
  BY DEF CacheInv, EntriesSound, EntrySound, CutIsForgotten

(* A device that is cut loses its entries in the same step. *)
LEMMA CutEntries ==
  ASSUME CacheInv, NEW D, cache' = Forgotten(D), cut' = cut \cup D, UNCHANGED failures
  PROVE  EntriesSound' /\ CutIsForgotten'
<1>1. Entries' = {e \in Entries : e.device \notin D}
  <2>1. Entries' = Stored(Forgotten(D)) BY DEF Entries
  <2> QED BY <2>1, CacheContents DEF Forgotten, Entries
<1> QED BY <1>1 DEF CacheInv, EntriesSound, EntrySound, CutIsForgotten

(* Every step keeps the invariant of the cache. *)
LEMMA CacheStep ==
  ASSUME ConnInv, CacheInv, [ExchangeNext]_exchangeVars
  PROVE  CacheInv'
<1>1. ExchangesSound' BY ExchangesStep DEF CacheInv
<1>2. failures \in Nat BY DEF ConnInv, ConnShape
<1>3. ASSUME UNCHANGED <<cache, cut, failures>> PROVE CacheInv'
  BY <1>1, <1>3, FewerEntries DEF Entries, CacheInv
<1>4. CASE ExpiryTick
  <2>1. UNCHANGED <<cut, failures>> BY <1>4 DEF ExpiryTick, ExpiryTimer, storeVars
  <2>2. Entries' \subseteq Entries
    BY <1>4, CacheContents DEF ExpiryTick, Forgotten, Entries
  <2> QED BY <1>1, <2>1, <2>2, FewerEntries DEF CacheInv
<1>5. CASE CloseAll
  <2>1. UNCHANGED <<cut, failures>> BY <1>5 DEF CloseAll, Close, storeVars
  <2>2. Entries' = {} BY <1>5 DEF CloseAll, EmptyCache, Entries, Stored
  <2> QED BY <1>1, <2>1, <2>2, FewerEntries DEF CacheInv
<1>6. CASE Revoked
  BY <1>1, <1>6, CutEntries DEF Revoked, RevokeSaved, CacheInv
<1>7. CASE NotRevoked
  <2>1. failures' # 0 /\ Entries' = Entries
    BY <1>2, <1>7 DEF NotRevoked, RevokeFails, Entries
  <2> QED BY <1>1, <2>1, FewerEntries DEF CacheInv
<1>8. ASSUME NEW d \in Devices, SignOut(d) PROVE CacheInv'
  BY <1>1, <1>8, CutEntries DEF SignOut, Logout, CacheInv
<1>9. ASSUME NEW d \in Devices, DeviceStep(d) PROVE CacheInv'
  BY <1>3, <1>9 DEF DeviceStep, Expire, Reissue, RevokeBegin
<1>10. CASE Tick BY <1>3, <1>10 DEF Tick, vars
<1>11. ASSUME NEW d \in Devices, NEW a \in Assets, NEW p \in Accepts, Hit(d, a, p)
       PROVE  CacheInv'
  <2>1. PICK e \in Entries : cache' = WithLast(Without(Swept, {e}), e)
    BY <1>11 DEF Hit, Of
  <2>2. Entries' \subseteq Entries BY <2>1, CacheContents DEF Swept, Entries
  <2>3. UNCHANGED <<cut, failures>> BY <1>11 DEF Hit, vars
  <2> QED BY <1>1, <2>2, <2>3, FewerEntries DEF CacheInv
<1>12. ASSUME NEW c \in Conns, NEW d \in Devices, NEW a \in Assets, NEW p \in Accepts,
              Get(c, d, a, p)
       PROVE  CacheInv'
  <2>1. Entries' \subseteq Entries BY <1>12, CacheContents DEF Get, Swept, Entries
  <2>2. UNCHANGED <<cut, failures>> BY <1>12 DEF Get, Accept, storeVars
  <2> QED BY <1>1, <2>1, <2>2, FewerEntries DEF CacheInv
<1>13. ASSUME NEW c \in Conns, NEW d \in Devices, Post(c, d) PROVE CacheInv'
  BY <1>3, <1>13 DEF Post, Accept, storeVars
<1>14. ASSUME NEW c \in Conns, BodyEnds(c) \/ Headers(c) \/ Chunk(c) PROVE CacheInv'
  BY <1>3, <1>14 DEF BodyEnds, Headers, Chunk, vars
<1>15. ASSUME NEW c \in Conns, Refused(c) \/ FirstByteTimeout(c) \/ Lost(c) \/ Gone(c)
       PROVE  CacheInv'
  BY <1>3, <1>15 DEF Refused, FirstByteTimeout, Lost, Gone, Finish, CloseEvent, Breaks,
                     Release, storeVars
<1>16. ASSUME NEW c \in Conns, Ends(c) PROVE CacheInv'
  <2>1. UNCHANGED <<cut, failures>> /\ Live(c) /\ exchange[c].answered
    BY <1>16 DEF Ends, Finish, Release, storeVars
  <2>2. CASE cache' = cache BY <1>3, <2>1, <2>2
  <2>3. CASE exchange[c].capture = "held" /\ cache' = Put(conns[c].device, exchange[c])
    <3>1. \A e \in Entries' : e \in Entries \/ (EntrySound(e) /\ e.device = conns[c].device)
      BY <2>1, <2>3, PutEntries DEF CacheInv, Entries
    <3>2. failures = 0 => conns[c].device \notin cut
      BY <2>1 DEF ConnInv, CutInv, CutClosesStreams
    <3>3. EntriesSound' BY <3>1 DEF CacheInv, EntriesSound, EntrySound
    <3>4. CutIsForgotten' BY <2>1, <3>1, <3>2 DEF CacheInv, CutIsForgotten
    <3> QED BY <1>1, <3>3, <3>4 DEF CacheInv
  <2> QED BY <1>16, <2>2, <2>3 DEF Ends
<1>17. CASE UNCHANGED exchangeVars BY <1>3, <1>17 DEF exchangeVars, vars
<1> QED
  BY <1>4, <1>5, <1>6, <1>7, <1>8, <1>9, <1>10, <1>11, <1>12, <1>13, <1>14, <1>15, <1>16, <1>17
  DEF ExchangeNext

(* The invariant of the cache holds in every state. *)
LEMMA CacheAlways == ExchangeSpec => []CacheInv
<1>1. ExchangeInit => CacheInv
  <2> SUFFICES ASSUME ExchangeInit PROVE CacheInv OBVIOUS
  <2>1. clock = 0 /\ cache = EmptyCache /\ exchange = [c \in Conns |-> NoExchange]
    BY DEF ExchangeInit
  <2>2. ExchangesSound BY <2>1, NoExchangeSound DEF ExchangesSound
  <2>3. Entries = {} BY <2>1 DEF Entries, Stored, EmptyCache
  <2> QED BY <2>2, <2>3 DEF CacheInv, EntriesSound, CutIsForgotten
<1>2. ExchangeSpec => []ConnInv
  BY ConnStart, ConnStep, ExchangeImplementsConnections, PTL
<1> QED BY <1>1, <1>2, CacheStep, PTL DEF ExchangeSpec

(* "The caller must ... invalidate a session on revocation": as long as    *)
(* every write succeeded nothing of a device whose revocation or sign-out  *)
(* was acknowledged is in the cache, and no exchange that was running then *)
(* brings something back (deleteSession, src/static-cache.ts).             *)
THEOREM CutIsForgottenHolds == ExchangeSpec => []CutIsForgotten
<1>1. CacheInv => CutIsForgotten BY DEF CacheInv
<1> QED BY <1>1, CacheAlways, PTL

(* No entry outlives the freshness its upstream gave it when its headers   *)
(* came, however long the body took (proxy.ts:573).                        *)
THEOREM CachedIsFreshHolds == ExchangeSpec => []CachedIsFresh
<1>1. CacheInv => CachedIsFresh BY DEF CacheInv, EntriesSound, EntrySound, CachedIsFresh
<1> QED BY <1>1, CacheAlways, PTL

(* Whoever meets an entry accepts its coding: what an earlier client had   *)
(* negotiated is not served to another that refuses it                     *)
(* (staticCacheRequestKey, src/static-cache.ts).                           *)
THEOREM HitIsAcceptableHolds == ExchangeSpec => []HitIsAcceptable
<1>1. CacheInv => HitIsAcceptable
  BY DEF CacheInv, EntriesSound, EntrySound, HitIsAcceptable, Keyed
<1> QED BY <1>1, CacheAlways, PTL
=============================================================================
