--------------------------- MODULE DecisionProofs ---------------------------
(***************************************************************************)
(* Theorems about what the proxy decides without a state of its own: the   *)
(* coding and the freshness of an answer, the address of a client, the     *)
(* headers that are passed on.  They hold for every configuration and      *)
(* whatever clients and upstream send.  The two state machines among them  *)
(* are small ones that nothing else of the project composes: the pin of    *)
(* the directory browser and the queue of the audit log.                   *)
(***************************************************************************)
EXTENDS ContentCoding, StaticFreshness, Forwarding, BrowsePin, AuditLog, FiniteSetTheorems, TLAPS

---------------------------------------------------------------------------
(***************************************************************************)
(* ContentCoding                                                           *)
(***************************************************************************)

---------------------------------------------------------------------------
(* Declarations *)

(* Weights are natural numbers, and finitely many. *)
LEMMA WeightsFinite == IsFiniteSet(Weights) /\ Weights \subseteq Nat
<1> DEFINE n == 1000
<1>1. n \in Int OBVIOUS
<1> HIDE DEF n
<1>2. IsFiniteSet(0..n) BY <1>1, FS_Interval
<1>3. Weights \subseteq Nat BY DEF Weights
<1> QED BY <1>2, <1>3 DEF Weights, n

(* A set of weights has a lowest one: of the sets of lower weights, which  *)
(* are finite, one contains no other.                                      *)
LEMMA LowestIsLeast ==
  ASSUME NEW W \in SUBSET Weights, W # {}
  PROVE  Lowest(W) \in W /\ \A v \in W : Lowest(W) <= v
<1> DEFINE Below(w) == {v \in W : v < w}
           Sets == {Below(w) : w \in W}
           Order == StrictSubsetOrdering(Weights)
<1>1. IsFiniteSet(Weights) /\ W \subseteq Nat BY WeightsFinite
<1>2. IsWellFoundedOn(Order, SUBSET Weights)
  BY <1>1, FS_FiniteSubsetsOfFinite, FS_StrictSubsetOrderingWellFounded, Zenon
<1>3. Sets \subseteq SUBSET Weights /\ Sets # {} OBVIOUS
<1>4. PICK S \in Sets : \A T \in Sets : <<T, S>> \notin Order
  <2> HIDE DEF Sets, Order
  <2> QED BY <1>2, <1>3, WFMin
<1>5. PICK w \in W : S = Below(w) OBVIOUS
<1>6. \A v \in W : w <= v
  <2> SUFFICES ASSUME NEW v \in W, v < w PROVE FALSE BY <1>1
  <2>1. ASSUME NEW u \in W, u < v PROVE u < w
    <3>1. u \in Nat /\ v \in Nat /\ w \in Nat BY <1>1
    <3> QED BY <2>1, <3>1
  <2>2. v \in Below(w) /\ v \notin Below(v) BY <1>1
  <2>3. <<Below(v), Below(w)>> \in Order
    BY <2>1, <2>2 DEF StrictSubsetOrdering
  <2> QED BY <2>3, <1>4, <1>5
<1> QED BY <1>6 DEF Lowest

(* The weight of a declaration is a weight, also of one that is malformed. *)
LEMMA WeightType ==
  ASSUME NEW d \in Declarations PROVE Weight(d) \in Weights
  BY DEF Declarations, Weight, Weights

(* What encodingPreferences makes of any header gives every coding it      *)
(* names a weight.                                                         *)
LEMMA PreferencesType ==
  ASSUME NEW list, \A i \in DOMAIN list : list[i] \in Declarations
  PROVE  /\ IsPreferences(EncodingPreferences(list))
         /\ \A c \in Named(list) :
              /\ EncodingPreferences(list)[c] \in WeightsOf(list, c)
              /\ \A w \in WeightsOf(list, c) : EncodingPreferences(list)[c] <= w
<1>1. Named(list) \subseteq Codings BY DEF Named, Declarations
<1>2. ASSUME NEW c \in Named(list)
      PROVE  WeightsOf(list, c) \subseteq Weights /\ WeightsOf(list, c) # {}
  BY WeightType DEF Named, WeightsOf
<1>3. ASSUME NEW c \in Named(list)
      PROVE  /\ Lowest(WeightsOf(list, c)) \in WeightsOf(list, c)
             /\ \A w \in WeightsOf(list, c) : Lowest(WeightsOf(list, c)) <= w
  BY <1>2, LowestIsLeast
<1>4. ASSUME NEW c \in Named(list)
      PROVE  Lowest(WeightsOf(list, c)) \in Weights
  BY <1>2, <1>3
<1>5. EncodingPreferences(list) \in [Named(list) -> Weights]
  BY <1>4 DEF EncodingPreferences
<1> QED BY <1>1, <1>3, <1>5 DEF IsPreferences, EncodingPreferences

(* Every weight the negotiation compares is a natural number. *)
LEMMA QType ==
  ASSUME NEW p, IsPreferences(p), NEW c
  PROVE  Q(p, c) \in Nat /\ Identity(p) \in Nat
<1>1. Q(p, c) \in Weights /\ Identity(p) \in Weights
  BY DEF IsPreferences, Q, Identity, Weights
<1> QED BY <1>1, WeightsFinite

(* "A refusal must not be undone by header order": a coding that one       *)
(* declaration refuses, or declares in a way that cannot be read, has      *)
(* weight 0, and is not chosen, whatever the other declarations say and    *)
(* wherever they stand.  (encodingPreferences)                             *)
THEOREM RefusalWins ==
  ASSUME NEW list, \A i \in DOMAIN list : list[i] \in Declarations,
         NEW i \in DOMAIN list, Weight(list[i]) = 0
  PROVE  /\ Q(EncodingPreferences(list), list[i].coding) = 0
         /\ SelectContentEncoding(EncodingPreferences(list)) # list[i].coding
<1> DEFINE p == EncodingPreferences(list)
           c == list[i].coding
<1>1. c \in Named(list) /\ 0 \in WeightsOf(list, c)
  BY DEF Named, WeightsOf
<1>2. p[c] <= 0 /\ p[c] \in Weights /\ DOMAIN p = Named(list)
  BY <1>1, PreferencesType DEF IsPreferences, EncodingPreferences
<1>3. Q(p, c) = 0 BY <1>1, <1>2 DEF Q, Weights
<1>4. c # None BY DEF Declarations, Codings, None
<1>5. IsPreferences(p) BY PreferencesType
<1>6. Q(p, "br") \in Nat /\ Q(p, "gzip") \in Nat
  <2> HIDE DEF p
  <2> QED BY <1>5, QType
<1>7. SelectContentEncoding(p) # c
  <2> HIDE DEF p, c
  <2> QED BY <1>3, <1>4, <1>6 DEF SelectContentEncoding
<1> QED BY <1>3, <1>7

---------------------------------------------------------------------------
(* Negotiation *)

(* "Higher q wins ... an explicit, strictly higher identity weight wins    *)
(* over compression": the coding chosen is one the client accepts, no      *)
(* other supported coding and not the plain body were preferred to it; and *)
(* nothing is encoded only if every supported coding is refused or the     *)
(* plain body is preferred to each.  (selectContentEncoding)               *)
THEOREM ChosenIsBest ==
  ASSUME NEW p, IsPreferences(p)
  PROVE  LET s == SelectContentEncoding(p)
         IN  /\ s # None => /\ s \in {"br", "gzip"} /\ Q(p, s) > 0
                            /\ \A c \in {"br", "gzip"} : Q(p, c) <= Q(p, s)
                            /\ Identity(p) <= Q(p, s)
             /\ s = None => \A c \in {"br", "gzip"} : Q(p, c) = 0 \/ Q(p, c) < Identity(p)
<1>1. Q(p, "br") \in Nat /\ Q(p, "gzip") \in Nat /\ Identity(p) \in Nat
  BY QType
<1> QED BY <1>1 DEF SelectContentEncoding, None

(* "Brotli advertisement does not disable gzip": the gzip-only entry point *)
(* and the negotiation agree on every client that refuses Brotli, and      *)
(* whoever is served gzip by the negotiation would be served it by the     *)
(* entry point too.  (shouldGzipResponse)                                  *)
THEOREM EntryPointsAgree ==
  ASSUME NEW p, IsPreferences(p), NEW a \in Answers
  PROVE  /\ ShouldCompress(a) /\ SelectContentEncoding(p) = "gzip" => ShouldGzip(a, p)
         /\ ShouldGzip(a, p) /\ Q(p, "br") = 0 => SelectContentEncoding(p) = "gzip"
<1>1. Q(p, "br") \in Nat /\ Q(p, "gzip") \in Nat /\ Identity(p) \in Nat
  BY QType
<1> QED BY <1>1 DEF SelectContentEncoding, ShouldGzip, AcceptsGzip, None

---------------------------------------------------------------------------
(* Headers *)

(* "Vary must describe identity responses too, otherwise a cache can       *)
(* poison variants": if two clients are given different representations of *)
(* one answer, the headers of both name Accept-Encoding.  (proxyRequest)   *)
THEOREM VariantsAreDeclared ==
  ASSUME NEW a \in Answers, NEW h \in Headers, NEW p, NEW q,
         Delivered(a, p, h) # Delivered(a, q, h)
  PROVE  \A r \in {p, q} : Delivered(a, r, h).vary \cap {"accept-encoding", "*"} # {}
<1>1. Negotiable(a) BY DEF Delivered
<1>2. ASSUME NEW g \in Headers
      PROVE  MergeVary(g).vary \cap {"accept-encoding", "*"} # {}
  BY DEF MergeVary, Headers
<1>3. ASSUME NEW c \in {"br", "gzip"}
      PROVE  [h EXCEPT !.length = FALSE, !.encoding = c, !.digests = @ \ BodyDigests,
                       !.etag = IF @ = "strong" THEN "weak" ELSE @] \in Headers
  BY DEF Headers
<1>4. ASSUME NEW r, Negotiated(a, r) # None PROVE Negotiated(a, r) \in {"br", "gzip"}
  BY <1>4 DEF Negotiated, SelectContentEncoding
<1>5. ASSUME NEW r PROVE Delivered(a, r, h).vary \cap {"accept-encoding", "*"} # {}
  <2>1. CASE Negotiated(a, r) = None BY <2>1, <1>1, <1>2 DEF Delivered
  <2>2. CASE Negotiated(a, r) # None BY <2>2, <1>1, <1>2, <1>3, <1>4 DEF Delivered, Encode
  <2> QED BY <2>1, <2>2
<1> QED BY <1>5

(* An answer that is encoded on its way names a coding the client accepts, *)
(* and says of the body it had neither the length nor a strong etag nor a  *)
(* digest, but for a Repr-Digest, which stays.  Any other is delivered     *)
(* with all of them.  (applyContentEncodingResponseHeaders)                *)
THEOREM OnlyReprDigestIsStale ==
  ASSUME NEW a \in Answers, NEW h \in Headers, NEW p, IsPreferences(p)
  PROVE  LET d == Delivered(a, p, h)
         IN  IF Negotiated(a, p) = None
             THEN d = [h EXCEPT !.vary = d.vary]
             ELSE /\ ~d.length /\ d.digests = h.digests \cap {"repr-digest"} /\ d.etag # "strong"
                  /\ d.encoding = SelectContentEncoding(p) /\ Q(p, d.encoding) > 0
<1>1. CASE Negotiated(a, p) = None
  BY <1>1 DEF Delivered, MergeVary, Headers
<1>2. CASE Negotiated(a, p) # None
  <2>1. Negotiable(a) /\ Negotiated(a, p) = SelectContentEncoding(p)
    BY <1>2 DEF Negotiated
  <2>2. SelectContentEncoding(p) # None BY <1>2, <2>1
  <2>3. Q(p, SelectContentEncoding(p)) > 0 BY <2>2, ChosenIsBest
  <2>4. Delivered(a, p, h) = Encode(h, SelectContentEncoding(p))
    BY <1>2, <2>1 DEF Delivered
  <2>5. h.digests \ BodyDigests = h.digests \cap {"repr-digest"}
    BY DEF Headers, BodyDigests
  <2> QED BY <1>2, <2>3, <2>4, <2>5 DEF Encode, MergeVary, Headers, None
<1> QED BY <1>1, <1>2

---------------------------------------------------------------------------
(***************************************************************************)
(* StaticFreshness                                                         *)
(***************************************************************************)

(* Metadata that is not malformed says one thing of each field. *)
LEMMA SaidOnce ==
  ASSUME NEW m \in Metadata, ~Malformed(m)
  PROVE  /\ \A i \in DOMAIN m.maxAges : m.maxAges[i].seconds = m.maxAges[1].seconds
         /\ Said(m.expires) => DOMAIN m.expires = {1}
<1>1. ASSUME NEW i \in DOMAIN m.maxAges PROVE m.maxAges[i].seconds = m.maxAges[1].seconds
  <2>1. 1 \in DOMAIN m.maxAges BY DEF Metadata
  <2> QED BY <2>1 DEF Malformed, Contradictory
<1>2. Said(m.expires) => DOMAIN m.expires = {1}
  <2>1. Len(m.expires) \in Nat /\ DOMAIN m.expires = 1..Len(m.expires) BY DEF Metadata
  <2> QED BY <2>1 DEF Malformed, Ambiguous, Said
<1> QED BY <1>1, <1>2

(* What is read of a field is a number if the field is there. *)
LEMMA MetadataTypes ==
  ASSUME NEW m \in Metadata, NEW r \in Nat
  PROVE  /\ Said(m.maxAges) => m.maxAges[1].seconds \in Nat
         /\ Said(m.expires) => m.expires[1].ms \in Int
         /\ Said(m.dates) => m.dates[1].ms \in Int
         /\ Said(m.ages) => m.ages[1].seconds \in Nat
         /\ Age(m) \in Nat /\ DateOr(m, r) \in Int /\ StoredDate(m, r) \in Int
<1>1. ASSUME NEW S, NEW s \in Seq(S), Said(s) PROVE s[1] \in S
  BY <1>1 DEF Said
<1>2. /\ m.maxAges \in Seq(Delta) /\ m.ages \in Seq(Delta)
      /\ m.dates \in Seq(HttpDate) /\ m.expires \in Seq(HttpDate)
  BY DEF Metadata
<1>3. /\ \A d \in Delta : d.seconds \in Nat
      /\ \A d \in HttpDate : d.ms \in Int
  BY DEF Delta, HttpDate
<1>4. Said(m.maxAges) => m.maxAges[1].seconds \in Nat BY <1>1, <1>2, <1>3
<1>5. Said(m.expires) => m.expires[1].ms \in Int BY <1>1, <1>2, <1>3
<1>6. Said(m.dates) => m.dates[1].ms \in Int BY <1>1, <1>2, <1>3
<1>7. Said(m.ages) => m.ages[1].seconds \in Nat BY <1>1, <1>2, <1>3
<1>8. Age(m) \in Nat BY <1>7 DEF Age
<1>9. DateOr(m, r) \in Int /\ StoredDate(m, r) \in Int BY <1>6 DEF DateOr, StoredDate
<1> QED BY <1>4, <1>5, <1>6, <1>7, <1>8, <1>9

(* An answer that is stored is well formed, and expires no later than its  *)
(* lifetime counted from the arrival of its headers: the time the delivery *)
(* took is not added.                                                      *)
LEMMA DeliveryIsCounted ==
  ASSUME NEW m \in Metadata, NEW r \in Nat, NEW w \in Nat, NEW t \in Nat, IsHit(m, r, w, t)
  PROVE  /\ ~Malformed(m)
         /\ t - r < DefaultTtl
         /\ t - r < Lifetime(m, r) - CurrentAge(m, r)
<1> DEFINE ttl == StaticResponseTtlMs(m, r)
           life == Lifetime(m, r) - CurrentAge(m, r)
<1>1. Lifetime(m, r) \in Int /\ CurrentAge(m, r) \in Int
  BY MetadataTypes DEF Lifetime, CurrentAge, Greater, DefaultTtl
<1>2. life \in Int BY <1>1
<1>3. ttl = IF Malformed(m) THEN 0 ELSE Greater(0, Lesser(DefaultTtl, life))
  BY DEF StaticResponseTtlMs
<1> HIDE DEF ttl, life
<1>4. ttl \in Nat BY <1>2, <1>3 DEF Greater, Lesser, DefaultTtl
<1>5. r <= w /\ w <= t /\ Lesser(DefaultTtl, Greater(0, ttl - (w - r))) # 0
      /\ t < w + Lesser(DefaultTtl, Greater(0, ttl - (w - r)))
  BY DEF IsHit, IsStored, ExpiresAt, TtlAtFinish, ttl
<1>6. ttl > 0 /\ t - r < ttl
  BY <1>4, <1>5 DEF Greater, Lesser, DefaultTtl
<1>7. ~Malformed(m) BY <1>3, <1>6
<1>8. ttl <= DefaultTtl /\ ttl <= life
  BY <1>2, <1>3, <1>6, <1>7 DEF Greater, Lesser, DefaultTtl
<1> QED BY <1>2, <1>4, <1>6, <1>7, <1>8 DEF DefaultTtl, life

(* No hit is older than the cap, counted from the arrival of the answer    *)
(* and not from the end of a delivery that a slow client drew out.         *)
THEOREM HitIsRecent ==
  ASSUME NEW m \in Metadata, NEW r \in Nat, NEW w \in Nat, NEW t \in Nat, IsHit(m, r, w, t)
  PROVE  t < r + DefaultTtl
BY DeliveryIsCounted DEF DefaultTtl

(* Without a max-age a hit comes before every Expires the answer had, also *)
(* when upstream's clock, which Date and Expires are read from, is ahead   *)
(* of or behind the proxy's, and however often either field was sent.      *)
THEOREM HitBeforeExpires ==
  ASSUME NEW m \in Metadata, NEW r \in Nat, NEW w \in Nat, NEW t \in Nat, IsHit(m, r, w, t),
         ~Said(m.maxAges), NEW i \in DOMAIN m.expires
  PROVE  t < m.expires[i].ms
<1>1. Said(m.expires) BY DEF Said, Metadata
<1>2. i = 1 BY <1>1, DeliveryIsCounted, SaidOnce
<1>3. Age(m) \in Nat /\ DateOr(m, r) \in Int /\ m.expires[1].ms \in Int
  BY <1>1, MetadataTypes
<1>4. CurrentAge(m, r) \in Int /\ CurrentAge(m, r) >= r - DateOr(m, r)
  BY <1>3 DEF CurrentAge, Greater
<1>5. Lifetime(m, r) = m.expires[1].ms - DateOr(m, r) BY <1>1 DEF Lifetime
<1>6. t - r < Lifetime(m, r) - CurrentAge(m, r) BY DeliveryIsCounted
<1> QED BY <1>2, <1>3, <1>4, <1>5, <1>6

(* The Age of a hit never passes any max-age upstream set, also if there   *)
(* was more than one.  For an answer without a Date it may by one second:  *)
(* the Date stored in its place lost the milliseconds of the arrival, and  *)
(* the lifetime was computed without that loss.                            *)
THEOREM AgeWithinMaxAge ==
  ASSUME NEW m \in Metadata, NEW r \in Nat, NEW w \in Nat, NEW t \in Nat, IsHit(m, r, w, t),
         NEW i \in DOMAIN m.maxAges
  PROVE  ServedAge(m, r, t) <= m.maxAges[i].seconds + (IF Said(m.dates) THEN 0 ELSE 1)
<1> DEFINE max == m.maxAges[i].seconds
           extra == IF Said(m.dates) THEN 0 ELSE 1
           initial == InitialAge(m, r)
           age == CurrentAge(m, r)
<1>1. Said(m.maxAges) BY DEF Said, Metadata
<1>2. max = m.maxAges[1].seconds BY DeliveryIsCounted, SaidOnce
<1>3. max \in Nat BY <1>1, <1>2, MetadataTypes
<1>4. Age(m) \in Nat /\ DateOr(m, r) \in Int /\ StoredDate(m, r) \in Int BY MetadataTypes
<1>5. age \in Int /\ initial \in Int /\ initial <= age + 1000 * extra
  <2>1. CASE Said(m.dates)
    <3>1. StoredDate(m, r) = DateOr(m, r) BY <2>1 DEF StoredDate, DateOr
    <3> QED BY <1>4, <2>1, <3>1 DEF CurrentAge, InitialAge, Greater
  <2>2. CASE ~Said(m.dates)
    <3>1. r - StoredDate(m, r) <= 1000 BY <2>2 DEF StoredDate
    <3>2. DateOr(m, r) = r BY <2>2 DEF DateOr
    <3> QED BY <1>4, <2>2, <3>1, <3>2 DEF CurrentAge, InitialAge, Greater
  <2> QED BY <2>1, <2>2
<1>6. t - r < 1000 * max - age
  <2>1. Lifetime(m, r) = 1000 * max BY <1>1, <1>2 DEF Lifetime
  <2> QED BY <2>1, DeliveryIsCounted
<1>7. extra \in Nat OBVIOUS
<1> HIDE DEF max, extra, initial, age
<1>8. initial + (t - r) + 999 < 1000 * (max + extra + 1)
  BY <1>3, <1>5, <1>6, <1>7
<1>9. (initial + (t - r) + 999) \div 1000 <= max + extra
  BY <1>3, <1>5, <1>7, <1>8
<1> QED BY <1>9 DEF ServedAge, max, extra, initial

(* The Age of a hit is never too young: it covers the time since upstream  *)
(* made the answer, and what the caches before the proxy reported plus the *)
(* time the proxy held it.                                                 *)
THEOREM AgeIsHonest ==
  ASSUME NEW m \in Metadata, NEW r \in Nat, NEW t \in Nat, r <= t
  PROVE  /\ Said(m.dates) => 1000 * ServedAge(m, r, t) >= t - m.dates[1].ms
         /\ Said(m.ages) => ServedAge(m, r, t) * 1000 >= 1000 * m.ages[1].seconds + (t - r)
<1> DEFINE x == InitialAge(m, r) + (t - r)
<1>1. /\ Said(m.dates) => m.dates[1].ms \in Int
      /\ Said(m.ages) => m.ages[1].seconds \in Nat
  BY MetadataTypes
<1>2. Age(m) \in Nat /\ StoredDate(m, r) \in Int BY MetadataTypes
<1>3. /\ InitialAge(m, r) \in Int
      /\ InitialAge(m, r) >= Age(m)
      /\ InitialAge(m, r) >= r - StoredDate(m, r)
  BY <1>2 DEF InitialAge, Greater
<1>4. x \in Int /\ ServedAge(m, r, t) = (x + 999) \div 1000 BY <1>3 DEF ServedAge
<1> HIDE DEF x
<1>5. ServedAge(m, r, t) \in Int /\ 1000 * ServedAge(m, r, t) >= x BY <1>4
<1> QED BY <1>1, <1>2, <1>3, <1>5 DEF x, Age, StoredDate

---------------------------------------------------------------------------
(***************************************************************************)
(* Addresses and Forwarding                                                *)
(***************************************************************************)

(* Two addresses have their first n bits in common. *)
SamePrefix(a, b, n) == \A k \in 0..(n - 1) : a[k] = b[k]

---------------------------------------------------------------------------
(* Masks *)

(* The mask of a v4 rule keeps the first bits, all 32 and none included:   *)
(* a shift by 32 would have kept all of them for prefix 0.                 *)
LEMMA MaskKeepsPrefix ==
  ASSUME NEW n \in 0..32
  PROVE  Kept(n) = 0..(n - 1)
<1>1. CASE n = 0 BY <1>1 DEF Kept
<1>2. CASE n \in 1..32
  <2>1. (32 - n) % 32 = 32 - n BY <1>2
  <2> QED BY <1>2, <2>1 DEF Kept
<1> QED BY <1>1, <1>2

(* Masking two addresses compares exactly their first n bits, zero and all *)
(* 32 included.                                                            *)
LEMMA MaskedMatch ==
  ASSUME NEW a \in Bits, NEW b \in Bits, NEW n \in 0..32
  PROVE  Masked(a, n) = Masked(b, n) <=> SamePrefix(a, b, n)
<1>1. Kept(n) = 0..(n - 1) BY MaskKeepsPrefix
<1>2. ASSUME Masked(a, n) = Masked(b, n), NEW k \in 0..(n - 1) PROVE a[k] = b[k]
  <2>1. k \in 0..31 /\ k \in Kept(n) BY <1>1, <1>2
  <2>2. Masked(a, n)[k] = a[k] /\ Masked(b, n)[k] = b[k] BY <2>1 DEF Masked
  <2> QED BY <1>2, <2>2
<1>3. ASSUME SamePrefix(a, b, n) PROVE Masked(a, n) = Masked(b, n)
  BY <1>1, <1>3 DEF Masked, SamePrefix
<1> QED BY <1>2, <1>3 DEF SamePrefix

(* The hextets of a v6 address cover its prefix exactly. *)
LEMMA HextetsMatch ==
  ASSUME NEW a \in Bits, NEW b \in Bits, NEW n \in 0..128
  PROVE  Ipv6Matches(a, b, n) <=> SamePrefix(a, b, n)
<1>1. ASSUME Ipv6Matches(a, b, n), NEW k \in 0..(n - 1) PROVE a[k] = b[k]
  <2> DEFINE i == k \div 16
             j == k % 16
             left == n - 16 * i
             take == IF left < 16 THEN left ELSE 16
  <2>1. i \in 0..7 /\ j \in 0..15 /\ k = 16 * i + j BY <1>1
  <2>2. j \in 0..(take - 1) BY <2>1
  <2>3. a[16 * i + j] = b[16 * i + j] BY <1>1, <2>1, <2>2 DEF Ipv6Matches
  <2> QED BY <2>1, <2>3
<1>2. ASSUME SamePrefix(a, b, n), NEW i \in 0..7,
             NEW j \in 0..((IF n - 16 * i < 16 THEN n - 16 * i ELSE 16) - 1)
      PROVE  a[16 * i + j] = b[16 * i + j]
  <2>1. 16 * i + j \in 0..(n - 1) OBVIOUS
  <2> QED BY <1>2, <2>1 DEF SamePrefix
<1> QED BY <1>1, <1>2 DEF SamePrefix, Ipv6Matches

---------------------------------------------------------------------------
(* The allow-list *)

(* An entry admits the addresses of its own kind that share its prefix,    *)
(* and no other: from the whole family, with prefix 0, to one address.     *)
(* (cidr.ts:77, 89, 112)                                                   *)
THEOREM EntryAdmitsItsPrefix ==
  ASSUME NEW e \in Entry, Valid(e), NEW a \in Address
  PROVE  Matches(Rule(e), a) <=> /\ a.kind = e.address.kind
                                 /\ SamePrefix(a.bits, e.address.bits, PrefixOf(e))
<1>1. a.bits \in Bits /\ e.address.bits \in Bits BY DEF Address, Entry
<1>2. CASE e.address.kind = "v4"
  <2>1. PrefixOf(e) \in 0..32 BY <1>2 DEF Valid, Width
  <2>2. Masked(a.bits, PrefixOf(e)) = Masked(e.address.bits, PrefixOf(e))
          <=> SamePrefix(a.bits, e.address.bits, PrefixOf(e))
    BY <1>1, <2>1, MaskedMatch
  <2> QED BY <1>2, <2>2 DEF Matches, Rule
<1>3. CASE e.address.kind = "v6"
  <2>1. PrefixOf(e) \in 0..128 BY <1>3 DEF Valid, Width
  <2>2. Ipv6Matches(a.bits, e.address.bits, PrefixOf(e))
          <=> SamePrefix(a.bits, e.address.bits, PrefixOf(e))
    BY <1>1, <2>1, HextetsMatch
  <2> QED BY <1>3, <2>2 DEF Matches, Rule
<1> QED BY <1>2, <1>3 DEF Valid

(* "Empty = allow all", "Loopback is always allowed" (config.ts:47): a     *)
(* configuration that is accepted and names some network admits what its   *)
(* entries admit and the loopback, and nothing because an entry was        *)
(* dropped on the way to an empty list.                                    *)
THEOREM AllowListIsKept ==
  ASSUME NEW list \in SUBSET Entry, Accepted(list), list # {}, NEW a \in Address
  PROVE  IpAllowed(a, CompileCidrList(list)) <=>
           \/ a.kind # "empty" /\ a.loopback
           \/ \E e \in list : /\ a.kind = e.address.kind
                              /\ SamePrefix(a.bits, e.address.bits, PrefixOf(e))
<1>1. CompileCidrList(list) = {Rule(e) : e \in list}
  BY DEF CompileCidrList, Accepted
<1>2. \A e \in list :
        Matches(Rule(e), a) <=> /\ a.kind = e.address.kind
                                /\ SamePrefix(a.bits, e.address.bits, PrefixOf(e))
  BY EntryAdmitsItsPrefix DEF Accepted
<1> QED BY <1>1, <1>2 DEF IpAllowed

---------------------------------------------------------------------------
(* The address of a client *)

(* A request that passed an edge which appended part *)
Through(req, part) == [req EXCEPT !.forwarded = Append(req.forwarded, part)]

(* "the rightmost X-Forwarded-For value" (config.ts:52): what an edge      *)
(* appended decides, alone, whatever the client wrote before it, and       *)
(* whatever else it sent unless CF-Connecting-IP is trusted, too.          *)
THEOREM EdgeDecides ==
  ASSUME NEW req \in Request, NEW other \in Request, NEW trust \in Trust, NEW part \in Address,
         req.direct = other.direct, ~trust.connecting
  PROVE  EffectiveRemoteAddress(Through(req, part), trust)
           = EffectiveRemoteAddress(Through(other, part), trust)
<1> DEFINE r == Through(req, part)
           o == Through(other, part)
<1>1. ASSUME NEW s \in Seq(Address) PROVE Append(s, part) # <<>> /\ Last(Append(s, part)) = part
  BY <1>1 DEF Last
<1>2. req.forwarded \in Seq(Address) /\ other.forwarded \in Seq(Address) BY DEF Request
<1>3. /\ r.direct = req.direct /\ r.forwarded = Append(req.forwarded, part)
      /\ o.direct = req.direct /\ o.forwarded = Append(other.forwarded, part)
  BY DEF Request, Through
<1>4. /\ r.forwarded # <<>> /\ Last(r.forwarded) = part
      /\ o.forwarded # <<>> /\ Last(o.forwarded) = part
  BY <1>1, <1>2, <1>3
<1> HIDE DEF r, o
<1>5. EffectiveRemoteAddress(r, trust) = EffectiveRemoteAddress(o, trust)
  BY <1>3, <1>4 DEF EffectiveRemoteAddress
<1> QED BY <1>5 DEF r, o

(* "loopback and malformed values are never trusted" (config.ts:52): no    *)
(* header makes a request look as if it came from the host itself, and     *)
(* none speaks for a client that connects from elsewhere.                  *)
THEOREM LoopbackIsThePeer ==
  ASSUME NEW req \in Request, NEW trust \in Trust
  PROVE  LET a == EffectiveRemoteAddress(req, trust)
         IN  /\ a.loopback => a = req.direct
             /\ ~req.direct.loopback => a = req.direct
BY DEF EffectiveRemoteAddress, Usable

---------------------------------------------------------------------------
(* Headers *)

(* The fields the proxy sets itself are the reserved ones, and the cookie  *)
(* only if one is left.                                                    *)
LEMMA OursDomain ==
  ASSUME NEW req, NEW spec
  PROVE  /\ Reserved \subseteq DOMAIN Ours(req, spec)
         /\ DOMAIN Ours(req, spec) \subseteq Reserved \cup {"cookie"}
         /\ "cookie" \in DOMAIN Ours(req, spec) <=> spec.upstreamCookie # Missing
BY DEF Ours, Reserved

(* "the proxy's own session cookie never reaches the backend"              *)
(* (SECURITY.md:63): the only cookie it gets is the one the host obtained  *)
(* for it, in a request and in an upgrade.                                 *)
THEOREM ProxyCookieStays ==
  ASSUME NEW req, NEW spec, NEW h \in {ForwardHeaders(req, spec), UpgradeHeaders(req, spec)}
  PROVE  /\ "cookie" \in DOMAIN h <=> spec.upstreamCookie # Missing
         /\ "cookie" \in DOMAIN h => h["cookie"] = spec.upstreamCookie
<1> DEFINE f == ForwardHeaders(req, spec)
<1>1. /\ "cookie" \in DOMAIN f <=> spec.upstreamCookie # Missing
      /\ "cookie" \in DOMAIN f => f["cookie"] = Ours(req, spec)["cookie"]
  BY OursDomain DEF ForwardHeaders, With, Without, InternalHeaders
<1>2. "cookie" \in DOMAIN Ours(req, spec) => Ours(req, spec)["cookie"] = spec.upstreamCookie
  BY DEF Ours, Reserved
<1>3. "cookie" \in DOMAIN f => f["cookie"] = spec.upstreamCookie
  BY <1>1, <1>2, OursDomain
<1>4. CASE h = f BY <1>1, <1>3, <1>4
<1>5. CASE h = UpgradeHeaders(req, spec)
  <2> HIDE DEF f
  <2>1. h = With(f, Upgraded(req)) BY <1>5 DEF UpgradeHeaders, f
  <2>2. DOMAIN Upgraded(req) = {"connection", "upgrade"} BY DEF Upgraded
  <2>3. "cookie" \in DOMAIN h <=> "cookie" \in DOMAIN f BY <2>1, <2>2 DEF With
  <2>4. "cookie" \in DOMAIN h => h["cookie"] = f["cookie"] BY <2>1, <2>2, <2>3 DEF With
  <2> QED BY <1>1, <1>3, <2>3, <2>4
<1> QED BY <1>4, <1>5

(* "Spoofable forwarding [...] headers are stripped" (SECURITY.md:63): the *)
(* fields of SPOOFABLE_FORWARDING change nothing of what the backend gets  *)
(* but by the address and the scheme that the proxy reads from them, and   *)
(* it reads neither of a client that connects from elsewhere.  CF-         *)
(* Connecting-IP and True-Client-IP are not among those fields: the        *)
(* backend gets them as they were sent, so it must not read them.          *)
THEOREM StrippedIsUnseen ==
  ASSUME NEW req, NEW other, NEW spec,
         req.direct = other.direct, req.nominated = other.nominated,
         req.direct.loopback =>
           /\ EffectiveRemoteAddress(req, spec.trust) = EffectiveRemoteAddress(other, spec.trust)
           /\ RequestIsHttps(req, spec) <=> RequestIsHttps(other, spec),
         Without(req.headers, SpoofableForwarding) = Without(other.headers, SpoofableForwarding)
  PROVE  /\ ForwardHeaders(req, spec) = ForwardHeaders(other, spec)
         /\ \A n \in {"cf-connecting-ip", "true-client-ip"} \ req.nominated :
              n \in DOMAIN req.headers =>
                /\ n \in DOMAIN ForwardHeaders(req, spec)
                /\ ForwardHeaders(req, spec)[n] = req.headers[n]
<1> DEFINE drop(m) == {"host"} \cup Dropped(m) \cup SpoofableForwarding \cup InternalHeaders
<1>1. EffectiveRemoteAddress(req, spec.trust) = EffectiveRemoteAddress(other, spec.trust)
  BY DEF EffectiveRemoteAddress
<1>2. RequestIsHttps(req, spec) <=> RequestIsHttps(other, spec)
  BY DEF RequestIsHttps
<1>3. \A n : n \notin SpoofableForwarding =>
        /\ n \in DOMAIN req.headers <=> n \in DOMAIN other.headers
        /\ n \in DOMAIN req.headers => req.headers[n] = other.headers[n]
  <2> TAKE n
  <2> HAVE n \notin SpoofableForwarding
  <2> DEFINE a == Without(req.headers, SpoofableForwarding)
             b == Without(other.headers, SpoofableForwarding)
  <2>1. DOMAIN a = DOMAIN b /\ a[n] = b[n] OBVIOUS
  <2>2. n \in DOMAIN req.headers => n \in DOMAIN a /\ a[n] = req.headers[n] BY DEF Without
  <2>3. n \in DOMAIN other.headers => n \in DOMAIN b /\ b[n] = other.headers[n] BY DEF Without
  <2>4. n \in DOMAIN a => n \in DOMAIN req.headers BY DEF Without
  <2>5. n \in DOMAIN b => n \in DOMAIN other.headers BY DEF Without
  <2> QED BY <2>1, <2>2, <2>3, <2>4, <2>5
<1>4. HeaderOr(req, "host") = HeaderOr(other, "host")
  BY <1>3 DEF HeaderOr, SpoofableForwarding
<1>5. Ours(req, spec) = Ours(other, spec) BY <1>1, <1>2, <1>4 DEF Ours
<1>6. drop(req) = drop(other) BY DEF Dropped, ConnectionTokens
<1>7. Without(req.headers, drop(req)) = Without(other.headers, drop(req))
  BY <1>3 DEF Without
<1>8. ForwardHeaders(req, spec) = ForwardHeaders(other, spec)
  BY <1>5, <1>6, <1>7 DEF ForwardHeaders
<1>9. ASSUME NEW n \in {"cf-connecting-ip", "true-client-ip"} \ req.nominated,
             n \in DOMAIN req.headers
      PROVE  /\ n \in DOMAIN ForwardHeaders(req, spec)
             /\ ForwardHeaders(req, spec)[n] = req.headers[n]
  <2> DEFINE passed == Without(req.headers, drop(req))
  <2>1. n \notin drop(req)
    BY DEF Dropped, ConnectionTokens, HopByHop, SpoofableForwarding, InternalHeaders
  <2>2. n \in DOMAIN passed /\ passed[n] = req.headers[n] BY <1>9, <2>1 DEF Without
  <2>3. n \notin DOMAIN Ours(req, spec) BY OursDomain DEF Reserved
  <2> QED BY <2>2, <2>3 DEF ForwardHeaders, With
<1> QED BY <1>8, <1>9

(* Nothing the client nominates, and nothing hop-by-hop, is passed on, and *)
(* no nomination takes away what the proxy itself sets: neither Connection:*)
(* Host nor Connection: X-Forwarded-For.                                   *)
THEOREM NominationIsHarmless ==
  ASSUME NEW req, NEW spec
  PROVE  LET h == ForwardHeaders(req, spec)
         IN  /\ \A n \in Reserved : n \in DOMAIN h /\ h[n] = Ours(req, spec)[n]
             /\ DOMAIN h \cap Dropped(req) \subseteq Reserved \cup {"cookie"}
<1>1. Reserved \subseteq DOMAIN Ours(req, spec) BY OursDomain
<1>2. DOMAIN Ours(req, spec) \subseteq Reserved \cup {"cookie"} BY OursDomain
<1> QED BY <1>1, <1>2 DEF ForwardHeaders, With, Without

(* "upstream set-cookie is removed" (README.md:188), and what upstream     *)
(* nominates does not reach the client either.  An answer to an upgrade    *)
(* keeps the two headers of the handshake, which Connection: Upgrade       *)
(* nominates, and no other.                                                *)
THEOREM AnswersAreClean ==
  ASSUME NEW m
  PROVE  LET plain == SanitizeResponseHeaders(m)
             upgrade == SanitizeUpgradeResponseHeaders(m)
         IN  /\ DOMAIN plain \cap ({"set-cookie"} \cup Dropped(m)) = {}
             /\ DOMAIN upgrade \cap ({"set-cookie"} \cup Dropped(m))
                  = DOMAIN m.headers \cap {"connection", "upgrade"}
             /\ \A n \in DOMAIN plain : n \in DOMAIN upgrade
BY DEF SanitizeResponseHeaders, SanitizeUpgradeResponseHeaders, SanitizeHeaders, Without, Dropped,
       HopByHop

---------------------------------------------------------------------------
(***************************************************************************)
(* BrowsePin                                                               *)
(***************************************************************************)

(* What the loader has of this plugin is what dispose knows of, what the   *)
(* pinning is still at, and what could not be removed.                     *)
PinInv ==
  /\ pinning \in Faces \cup {"undo", "settled"}
  /\ created \subseteq Faces
  /\ entries \subseteq Faces
  /\ disposal \in {"none", "unpinning", "runtime", "rejected"}
  /\ pinning = "host" => entries = {}
  /\ pinning \in {"ui", "undo"} => entries = {"host"}
  /\ pinning # "settled" => created = {} /\ disposal \in {"none", "unpinning"}
  /\ pinning = "settled" => entries = created \/ kept \/ ~HasRemove
  /\ disposal = "runtime" => created = {}

(* Pinning, its undo and the disposals keep the invariant of the pin.      *)
LEMMA PinStep == PinInv /\ [Next]_vars => PinInv'
<1> SUFFICES ASSUME PinInv, [Next]_vars PROVE PinInv' OBVIOUS
<1> USE DEF PinInv, Faces
<1>1. CASE CreateHost BY <1>1 DEF CreateHost
<1>2. CASE CreateUi BY <1>2 DEF CreateUi
<1>3. CASE CreateFails BY <1>3 DEF CreateFails
<1>4. CASE Undo BY <1>4 DEF Undo, Removed
<1>5. CASE Dispose BY <1>5 DEF Dispose
<1>6. CASE Unpin BY <1>6 DEF Unpin, Removed, LastCreated
<1>7. CASE UnpinFails BY <1>7 DEF UnpinFails
<1>8. CASE RuntimeDispose BY <1>8 DEF RuntimeDispose
<1>9. CASE UNCHANGED vars BY <1>9 DEF vars
<1> QED BY <1>1, <1>2, <1>3, <1>4, <1>5, <1>6, <1>7, <1>8, <1>9 DEF Next

(* The invariant of the pin holds in every state.                          *)
LEMMA PinAlways == Spec => []PinInv
<1>1. Init => PinInv BY DEF Init, PinInv, Faces
<1> QED BY <1>1, PinStep, PTL DEF Spec

(* An unloaded plugin leaves no entry behind: "a second insert crashes     *)
(* boot" (directory-picker.ts:4).                                          *)
THEOREM UnloadedLeavesNothing == Spec => []NothingLeft
<1>1. PinInv => NothingLeft BY DEF PinInv, NothingLeft
<1> QED BY <1>1, PinAlways, PTL

(* A disposal that comes while the pinning is on its way waits for it:     *)
(* nothing is created behind its back. (directory-picker.ts:108)           *)
THEOREM PinEndsWithDisposal == Spec => NoPinAfterwards
<1> DEFINE Shrinks == disposal \in {"runtime", "rejected"} => entries' \subseteq entries
<1>1. PinInv /\ [Next]_vars => [Shrinks]_vars
  <2> SUFFICES ASSUME PinInv, Next, disposal \in {"runtime", "rejected"}
               PROVE  entries' \subseteq entries
    OBVIOUS
  <2>1. pinning = "settled" BY DEF PinInv
  <2> QED
    BY <2>1 DEF Next, CreateHost, CreateUi, CreateFails, Undo, Dispose, Unpin, UnpinFails,
                RuntimeDispose, Faces
<1> QED BY <1>1, PinAlways, PTL DEF Spec, NoPinAfterwards

---------------------------------------------------------------------------
(***************************************************************************)
(* AuditLog                                                                *)
(***************************************************************************)

(* The queue never overtakes the records, a write in progress is of an     *)
(* event the file does not have, and its stage tells what stat found.      *)
AuditInv ==
  /\ recorded \in Nat /\ settled \in Nat /\ size \in Nat
  /\ stage \in Stages
  /\ current \subseteq Events /\ older \subseteq Events
  /\ settled <= recorded /\ (stage # "idle" => settled < recorded)
  /\ stage = "append" => size < MaxBytes
  /\ stage \in {"rm", "rename"} => size >= MaxBytes
  /\ InOrder

(* Every step of the queue, its failures and crashes included, keeps the   *)
(* invariant.                                                              *)
LEMMA AuditStep ==
  ASSUME MaxBytes \in Nat \ {0}, LineSizes \subseteq Nat \ {0}, AuditInv, [AuditNext]_auditVars
  PROVE  AuditInv'
<1> USE DEF AuditInv, InOrder, Logged, Stages, Events
<1>1. CASE Record BY <1>1 DEF Record, files
<1>2. CASE Begin BY <1>2 DEF Begin, files
<1>3. CASE Measure BY <1>3 DEF Measure, files
<1>4. CASE Remove BY <1>4 DEF Remove
<1>5. CASE Rename
  <2>1. older' = current /\ current' = {} /\ size' = 0 /\ stage' = "append"
    BY <1>5 DEF Rename
  <2>2. recorded' = recorded /\ settled' = settled BY <1>5 DEF Rename
  <2>3. 0 < MaxBytes OBVIOUS
  <2>4. InOrder'
    <3>1. \A e \in current : e <= settled OBVIOUS
    <3> QED BY <2>1, <2>2, <3>1
  <2>5. current' \subseteq Events /\ older' \subseteq Events BY <2>1
  <2>6. size' < MaxBytes /\ size' \in Nat BY <2>1, <2>3
  <2>7. recorded' \in Nat /\ settled' \in Nat /\ settled' < recorded' BY <1>5, <2>2 DEF Rename
  <2>8. settled' <= recorded' /\ stage' \in Stages BY <2>1, <2>7
  <2> QED BY <2>1, <2>4, <2>5, <2>6, <2>7, <2>8
<1>6. CASE AppendLine
  <2>1. size' \in Nat BY <1>6 DEF AppendLine
  <2>2. settled' = settled + 1 /\ stage' = "idle" /\ recorded' = recorded /\ older' = older
    BY <1>6 DEF AppendLine, Settle
  <2>3. current' \subseteq current \cup {settled + 1} BY <1>6 DEF AppendLine
  <2>4. InOrder'
    <3>1. settled + 1 \in Nat /\ settled < settled + 1 OBVIOUS
    <3>2. \A e \in Logged : e \in Nat /\ e <= settled OBVIOUS
    <3>3. ASSUME NEW e \in older', NEW f \in current' PROVE e < f
      <4>1. e \in older /\ e <= settled /\ e \in Nat BY <2>2, <3>2
      <4>2. CASE f \in current BY <4>1, <4>2
      <4>3. CASE f = settled + 1 BY <3>1, <4>1, <4>3
      <4> QED BY <2>3, <4>2, <4>3
    <3>4. ASSUME NEW e \in Logged' PROVE e <= settled'
      <4>1. e \in Logged \/ e = settled + 1 BY <2>2, <2>3
      <4>2. CASE e \in Logged BY <2>2, <3>1, <3>2, <4>2
      <4>3. CASE e = settled + 1 BY <2>2, <3>1, <4>3
      <4> QED BY <4>1, <4>2, <4>3
    <3> QED BY <3>3, <3>4 DEF InOrder
  <2>5. current' \subseteq Events /\ older' \subseteq Events
    <3>1. settled + 1 \in Events OBVIOUS
    <3> QED BY <2>2, <2>3, <3>1
  <2>6. settled + 1 <= recorded BY <1>6 DEF AppendLine
  <2>7. settled' \in Nat /\ settled' <= recorded' BY <2>2, <2>6
  <2> QED BY <2>1, <2>2, <2>4, <2>5, <2>7
<1>7. ASSUME Partial PROVE size' \in Nat BY <1>7 DEF Partial
<1>8. CASE Fails
  <2>1. size' \in Nat BY <1>7, <1>8 DEF Fails
  <2>2. settled' = settled + 1 /\ stage' = "idle" /\ UNCHANGED <<recorded, current, older>>
    BY <1>8 DEF Fails, Settle
  <2>3. settled' \in Nat /\ settled' <= recorded' BY <1>8, <2>2 DEF Fails
  <2>4. InOrder'
    <3>1. \A e \in Logged : e \in Nat /\ e <= settled OBVIOUS
    <3>2. settled < settled' BY <2>2
    <3> QED BY <2>2, <2>3, <3>1, <3>2
  <2> QED BY <2>1, <2>2, <2>3, <2>4
<1>9. CASE Crash
  <2>1. size' \in Nat BY <1>7, <1>9 DEF Crash
  <2> QED BY <1>9, <2>1 DEF Crash
<1>10. CASE UNCHANGED auditVars BY <1>10 DEF auditVars, files
<1> QED BY <1>1, <1>2, <1>3, <1>4, <1>5, <1>6, <1>8, <1>9, <1>10 DEF AuditNext

(* The invariant of the queue holds in every state.                        *)
LEMMA AuditAlways ==
  ASSUME MaxBytes \in Nat \ {0}, LineSizes \subseteq Nat \ {0}
  PROVE  AuditSpec => []AuditInv
<1>1. AuditInit => AuditInv BY DEF AuditInit, AuditInv, InOrder, Logged, Stages, Events
<1>2. AuditInv /\ [AuditNext]_auditVars => AuditInv' BY AuditStep
<1> QED BY <1>1, <1>2, PTL DEF AuditSpec

(* The two generations hold the events in the order of record(), whatever  *)
(* fails between. (audit.ts:41)                                            *)
THEOREM LogInOrder ==
  ASSUME MaxBytes \in Nat \ {0}, LineSizes \subseteq Nat \ {0}
  PROVE  AuditSpec => []InOrder
<1>1. AuditInv => InOrder BY DEF AuditInv
<1> QED BY <1>1, AuditAlways, PTL

(* Only the generation before a full file is ever dropped. (audit.ts:56)   *)
THEOREM RecentEventsRetained ==
  ASSUME MaxBytes \in Nat \ {0}, LineSizes \subseteq Nat \ {0}
  PROVE  AuditSpec => Retained
<1> DEFINE OldOnly == \A e \in Logged \ Logged' : size >= MaxBytes /\ \A f \in current : e < f
<1>1. AuditInv /\ [AuditNext]_auditVars => [OldOnly]_auditVars
  <2> SUFFICES ASSUME AuditInv, AuditNext PROVE OldOnly OBVIOUS
  <2>1. CASE Remove
    <3>1. Logged \ Logged' \subseteq older BY <2>1 DEF Remove, Logged
    <3> QED BY <2>1, <3>1 DEF Remove, AuditInv, InOrder
  <2>2. CASE Rename
    <3>1. Logged \ Logged' \subseteq older BY <2>2 DEF Rename, Logged
    <3> QED BY <2>2, <3>1 DEF Rename, AuditInv, InOrder
  <2>3. CASE AppendLine BY <2>3 DEF AppendLine, Logged
  <2>4. CASE Fails BY <2>4 DEF Fails, Logged
  <2>5. CASE Crash BY <2>5 DEF Crash, Logged
  <2>6. CASE Record \/ Begin \/ Measure BY <2>6 DEF Record, Begin, Measure, files, Logged
  <2> QED BY <2>1, <2>2, <2>3, <2>4, <2>5, <2>6 DEF AuditNext
<1> QED BY <1>1, AuditAlways, PTL DEF AuditSpec, Retained

(* A failing rotation does not make the log grow without end.              *)
(* (audit.ts:53)                                                           *)
THEOREM FullFileStays ==
  ASSUME MaxBytes \in Nat \ {0}, LineSizes \subseteq Nat \ {0}
  PROVE  AuditSpec => GrowthEnds
<1>1. AuditInv /\ [AuditNext]_auditVars => [size' > size => size < MaxBytes]_auditVars
  <2> SUFFICES ASSUME AuditInv, AuditNext, size' > size PROVE size < MaxBytes OBVIOUS
  <2>1. size \in Nat BY DEF AuditInv
  <2>2. stage = "append"
    BY <2>1 DEF AuditNext, Record, Begin, Measure, Remove, Rename, AppendLine, Fails, Crash,
       Partial, files, AuditInv
  <2> QED BY <2>2 DEF AuditInv
<1> QED BY <1>1, AuditAlways, PTL DEF AuditSpec, GrowthEnds
=============================================================================
