-------------------------- MODULE StaticFreshness --------------------------
(***************************************************************************)
(* How long the proxy may answer from its cache: what src/static-cache.ts  *)
(* makes of an answer's freshness metadata when its headers arrive, what   *)
(* is left of it when the body has been delivered and the answer is        *)
(* stored, and the Age that src/proxy.ts gives a hit.                      *)
(*                                                                         *)
(* Times are in milliseconds: r the arrival of the headers, w the store, t *)
(* a request.  A field is the sequence of the values it is given with;     *)
(* ProxyExchange takes any lifetime in place of these.                     *)
(***************************************************************************)
EXTENDS Integers, Sequences

(* What the decision reads of an answer: "forbidden" is a Cache-Control    *)
(* that cannot be parsed or says no-store, no-cache, must-revalidate or a  *)
(* max-age of 0; a value is usable if it can be read.                      *)
Delta == [usable : BOOLEAN, seconds : Nat]
HttpDate == [usable : BOOLEAN, ms : Int]
Metadata == [forbidden : BOOLEAN, maxAges : Seq(Delta), ages : Seq(Delta),
             dates : Seq(HttpDate), expires : Seq(HttpDate)]

Said(values) == Len(values) > 0

DefaultTtl == 300000    \* DEFAULT_TTL_MS
Greater(x, y) == IF x >= y THEN x ELSE y
Lesser(x, y) == IF x <= y THEN x ELSE y

(* A max-age may be said again, but only the same one.  No other field may *)
(* be repeated.                                                            *)
Contradictory(values) ==
  \E i, j \in DOMAIN values : ~values[i].usable \/ values[i].seconds # values[j].seconds
Ambiguous(values) == Len(values) > 1 \/ (Said(values) /\ ~values[1].usable)

Malformed(m) ==
  \/ m.forbidden
  \/ Contradictory(m.maxAges)
  \/ Ambiguous(m.ages) \/ Ambiguous(m.dates) \/ Ambiguous(m.expires)

---------------------------------------------------------------------------
(* The lifetime *)

Age(m) == IF Said(m.ages) THEN 1000 * m.ages[1].seconds ELSE 0
DateOr(m, r) == IF Said(m.dates) THEN m.dates[1].ms ELSE r

(* max-age speaks before Expires. *)
Lifetime(m, r) ==
  IF Said(m.maxAges) THEN 1000 * m.maxAges[1].seconds
  ELSE IF Said(m.expires) THEN m.expires[1].ms - DateOr(m, r)
  ELSE DefaultTtl

CurrentAge(m, r) == Greater(Greater(Age(m), r - DateOr(m, r)), 0)

(* staticResponseTtlMs *)
StaticResponseTtlMs(m, r) ==
  IF Malformed(m) THEN 0
  ELSE Greater(0, Lesser(DefaultTtl, Lifetime(m, r) - CurrentAge(m, r)))

---------------------------------------------------------------------------
(* The store and a hit *)

(* What the finish of the answer leaves of it, and put's own limit *)
TtlAtFinish(m, r, w) == Greater(0, StaticResponseTtlMs(m, r) - (w - r))
IsStored(m, r, w) == Lesser(DefaultTtl, TtlAtFinish(m, r, w)) # 0
ExpiresAt(m, r, w) == w + Lesser(DefaultTtl, TtlAtFinish(m, r, w))

(* A request at t is answered from the entry. *)
IsHit(m, r, w, t) == r <= w /\ w <= t /\ IsStored(m, r, w) /\ t < ExpiresAt(m, r, w)

(* An answer without a Date is stored with that of its arrival, which has  *)
(* whole seconds.                                                          *)
StoredDate(m, r) == IF Said(m.dates) THEN m.dates[1].ms ELSE r - (r % 1000)

(* The Age of a hit, in seconds and rounded up *)
InitialAge(m, r) == Greater(Greater(Age(m), r - StoredDate(m, r)), 0)
ServedAge(m, r, t) == (InitialAge(m, r) + (t - r) + 999) \div 1000
=============================================================================
