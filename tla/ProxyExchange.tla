--------------------------- MODULE ProxyExchange ---------------------------
(***************************************************************************)
(* The proxied exchanges of src/proxy.ts (proxyRequest) and the cache of   *)
(* static responses, src/static-cache.ts, on top of the connections of     *)
(* module ProxyConnections: what an exchange captures while it streams,    *)
(* when the capture becomes an entry of the cache, which entries go with   *)
(* their device, and the first-byte timer of a request with a body.        *)
(*                                                                         *)
(* A request is for a static asset (a GET that staticCacheRequestKey       *)
(* admits) or for something else, which stands for uploads, event streams  *)
(* and upgrades.  A body is its length in chunks.  An entry's key is the   *)
(* device, the asset and the codings the request accepts, by the weights   *)
(* of its Accept-Encoding (module ContentCoding).  An exchange keeps of    *)
(* its request and its answer only what may still matter.                  *)
(***************************************************************************)
EXTENDS ProxyConnections, FiniteSetsExt

Coding == INSTANCE ContentCoding

CONSTANTS
  Assets,       \* static assets
  NegotiableAssets, \* those whose answers may be encoded (Negotiable of ContentCoding)
  Accepts,      \* the preferences that requests for assets come with
  MaxEntries,   \* entries of the cache
  MaxBytes,     \* its size
  MaxEntry,     \* size of one entry
  MaxBody,      \* chunks a capture holds
  Overhead,     \* size of an entry besides its body
  MaxCaptures,  \* captures at one time
  Lifetime,     \* DEFAULT_TTL_MS, in ticks
  MaxTime       \* bound: the clock

ASSUME ExchangeAssumption ==
  /\ IsFiniteSet(Assets) /\ NegotiableAssets \subseteq Assets
  /\ \A p \in Accepts : Coding!IsPreferences(p)
  /\ {MaxEntries, MaxBytes, MaxEntry, MaxBody, Overhead} \subseteq Nat
  /\ {MaxCaptures, Lifetime, MaxTime} \subseteq Nat

VARIABLES
  clock,
  cache,     \* the Map of static-cache.ts and its counter of bytes
  captures,  \* cacheCaptures
  exchange   \* what proxyRequest keeps for each connection

exchangeVars == <<vars, clock, cache, captures, exchange>>

NoAsset == "no asset"

NoExchange == [asset |-> NoAsset, accept |-> <<>>, body |-> "ended", answered |-> FALSE,
               timer |-> FALSE, capture |-> "none", size |-> 0, freshness |-> 0,
               receivedAt |-> 0]
Answered == [NoExchange EXCEPT !.answered = TRUE]
Dropped == [Answered EXCEPT !.capture = "dropped"]

(* Of a destroyed exchange only its capture still matters. *)
Remains == [c \in Conns |->
  IF conns'[c].phase = "closing" THEN [NoExchange EXCEPT !.capture = exchange[c].capture]
                                 ELSE exchange[c]]

(* The Map is each entry with its place, the oldest first. *)
EmptyCache == [place |-> [e \in {} |-> 0], bytes |-> 0]

ExchangeInit ==
  /\ Init
  /\ clock = 0 /\ cache = EmptyCache /\ captures = 0
  /\ exchange = [c \in Conns |-> NoExchange]

---------------------------------------------------------------------------
(* The cache *)

Stored(ch) == DOMAIN ch.place
Entries == Stored(cache)
Size(E) == MapThenSumSet(LAMBDA e : e.bytes, E)

(* remove for the entries E: the others move up. *)
Without(ch, E) ==
  LET left == Stored(ch) \ E
  IN [place |-> [e \in left |-> Cardinality({f \in left : ch.place[f] <= ch.place[e]})],
      bytes |-> ch.bytes - Size(E)]

(* entries.set of a new key *)
WithLast(ch, e) ==
  [place |-> [f \in Stored(ch) \cup {e} |-> IF f = e THEN Cardinality(Stored(ch)) + 1
                                                  ELSE ch.place[f]],
   bytes |-> ch.bytes + e.bytes]

Expired == {e \in Entries : e.expiresAt <= clock}
Swept == Without(cache, Expired)

(* staticCacheRequestKey; the variant leaves Accept-Encoding out. *)
KeyedByUrl(e, d, a, p) == e.device = d /\ e.asset = a
Keyed(e, d, a, p) == e.device = d /\ e.asset = a /\ e.accept = p

Of(d, a, p) == {e \in Entries : Keyed(e, d, a, p)}

(* deleteSession for the devices D, or nothing by mistake. *)
Kept(D) == cache
Forgotten(D) == Without(cache, {e \in Entries : e.device \in D})

(* The loop of put: the oldest entries go until one of this size fits. *)
MakeRoom(ch, size) ==
  LET Oldest(n) == {e \in Stored(ch) : ch.place[e] <= n}
      Fits(n) == /\ Cardinality(Stored(ch)) - n < MaxEntries
                 /\ ch.bytes - Size(Oldest(n)) + size <= MaxBytes
      n == CHOOSE i \in 0..Cardinality(Stored(ch)) :
             /\ Fits(i) \/ i = Cardinality(Stored(ch))
             /\ \A j \in 0..(i - 1) : ~Fits(j)
  IN Without(ch, Oldest(n))

(* What staticResponseTtlMs may make of an answer's headers: anything up   *)
(* to the lifetime, and nothing of what it does not understand.            *)
Freshness == 0..Lifetime

(* isCacheableStaticResponse: an answer may be kept, or may not. *)
Storable == BOOLEAN

(* What is left of the freshness the upstream gave; or all of it again. *)
AsReceived(x) == x.freshness
Remaining(x) ==
  LET spent == clock - x.receivedAt
  IN IF spent < x.freshness THEN x.freshness - spent ELSE 0

(* The coding of what exchange x captures *)
CodingOf(x) ==
  IF x.asset \in NegotiableAssets THEN Coding!SelectContentEncoding(x.accept) ELSE Coding!None

(* put *)
Put(d, x) ==
  LET size == x.size + Overhead
      rest == Without(Swept, Of(d, x.asset, x.accept) \ Expired)
      entry == [device |-> d, asset |-> x.asset, accept |-> x.accept, coding |-> CodingOf(x),
                bytes |-> size, expiresAt |-> clock + Remaining(x),
                freshUntil |-> x.receivedAt + x.freshness]
  IN IF Remaining(x) = 0 THEN rest
     ELSE IF MaxEntries = 0 \/ size > MaxEntry \/ size > MaxBytes THEN Swept
     ELSE WithLast(MakeRoom(rest, size), entry)

---------------------------------------------------------------------------
(* Exchanges *)

(* The captures that end with exchange x: one if it still holds it; the    *)
(* variant counts a dropped one again.                                     *)
CountedAgain(x) == IF x.capture = "none" THEN 0 ELSE 1
Released(x) == IF x.capture = "held" THEN 1 ELSE 0

(* A hit is answered from the cache and makes no connection. *)
Hit(d, a, p) ==
  /\ sessions[d] # 0 /\ ~closed
  /\ \E e \in Of(d, a, p) \ Expired :
       cache' = WithLast(Without(Swept, {e}), e)
  /\ UNCHANGED <<vars, clock, captures, exchange>>

Get(c, d, a, p) ==
  /\ Accept(c, d)
  /\ Of(d, a, p) \subseteq Expired
  /\ cache' = Swept
  /\ exchange' = [exchange EXCEPT ![c] = [NoExchange EXCEPT !.asset = a, !.accept = p]]
  /\ UNCHANGED <<clock, captures>>

Post(c, d) ==
  /\ Accept(c, d)
  /\ exchange' = [exchange EXCEPT ![c] = [NoExchange EXCEPT !.body = "open"]]
  /\ UNCHANGED <<clock, cache, captures>>

(* The request's body is there: the first-byte timer starts, unless the    *)
(* upstream answered already.                                              *)
Armed(c) == ~exchange[c].answered

BodyEnds(c) ==
  /\ Live(c) /\ exchange[c].body = "open"
  /\ exchange' = [exchange EXCEPT ![c].body = "ended", ![c].timer = Armed(c)]
  /\ UNCHANGED <<vars, clock, cache, captures>>

(* The upstream's headers; safe: they allow the answer to be kept. *)
Headers(c) ==
  /\ Live(c) /\ ~exchange[c].answered
  /\ \E safe \in Storable, freshness \in Freshness :
       IF safe /\ exchange[c].asset # NoAsset /\ captures < MaxCaptures
         THEN /\ captures' = captures + 1
              /\ exchange' = [exchange EXCEPT ![c] =
                   [@ EXCEPT !.answered = TRUE, !.capture = "held",
                             !.freshness = freshness, !.receivedAt = clock]]
         ELSE /\ UNCHANGED captures
              /\ exchange' = [exchange EXCEPT ![c] = [Answered EXCEPT !.body = exchange[c].body]]
  /\ UNCHANGED <<vars, clock, cache>>

(* A chunk of the answer to a held capture, which drops the capture when   *)
(* it grows too large.  Other chunks change nothing.                       *)
Chunk(c) ==
  /\ Live(c) /\ exchange[c].capture = "held" /\ CookieActive(c)
  /\ IF exchange[c].size < MaxBody
       THEN /\ exchange' = [exchange EXCEPT ![c].size = @ + 1]
            /\ UNCHANGED captures
       ELSE /\ exchange' = [exchange EXCEPT ![c] = Dropped]
            /\ captures' = captures - 1
  /\ UNCHANGED <<vars, clock, cache>>

(* The capture and the exchange of c are over. *)
Over(c) ==
  /\ captures' = captures - Released(exchange[c])
  /\ exchange' = [exchange EXCEPT ![c] = NoExchange]
  /\ UNCHANGED clock

(* The answer ends: res emits finish. *)
Ends(c) ==
  /\ Finish(c) /\ exchange[c].answered
  /\ cache' = IF exchange[c].capture = "held" /\ CookieActive(c)
                THEN Put(conns[c].device, exchange[c]) ELSE cache
  /\ Over(c)

(* 502 or 413 in place of an answer *)
Refused(c) ==
  /\ Finish(c) /\ ~exchange[c].answered
  /\ Over(c) /\ UNCHANGED cache

(* The first-byte timer, whose length depends on the request, fires. *)
FirstByteTimeout(c) == exchange[c].timer /\ Refused(c)

(* Either side is gone; an error of the stream releases the capture at     *)
(* once, a lost client with the close event.                               *)
Lost(c) ==
  /\ Breaks(c)
  /\ \/ exchange' = Remains /\ UNCHANGED captures
     \/ /\ exchange[c].capture = "held"
        /\ captures' = captures - 1
        /\ exchange' = [Remains EXCEPT ![c].capture = "dropped"]
  /\ UNCHANGED <<clock, cache>>

Gone(c) == CloseEvent(c) /\ Over(c) /\ UNCHANGED cache

---------------------------------------------------------------------------
(* Devices and the listener *)

Unexchanged == exchange' = Remains /\ UNCHANGED <<clock, captures>>

ExpiryTick == ExpiryTimer /\ cache' = Forgotten(Inactive) /\ Unexchanged
CloseAll == Close /\ cache' = EmptyCache /\ Unexchanged
SignOut(d) == Logout(d) /\ cache' = Forgotten({d}) /\ Unexchanged
Revoked == RevokeSaved /\ cache' = Forgotten({revoking}) /\ Unexchanged
DeviceStep(d) ==
  /\ Expire(d) \/ Reissue(d) \/ RevokeBegin(d)
  /\ Unexchanged /\ UNCHANGED cache
NotRevoked == RevokeFails /\ Unexchanged /\ UNCHANGED cache

Tick ==
  /\ clock < MaxTime
  /\ clock' = clock + 1
  /\ UNCHANGED <<vars, cache, captures, exchange>>

ExchangeNext ==
  \/ ExpiryTick \/ CloseAll \/ Revoked \/ NotRevoked \/ Tick
  \/ \E d \in Devices : SignOut(d) \/ DeviceStep(d)
  \/ \E d \in Devices, a \in Assets, p \in Accepts : Hit(d, a, p)
  \/ \E c \in Conns, d \in Devices, a \in Assets, p \in Accepts : Get(c, d, a, p)
  \/ \E c \in Conns, d \in Devices : Post(c, d)
  \/ \E c \in Conns :
       \/ BodyEnds(c) \/ Headers(c) \/ Chunk(c)
       \/ Ends(c) \/ Refused(c) \/ FirstByteTimeout(c) \/ Lost(c) \/ Gone(c)

(* As in ProxyConnections *)
ExchangeFairness == WF_exchangeVars(ExpiryTick)

ExchangeSpec == ExchangeInit /\ [][ExchangeNext]_exchangeVars /\ ExchangeFairness

---------------------------------------------------------------------------
(* Properties *)

(* "The caller must ... invalidate a session on revocation": as long as    *)
(* every write succeeded, nothing a revoked or signed-out device fetched   *)
(* stays in the cache or enters it later, from an exchange that was still  *)
(* running.                                                                *)
CutIsForgotten ==
  failures = 0 => \A e \in Entries : e.device \notin cut

(* The counter of captures is the number of exchanges that hold one: none  *)
(* is lost (static caching would stop) and none is given back twice (its   *)
(* memory bound would be lost), however an exchange ends.                  *)
CapturesCounted ==
  captures = Cardinality({c \in Conns : exchange[c].capture = "held"})

(* An entry expires no later than the freshness its upstream gave it at    *)
(* the time of the headers, however long its body took.                    *)
CachedIsFresh == \A e \in Entries : e.expiresAt <= e.freshUntil

(* "Full raw URL and Accept-Encoding are keyed": no request can meet an    *)
(* entry in a coding that its client refuses, whatever an earlier request  *)
(* for the same asset had negotiated.                                      *)
HitIsAcceptable ==
  \A e \in Entries, p \in Accepts :
    Keyed(e, e.device, e.asset, p) /\ e.coding # Coding!None => Coding!Q(p, e.coding) > 0
=============================================================================
