--------------------------- MODULE ContentCoding ---------------------------
(***************************************************************************)
(* The decisions of src/proxy-compress.ts: what a client's Accept-Encoding *)
(* makes of the codings the proxy can produce, which answers may be        *)
(* encoded, and what an encoded answer's headers say.                      *)
(*                                                                         *)
(* A weight is in thousandths.  A client's preferences are a function from *)
(* the codings it named, "*" among them, to their weights.  A header field *)
(* is what the decisions tell apart of it.                                 *)
(***************************************************************************)
EXTENDS Integers

Codings == {"br", "gzip", "identity", "*"}
Weights == 0..1000
IsPreferences(p) == DOMAIN p \subseteq Codings /\ p \in [DOMAIN p -> Weights]
None == "none"

---------------------------------------------------------------------------
(* Negotiation *)

(* parseQ: the weight of a declared coding: 1 without a parameter, and 0   *)
(* for more than one or one that is not a weight.                          *)
Declarations == [coding : Codings, parameter : {"none", "weight", "other"}, weight : Weights]

Weight(d) ==
  IF d.parameter = "none" THEN 1000
  ELSE IF d.parameter = "weight" THEN d.weight
  ELSE 0

(* encodingPreferences: of several declarations of a coding the lowest     *)
(* weight counts.                                                          *)
Named(list) == {list[i].coding : i \in DOMAIN list}
WeightsOf(list, c) == {Weight(list[i]) : i \in {j \in DOMAIN list : list[j].coding = c}}
Lowest(W) == CHOOSE w \in W : \A v \in W : w <= v

EncodingPreferences(list) == [c \in Named(list) |-> Lowest(WeightsOf(list, c))]

(* encodingQ, or 0 for a coding the client does not know of *)
Q(p, c) ==
  IF c \in DOMAIN p THEN p[c]
  ELSE IF "*" \in DOMAIN p THEN p["*"]
  ELSE 0

AcceptsGzip(p) == Q(p, "gzip") > 0

(* The wildcard does not speak for identity here. *)
Identity(p) == IF "identity" \in DOMAIN p THEN p["identity"] ELSE 0

(* selectContentEncoding *)
SelectContentEncoding(p) ==
  LET br == Q(p, "br")
      gzip == Q(p, "gzip")
      best == IF br >= gzip THEN br ELSE gzip
  IN  IF best = 0 \/ Identity(p) > best THEN None
      ELSE IF br >= gzip THEN "br" ELSE "gzip"

---------------------------------------------------------------------------
(* Eligible answers *)

MinBody == 1024    \* MIN_GZIP_BODY_BYTES
Undeclared == -1   \* no usable content-length

(* What the decision reads of a request and its answer: "whole" says that  *)
(* neither is about a range, "transform" that no Cache-Control has         *)
(* no-transform, "media" that the type is compressible, "encoded" that     *)
(* upstream encoded the body already.                                      *)
Answers == [enabled : BOOLEAN, method : {"GET", "HEAD", "CONNECT", "POST"}, status : 100..599,
            whole : BOOLEAN, upgrade : BOOLEAN, transform : BOOLEAN, encoded : BOOLEAN,
            media : BOOLEAN, length : Nat \cup {Undeclared}]

(* shouldCompressResponse, whatever the client accepts *)
ShouldCompress(a) ==
  /\ a.enabled /\ a.method \notin {"HEAD", "CONNECT"}
  /\ a.status >= 200 /\ a.status \notin {204, 205, 206, 304}
  /\ ~a.upgrade /\ a.transform /\ ~a.encoded /\ a.media
  /\ a.length = Undeclared \/ a.length >= MinBody

(* shouldGzipResponse, for callers that know no other coding *)
ShouldGzip(a, p) == ShouldCompress(a) /\ AcceptsGzip(p) /\ Identity(p) <= Q(p, "gzip")

---------------------------------------------------------------------------
(* Headers *)

BodyDigests == {"content-md5", "digest", "content-digest"}

(* A Repr-Digest is one of the fields that nobody touches. *)
Headers == [length : BOOLEAN, encoding : {None, "br", "gzip"},
            digests : SUBSET (BodyDigests \cup {"repr-digest"}),
            etag : {None, "strong", "weak"}, vary : SUBSET {"accept-encoding", "other", "*"}]

(* mergeAcceptEncodingVary *)
MergeVary(h) ==
  [h EXCEPT !.vary = IF "*" \in @ THEN {"*"} ELSE @ \cup {"accept-encoding"}]

(* applyContentEncodingResponseHeaders: the length and three digests are   *)
(* of the body before, and a strong etag becomes a weak one.               *)
Encode(h, coding) ==
  MergeVary([h EXCEPT !.length = FALSE, !.encoding = coding, !.digests = @ \ BodyDigests,
                      !.etag = IF @ = "strong" THEN "weak" ELSE @])

(* What proxyRequest makes of the headers of an answer: Vary tells of the  *)
(* negotiation also when it ends with no encoding.                         *)
Negotiable(a) == a.whole /\ ShouldCompress(a)
Negotiated(a, p) == IF Negotiable(a) THEN SelectContentEncoding(p) ELSE None

Delivered(a, p, h) ==
  IF ~Negotiable(a) THEN h
  ELSE IF Negotiated(a, p) = None THEN MergeVary(h)
  ELSE Encode(h, Negotiated(a, p))
=============================================================================
