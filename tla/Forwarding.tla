----------------------------- MODULE Forwarding -----------------------------
(***************************************************************************)
(* The headers that src/proxy-headers.ts lets through, in both directions, *)
(* and their use for a request and for an upgrade in src/proxy.ts.         *)
(*                                                                         *)
(* A message's headers are a function from the names it has, in lower      *)
(* case, to their values; nominated are the names its Connection header    *)
(* lists.  A value the proxy makes is named by what it is made of.         *)
(***************************************************************************)
EXTENDS Addresses

HopByHop == {"connection", "keep-alive", "proxy-authenticate", "proxy-authorization", "te",
             "trailer", "trailers", "transfer-encoding", "upgrade"}
SpoofableForwarding == {"forwarded", "x-forwarded-for", "x-forwarded-host", "x-forwarded-port",
                        "x-forwarded-proto", "x-real-ip", "x-dsh-reverse-proxy"}
InternalHeaders == {"cookie", "referer", "referrer"}

ConnectionTokens(m) == m.nominated \cup {"proxy-connection"}
Dropped(m) == ConnectionTokens(m) \cup HopByHop

Without(headers, names) == [n \in DOMAIN headers \ names |-> headers[n]]
With(headers, ours) ==
  [n \in DOMAIN headers \cup DOMAIN ours |-> IF n \in DOMAIN ours THEN ours[n] ELSE headers[n]]

---------------------------------------------------------------------------
(* Requests.  Of a request there is its headers, what effectiveRemote-     *)
(* Address reads of it (see Request), and whether the first value of       *)
(* X-Forwarded-Proto is https.                                             *)

Missing == ""
HeaderOr(m, n) == IF n \in DOMAIN m.headers THEN m.headers[n] ELSE Missing

(* requestIsHttps; the session cookie is Secure just then *)
RequestIsHttps(req, spec) ==
  spec.tls \/ (spec.trustForwardedProto /\ req.direct.loopback /\ req.https)

(* What forwardHeaders sets after its loop, whatever the client sent.      *)
Reserved == {"host", "origin", "sec-fetch-site", "x-forwarded-for", "x-forwarded-host",
             "x-forwarded-proto", "x-dsh-reverse-proxy"}

Ours(req, spec) ==
  [n \in Reserved \cup (IF spec.upstreamCookie = Missing THEN {} ELSE {"cookie"}) |->
     CASE n = "host" -> spec.authority
       [] n = "origin" -> <<"http", spec.authority>>
       [] n = "sec-fetch-site" -> "same-origin"
       [] n = "x-forwarded-for" -> EffectiveRemoteAddress(req, spec.trust)
       [] n = "x-forwarded-host" -> HeaderOr(req, "host")
       [] n = "x-forwarded-proto" -> IF RequestIsHttps(req, spec) THEN "https" ELSE "http"
       [] n = "x-dsh-reverse-proxy" -> "1"
       [] n = "cookie" -> spec.upstreamCookie]

ForwardHeaders(req, spec) ==
  With(Without(req.headers,
               {"host"} \cup Dropped(req) \cup SpoofableForwarding \cup InternalHeaders),
       Ours(req, spec))

(* An upgrade asks again for the protocol that the client asked for. *)
Upgraded(req) ==
  [n \in {"connection", "upgrade"} |->
     CASE n = "connection" -> "Upgrade"
       [] n = "upgrade" -> IF "upgrade" \in DOMAIN req.headers THEN req.headers["upgrade"]
                           ELSE "websocket"]

UpgradeHeaders(req, spec) == With(ForwardHeaders(req, spec), Upgraded(req))

---------------------------------------------------------------------------
(* Answers *)

SanitizeHeaders(m, keep) == Without(m.headers, {"set-cookie"} \cup (Dropped(m) \ keep))

SanitizeResponseHeaders(m) == SanitizeHeaders(m, {})
SanitizeUpgradeResponseHeaders(m) == SanitizeHeaders(m, {"connection", "upgrade"})
=============================================================================
