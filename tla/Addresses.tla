----------------------------- MODULE Addresses -----------------------------
(***************************************************************************)
(* Whose address a request carries and whether the allow-list admits it:   *)
(* src/cidr.ts with the validation of its configuration, and               *)
(* effectiveRemoteAddress of src/proxy-headers.ts, whose result is what    *)
(* module LoginTracker counts attempts by.                                 *)
(*                                                                         *)
(* An address is its bits, the most significant one first; one of kind v4  *)
(* has 32.  How it is written is left out: "other" is a text that neither  *)
(* parser reads, "empty" no text at all, and literal tells what isIP of    *)
(* node finds, which is stricter than the parsers.                         *)
(***************************************************************************)
EXTENDS Integers, Sequences

Bits == [0..127 -> {0, 1}]
Width(kind) == IF kind = "v4" THEN 32 ELSE 128

Address ==
  [kind : {"v4", "v6", "other", "empty"}, literal : BOOLEAN, loopback : BOOLEAN, bits : Bits]

---------------------------------------------------------------------------
(* The allow-list *)

(* An entry of the configuration is an address and a prefix length, which  *)
(* the text may leave out; a prefix that is no integer has none in range.  *)
(* (Of a text that ends in "/" it reads 0.)                                *)
Whole == "whole"
Entry == [address : Address, prefix : Int \cup {Whole}]

PrefixOf(e) == IF e.prefix = Whole THEN Width(e.address.kind) ELSE e.prefix

(* The shift of the 32-bit mask is taken modulo 32, hence the case of 0.   *)
Kept(prefix) == IF prefix = 0 THEN {} ELSE 0..(31 - ((32 - prefix) % 32))
Masked(bits, prefix) == [i \in 0..31 |-> IF i \in Kept(prefix) THEN bits[i] ELSE 0]

(* parseCidr: only the network of a v4 rule is masked here. *)
Valid(e) == e.address.kind \in {"v4", "v6"} /\ PrefixOf(e) \in 0..Width(e.address.kind)

Rule(e) ==
  [kind |-> e.address.kind, prefix |-> PrefixOf(e),
   network |-> IF e.address.kind = "v4" THEN Masked(e.address.bits, PrefixOf(e))
               ELSE e.address.bits]

(* compileCidrList drops what parseCidr cannot read; validateRuntimeConfig *)
(* refuses a configuration with such an entry before.                      *)
CompileCidrList(entries) == {Rule(e) : e \in {x \in entries : Valid(x)}}
Accepted(entries) == \A e \in entries : Valid(e)

(* ipv6Matches: hextet by hextet, as many bits of each as are left *)
Ipv6Matches(bits, network, prefix) ==
  \A i \in 0..7 :
    LET left == prefix - 16 * i
        take == IF left < 16 THEN left ELSE 16
    IN  \A j \in 0..(take - 1) : bits[16 * i + j] = network[16 * i + j]

Matches(r, a) ==
  \/ r.kind = "v4" /\ a.kind = "v4" /\ Masked(a.bits, r.prefix) = r.network
  \/ r.kind = "v6" /\ a.kind = "v6" /\ Ipv6Matches(a.bits, r.network, r.prefix)

IpAllowed(a, rules) ==
  \/ rules = {}
  \/ a.kind # "empty" /\ a.loopback
  \/ \E r \in rules : Matches(r, a)

---------------------------------------------------------------------------
(* The address of a client *)

(* What is read of a request: its peer, and the parts of the two headers   *)
(* in their order.  Trust is a pair of probes: of X-Forwarded-For, and of  *)
(* CF-Connecting-IP.                                                       *)
Request == [direct : Address, connecting : Seq(Address), forwarded : Seq(Address)]
Trust == [forwarded : BOOLEAN, connecting : BOOLEAN]

(* trustedForwardedIp *)
Usable(a) == a.literal /\ ~a.loopback

First(parts) == parts[1]
Last(parts) == parts[Len(parts)]

EffectiveRemoteAddress(req, trust) ==
  LET edge == trust.forwarded /\ req.direct.loopback
      connecting == /\ edge /\ trust.connecting
                    /\ req.connecting # <<>> /\ Usable(First(req.connecting))
      forwarded == edge /\ req.forwarded # <<>> /\ Usable(Last(req.forwarded))
  IN  IF connecting THEN First(req.connecting)
      ELSE IF forwarded THEN Last(req.forwarded)
      ELSE req.direct

(* denyCidr *)
Denied(req, trust, entries) ==
  ~IpAllowed(EffectiveRemoteAddress(req, trust), CompileCidrList(entries))
=============================================================================
