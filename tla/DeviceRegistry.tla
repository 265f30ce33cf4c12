-------------------------- MODULE DeviceRegistry --------------------------
(***************************************************************************)
(* What a host may rely on when it uses the session store: the life of the *)
(* credentials, without records, clocks, limits, callbacks or sweeps.      *)
(*                                                                         *)
(* A device gets credentials 1, 2, ...; at any time one of them at most    *)
(* waits for approval or works, and what ended comes back in one way only: *)
(* the host restores a copy that it kept from the time it was good.        *)
(* Module SessionStore implements this specification.                      *)
(***************************************************************************)
EXTENDS Naturals

CONSTANTS
  Ids,     \* the devices
  Secrets  \* the numbers of their credentials, 1 to some last one

VARIABLES
  credential, \* each device's credentials: "none" yet, "waiting", "working", "ended"
  kept        \* the copy: "waiting" or "working" as they were saved, or "ended"

vars == <<credential, kept>>

Good == {"waiting", "working"}

Stays(d, g) == credential'[d][g] = credential[d][g]

(* Any credential may end at any time: by expiry, refusal or eviction. *)
MayEnd(d, g) ==
  \/ Stays(d, g)
  \/ (credential[d][g] \in Good /\ credential'[d][g] = "ended")

OthersMayEnd(d) == \A e \in Ids \ {d}, g \in Secrets : MayEnd(e, g)

CopyMayEnd == \A d \in Ids, g \in Secrets : kept'[d][g] \in {kept[d][g], "ended"}

Init ==
  /\ \A d \in Ids, g \in Secrets :
       credential[d][g] = "none" \/ (g = 1 /\ credential[d][g] \in Good)
  /\ \A d \in Ids, g \in Secrets :
       kept[d][g] = IF credential[d][g] \in Good THEN credential[d][g] ELSE "ended"

(* A new device gets its first credential. *)
Admit(d) ==
  /\ \A g \in Secrets : credential[d][g] = "none"
  /\ credential'[d][1] \in Good
  /\ \A g \in Secrets \ {1} : Stays(d, g)
  /\ OthersMayEnd(d)
  /\ CopyMayEnd

(* A device exchanges its credential for the first unused one, which is as *)
(* good; after a restore that is not always the one behind its number.     *)
Renew(d) ==
  /\ \E g, n \in Secrets :
       /\ credential[d][g] \in Good
       /\ credential[d][n] = "none"
       /\ \A h \in Secrets : h < n => credential[d][h] # "none"
       /\ credential'[d][g] = "ended"
       /\ credential'[d][n] = credential[d][g]
       /\ \A h \in Secrets \ {g, n} : Stays(d, h)
  /\ OthersMayEnd(d)
  /\ CopyMayEnd

(* The owner lets a waiting device in. *)
Approve(d) ==
  /\ \E g \in Secrets :
       /\ credential[d][g] = "waiting"
       /\ credential'[d][g] = "working"
       /\ \A h \in Secrets \ {g} : Stays(d, h)
  /\ OthersMayEnd(d)
  /\ CopyMayEnd

End ==
  /\ \A d \in Ids, g \in Secrets : MayEnd(d, g)
  /\ CopyMayEnd

(* The host keeps a copy, and restores it; a restore may lose devices. *)
Save ==
  /\ \A d \in Ids, g \in Secrets : MayEnd(d, g)
  /\ \A d \in Ids, g \in Secrets :
       kept'[d][g] = IF credential'[d][g] \in Good THEN credential'[d][g] ELSE "ended"

Restore ==
  /\ \A d \in Ids, g \in Secrets :
       IF credential[d][g] = "none" THEN Stays(d, g)
                                    ELSE credential'[d][g] \in {kept[d][g], "ended"}
  /\ UNCHANGED kept

Next ==
  \/ End \/ Save \/ Restore
  \/ \E d \in Ids : Admit(d) \/ Renew(d) \/ Approve(d)

Spec == Init /\ [][Next]_vars
===========================================================================
