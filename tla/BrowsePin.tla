----------------------------- MODULE BrowsePin -----------------------------
(***************************************************************************)
(* The directory browser that apply() of src/index.ts pins in the loader   *)
(* of its host (src/directory-picker.ts), and the disposal of the plugin,  *)
(* which unpins it and then disposes of the runtime.                       *)
(*                                                                         *)
(* The loader is external: create and remove each succeed or reject.  An   *)
(* entry of it is named by its face; the ids it gives out are left out.    *)
(***************************************************************************)
CONSTANTS
  HasLoader,   \* the context has a loader with a create
  HasRemove    \* and the loader has a remove

Faces == {"host", "ui"}

VARIABLES
  pinning,   \* where the pinning is: "host" or "ui" to be created, "undo", "settled"
  created,   \* the faces that dispose will remove
  entries,   \* the faces this plugin has in the loader
  disposal,  \* "none", "unpinning", "runtime" or "rejected"
  kept       \* a remove rejected, and its entry stays

vars == <<pinning, created, entries, disposal, kept>>

(* None of the canonical ids is in the tree, and the user did not opt out. *)
ShouldPin(optOut, existing) == ~optOut /\ existing \cap Faces = {}

Init ==
  /\ \E optOut \in BOOLEAN, existing \in SUBSET Faces :
       pinning = IF HasLoader /\ ShouldPin(optOut, existing) THEN "host" ELSE "settled"
  /\ created = {} /\ entries = {} /\ disposal = "none" /\ kept = FALSE

CreateHost ==
  /\ pinning = "host"
  /\ entries' = entries \cup {"host"} /\ pinning' = "ui"
  /\ UNCHANGED <<created, disposal, kept>>

CreateUi ==
  /\ pinning = "ui"
  /\ entries' = entries \cup {"ui"} /\ pinning' = "settled"
  /\ created' = Faces
  /\ UNCHANGED <<disposal, kept>>

(* The catch clause undoes the first create before it passes the error on. *)
CreateFails ==
  /\ pinning \in Faces
  /\ pinning' = IF pinning = "ui" THEN "undo" ELSE "settled"
  /\ UNCHANGED <<created, entries, disposal, kept>>

(* A loader without remove answers at once, and the entry stays. *)
Removed(face) == entries' = IF HasRemove THEN entries \ {face} ELSE entries

Undo ==
  /\ pinning = "undo"
  /\ \/ Removed("host") /\ UNCHANGED kept
     \/ HasRemove /\ kept' = TRUE /\ UNCHANGED entries
  /\ pinning' = "settled"
  /\ UNCHANGED <<created, disposal>>

(* The host runs the clean-up of the effect, at most once. *)
Dispose ==
  /\ disposal = "none"
  /\ disposal' = "unpinning"
  /\ UNCHANGED <<pinning, created, entries, kept>>

(* dispose waits for the pinning, then removes in reverse order.           *)
LastCreated == IF "ui" \in created THEN "ui" ELSE "host"

Unpin ==
  /\ disposal = "unpinning" /\ pinning = "settled" /\ created # {}
  /\ created' = created \ {LastCreated}
  /\ Removed(LastCreated)
  /\ UNCHANGED <<pinning, disposal, kept>>

UnpinFails ==
  /\ disposal = "unpinning" /\ pinning = "settled" /\ created # {} /\ HasRemove
  /\ kept' = TRUE /\ disposal' = "rejected"
  /\ UNCHANGED <<pinning, created, entries>>

(* Only now comes runtime.dispose, which module Runtime has. *)
RuntimeDispose ==
  /\ disposal = "unpinning" /\ pinning = "settled" /\ created = {}
  /\ disposal' = "runtime"
  /\ UNCHANGED <<pinning, created, entries, kept>>

Next ==
  \/ CreateHost \/ CreateUi \/ CreateFails \/ Undo
  \/ Dispose \/ Unpin \/ UnpinFails \/ RuntimeDispose

Spec == Init /\ [][Next]_vars

---------------------------------------------------------------------------
(* A plugin that came to dispose of its runtime leaves nothing in the      *)
(* loader, whichever create failed and however early the disposal came,    *)
(* except for entries the loader itself refused to remove.                 *)
NothingLeft == disposal = "runtime" => entries = {} \/ kept \/ ~HasRemove

(* Nothing is pinned once the runtime is being disposed of, or the         *)
(* disposal has failed.                                                    *)
NoPinAfterwards == [][(disposal \in {"runtime", "rejected"}) => entries' \subseteq entries]_vars
=============================================================================
