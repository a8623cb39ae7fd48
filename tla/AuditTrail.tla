----------------------------- MODULE AuditTrail -----------------------------
(***************************************************************************)
(* What custodian-audit-log promises of its hash chain: entries are only   *)
(* ever added, one at a time; each embeds the digest of an entry that was  *)
(* in the trail before it, and enters the trail when its object is in the  *)
(* WORM bucket already.  Nothing is said of which earlier entry that is:   *)
(* two services may extend the trail from the same one.                    *)
(***************************************************************************)
EXTENDS Naturals

VARIABLES
    objects,    \* the digests that have an object in the WORM bucket
    entries     \* the trail, as a set of [prev, hash]

Genesis == 0    \* "0" * 64

Digests == {e.hash : e \in entries}

Init ==
    /\ objects = {}
    /\ entries = {}

Put ==
    /\ \E h \in objects' : h \notin objects /\ objects' = objects \union {h}
    /\ UNCHANGED entries

Extend ==
    /\ \E e \in entries' :
          /\ e.prev = Genesis \/ e.prev \in Digests
          /\ e.hash \in objects
          /\ e.hash \notin Digests
          /\ entries' = entries \union {e}
    /\ UNCHANGED objects

Next == Put \/ Extend

Spec == Init /\ [][Next]_<<objects, entries>>
=============================================================================
