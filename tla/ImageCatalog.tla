---------------------------- MODULE ImageCatalog ----------------------------
(***************************************************************************)
(* What an image file promises its users: at most Capacity images, each    *)
(* under one name, that appear, disappear and are served whole.  Nothing   *)
(* is said of slots, offsets, buffers or resolutions.                      *)
(***************************************************************************)
EXTENDS Naturals, FiniteSets

CONSTANTS Names, Images, Capacity,
          Nothing     \* not an image

VARIABLES
    stored,   \* the image stored under each name
    answer    \* the last name asked for and the image served for it

Stored == {n \in Names : stored[n] # Nothing}

Init ==
    /\ stored = [n \in Names |-> Nothing]
    /\ answer = <<Nothing, Nothing>>

\* A new catalogue replaces the old one.
Wipe ==
    /\ stored' = [n \in Names |-> Nothing]
    /\ UNCHANGED answer

Put(n, image) ==
    /\ stored[n] = Nothing
    /\ Cardinality(Stored) < Capacity
    /\ stored' = [stored EXCEPT ![n] = image]
    /\ UNCHANGED answer

Remove(n) ==
    /\ stored[n] # Nothing
    /\ stored' = [stored EXCEPT ![n] = Nothing]
    /\ UNCHANGED answer

\* A reader gets what is stored, or learns that nothing is.
Serve(n) ==
    /\ answer' = <<n, stored[n]>>
    /\ UNCHANGED stored

Next ==
    \/ Wipe
    \/ \E n \in Names : Remove(n) \/ Serve(n) \/ \E image \in Images : Put(n, image)

Spec == Init /\ [][Next]_<<stored, answer>>
=============================================================================
