---------------------------- MODULE MCEpochStore ----------------------------
(* Instances of EpochStore for TLC. *)
EXTENDS EpochStore

\* A chunk that expires in the last tick in which epoch 0 leaves the window.
LateTtl == {5}

OnlyPermanent == {NoTtl}
=============================================================================
