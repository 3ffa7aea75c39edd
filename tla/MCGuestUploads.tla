-------------------------- MODULE MCGuestUploads --------------------------
(* Small instances of GuestUploads for TLC. *)
EXTENDS GuestUploads, TLC

\* A photo, and a video that one package refuses.
OnePhoto == {[size |-> 1, video |-> FALSE]}
OneVideo == {[size |-> 1, video |-> TRUE]}

\* The quota bites by count in the one.
ByCount == [media |-> 1, bytes |-> 2, video |-> 0]
Large   == [media |-> 2, bytes |-> 3, video |-> 2]
BothPackages == {ByCount, Large}
OnePackage   == {Large}

Symmetric == Permutations(Media) \cup Permutations(Reqs)
============================================================================
