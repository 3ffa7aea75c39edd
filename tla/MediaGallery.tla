---------------------------- MODULE MediaGallery ----------------------------
(***************************************************************************)
(* What an event's gallery promises of its media, with no jobs, crashes or *)
(* sessions: a media is shown when all its copies are in storage, is not   *)
(* taken back but to replace a shared preview, loses nothing from storage  *)
(* before its host asks, and leaves the event after its original is gone,  *)
(* or if it was given up before its original came.                         *)
(***************************************************************************)
CONSTANTS Media, Videos, Legacy, Shared

VARIABLES
  stage,      \* of each media: "pending", "waiting", "ready", "failed" or "removed"
  keys,       \* the copies it names
  originals,  \* the originals in storage
  copies,     \* the copies in storage
  asked,      \* whose deletion hosts asked for
  missed      \* what was given up before its original came

vars == <<stage, keys, originals, copies, asked, missed>>

All(m) == {m} \X (IF m \in Videos THEN {"processed", "poster"} ELSE {"preview"})

\* Nobody else may miss the object of k.
Free(k) == k[1] \in asked \/ (k[1] = Shared /\ asked \cap Legacy # {})

Move(S, s) == stage' = [m \in Media |-> IF m \in S THEN s ELSE stage[m]]

Arrive(m) ==
  /\ m \notin originals /\ m \notin asked \ missed
  /\ stage[m] = "pending" \/ (stage[m] = "removed" /\ m \in missed)
  /\ originals' = originals \cup {m}
  /\ UNCHANGED <<stage, keys, copies, asked, missed>>

\* Somebody found no original and gave the media up.
Miss(m) ==
  /\ stage[m] = "pending" /\ m \notin originals
  /\ missed' = missed \cup {m}
  /\ UNCHANGED <<stage, keys, originals, copies, asked>>

MayGo(m) ==
  \/ m \in asked /\ (m \notin originals \/ m \in missed)
  \/ m \in missed /\ stage[m] \in {"pending", "waiting"}

\* One commit lets some in, whose original was found, and others go.
Settle ==
  /\ DOMAIN stage' = Media
  /\ \A m \in Media :
       \/ stage'[m] = stage[m]
       \/ stage'[m] = "waiting" /\ stage[m] = "pending" /\ m \in originals \cup asked
       \/ stage'[m] = "removed" /\ MayGo(m)
  /\ UNCHANGED <<keys, originals, copies, asked, missed>>

Store(m, k) ==
  /\ stage[m] # "pending" /\ k \in All(m)
  /\ copies' = copies \cup {k}
  /\ UNCHANGED <<stage, keys, originals, asked, missed>>

Show(m) ==
  /\ stage[m] = "waiting" /\ Move({m}, "ready")
  /\ m \in asked \/ All(m) \subseteq copies
  /\ keys' = [keys EXCEPT ![m] = All(m)]
  /\ UNCHANGED <<originals, copies, asked, missed>>

GiveUp(m) ==
  /\ stage[m] = "waiting" /\ Move({m}, "failed")
  /\ UNCHANGED <<keys, originals, copies, asked, missed>>

\* What failed may be tried again; what is shown is only rebuilt for copies of its own.
Again(S) ==
  /\ \A m \in S : stage[m] = "failed" \/ (stage[m] = "ready" /\ \E k \in keys[m] : k[1] = Shared)
  /\ Move(S, "waiting")
  /\ UNCHANGED <<keys, originals, copies, asked, missed>>

\* A host asks; what he asked for leaves storage, all or some of it.
Ask(S) ==
  /\ \A m \in S : stage[m] # "removed"
  /\ asked' = asked \cup S
  /\ \E M \in SUBSET {m \in S : stage[m] = "pending" /\ m \notin originals} : missed' = missed \cup M
  /\ UNCHANGED <<stage, keys, originals, copies>>

Erase ==
  /\ originals' \subseteq originals /\ originals \ originals' \subseteq asked
  /\ copies' \subseteq copies /\ \A k \in copies \ copies' : Free(k)
  /\ UNCHANGED <<stage, keys, asked, missed>>

\* The deletion of a media that is not in Media and shares the preview.
EraseShared ==
  /\ asked' = asked \cup {Shared}
  /\ copies' = copies \ {<<Shared, "preview">>}
  /\ UNCHANGED <<stage, keys, originals, missed>>

Init ==
  /\ stage = [m \in Media |-> IF m \in Legacy THEN "ready" ELSE "pending"]
  /\ keys = [m \in Media |-> IF m \in Legacy THEN {<<Shared, "preview">>} ELSE {}]
  /\ originals = Legacy
  /\ copies = IF Legacy = {} THEN {} ELSE {<<Shared, "preview">>}
  /\ asked = {} /\ missed = {}

Next ==
  \/ Settle \/ Erase \/ EraseShared
  \/ \E S \in SUBSET Media : Ask(S) \/ Again(S)
  \/ \E m \in Media : \/ Arrive(m) \/ Miss(m) \/ Show(m) \/ GiveUp(m)
                      \/ \E k \in All(m) : Store(m, k)

Spec == Init /\ [][Next]_vars

\* What a media in the event names is in storage until it may be missed; what has left the event
\* was asked for and left storage before (delete_media), or was given up before its original came.
Promise ==
  \A m \in Media :
    /\ m \notin asked /\ stage[m] \in {"waiting", "ready", "failed"} => m \in originals
    /\ m \notin asked => \A k \in keys[m] : k \in copies \/ Free(k)
    /\ stage[m] = "ready" => keys[m] # {}
    /\ stage[m] = "removed" => m \in missed \/ (m \in asked /\ m \notin originals)
=============================================================================
