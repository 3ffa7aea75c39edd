------------------------------- MODULE Assets -------------------------------
(***************************************************************************)
(* The pictures a row names and the object store keeps: an event's cover,  *)
(* uploaded by its host's page and then confirmed, and the platform's logo *)
(* and favicon, uploaded by the administrator's form (app/main.py,         *)
(* app/admin.py). A new object is stored before the row names it and the   *)
(* old one erased after it does not, but nothing locks the row: each       *)
(* request goes by the key it read. A request may die at any step.         *)
(***************************************************************************)
EXTENDS Naturals, FiniteSets

CONSTANTS
  Covers, Logos, Favicons,  \* object keys, drawn at random and never twice
  Reqs                      \* concurrent requests

ASSUME AssetsAssumption ==
  Covers \cap Logos = {} /\ Covers \cap Favicons = {} /\ Logos \cap Favicons = {}

Keys  == Covers \cup Logos \cup Favicons
Slots == {"cover", "logo", "favicon"}
KeysOf(slot) == CASE slot = "cover" -> Covers [] slot = "logo" -> Logos [] slot = "favicon" -> Favicons
Ops   == {"idle", "confirm", "erase", "clear", "logo", "favicon", "rebrand", "delete", "delete_assets"}

VARIABLES
  row,      \* the key that each column holds, as a set of at most one
  stored,   \* the objects of the store
  page,     \* how far each key has come: drawn by the server, stored, sent for confirmation
  req,      \* each request: what it does next, the keys it read and those it stored
  named,    \* history: the keys that a column has held
  spoiled,  \* history: keys replaced by a request that had not read them, or left by one
            \* whose deletion failed
  torn,     \* history: covers erased by a removal that did not clear the column
  again     \* history: covers confirmed a second time while the column held another

history == <<named, spoiled, torn, again>>
vars    == <<row, stored, page, req, history>>

Idle == [op |-> "idle", old |-> {}, new |-> {}]
Then(r, op) == req' = [req EXCEPT ![r].op = op]
Answer(r)   == req' = [req EXCEPT ![r] = Idle]

\* Variant: the keys of a form not told apart.
WriteMixed(r, slots, keys) ==
  /\ row' = [s \in Slots |-> IF s \in slots THEN keys ELSE row[s]]
  /\ named' = named \cup keys /\ UNCHANGED <<spoiled, again>>

\* A commit writes the columns it changed; what another request put there meanwhile is lost.
Write(r, slots, keys) ==
  /\ row' = [s \in Slots |-> IF s \in slots THEN keys \cap KeysOf(s) ELSE row[s]]
  /\ named' = named \cup keys
  /\ spoiled' = spoiled \cup {k \in named \ req[r].old : \E s \in slots : k \in row[s] \ keys}
  /\ UNCHANGED again
----------------------------------------------------------------------------
(* The cover (app/main.py and the host's page).                            *)

initiate_cover(k) ==
  /\ page[k] = "unused"
  /\ page' = [page EXCEPT ![k] = "presigned"]
  /\ UNCHANGED <<row, stored, req, history>>

\* static/event-editor.js: the browser's PUT.
PutCover(k) ==
  /\ page[k] = "presigned"
  /\ page' = [page EXCEPT ![k] = "put"] /\ stored' = stored \cup {k}
  /\ UNCHANGED <<row, req, history>>

\* The row is read, then the object looked up.  The host's page asks once, but the server takes
\* any cover that is stored, whenever and however often it is asked.
confirm_cover(r, k) ==
  /\ req[r] = Idle /\ k \in stored
  /\ page' = [page EXCEPT ![k] = "confirmed"]
  /\ req' = [req EXCEPT ![r] = [op |-> "confirm", old |-> row["cover"], new |-> {k}]]
  /\ again' = again \cup {c \in {k} : page[c] = "confirmed" /\ c \notin row["cover"]}
  /\ UNCHANGED <<row, stored, named, spoiled, torn>>

Replaced(r) == IF req[r].old = {} THEN Idle ELSE [req[r] EXCEPT !.op = "delete", !.new = {}]

\* Variant: the previous key not compared with the new one before it is deleted.
DeletePrevious(r) ==
  /\ req[r].op = "confirm"
  /\ Write(r, {"cover"}, req[r].new)
  /\ req' = [req EXCEPT ![r] = Replaced(r)]
  /\ UNCHANGED <<stored, page, torn>>

\* For the key that was read no column changes, so nothing is written, and nothing is deleted.
CommitCover(r) ==
  /\ req[r].op = "confirm"
  /\ \/ req[r].old = req[r].new /\ Answer(r) /\ UNCHANGED <<row, named, spoiled, again>>
     \/ /\ req[r].old # req[r].new
        /\ Write(r, {"cover"}, req[r].new)
        /\ req' = [req EXCEPT ![r] = Replaced(r)]
  /\ UNCHANGED <<stored, page, torn>>

\* Of a row that names nothing, nothing is written.
remove_cover(r) ==
  /\ req[r] = Idle /\ row["cover"] # {}
  /\ req' = [req EXCEPT ![r] = [op |-> "erase", old |-> row["cover"], new |-> {}]]
  /\ UNCHANGED <<row, stored, page, history>>

\* An error of the store is answered with a 502, whether or not the object is gone.
EraseCover(r) ==
  /\ req[r].op = "erase"
  /\ \/ stored' = stored \ req[r].old /\ Then(r, "clear") /\ UNCHANGED torn
     \/ stored' = stored \ req[r].old /\ Answer(r) /\ torn' = torn \cup req[r].old
  /\ UNCHANGED <<row, page, named, spoiled, again>>

ClearCover(r) ==
  /\ req[r].op = "clear"
  /\ Write(r, {"cover"}, {})
  /\ Answer(r)
  /\ UNCHANGED <<stored, page, torn>>
----------------------------------------------------------------------------
(* The branding form (app/admin.py): a coroutine that yields where it      *)
(* reads an uploaded file, and runs to its end from the last such place.   *)

LoopFree(r) == \A s \in Reqs \ {r} : req[s].op \notin {"rebrand", "delete_assets"}

update_branding(r) ==
  /\ req[r] = Idle /\ LoopFree(r)
  /\ req' = [req EXCEPT ![r] = [op |-> "logo", old |-> row["logo"] \cup row["favicon"], new |-> {}]]
  /\ UNCHANGED <<row, stored, page, history>>

\* No file, or one that is stored under a new key.
store_brand_asset(r, keys, next) ==
  /\ LoopFree(r)
  /\ \/ Then(r, next) /\ UNCHANGED <<stored, page>>
     \/ \E k \in keys :
          /\ page[k] = "unused"
          /\ page' = [page EXCEPT ![k] = "put"] /\ stored' = stored \cup {k}
          /\ req' = [req EXCEPT ![r].op = next, ![r].new = @ \cup {k}]
  /\ UNCHANGED <<row, history>>

StoreLogo(r)    == req[r].op = "logo" /\ store_brand_asset(r, Logos, "favicon")
StoreFavicon(r) == req[r].op = "favicon" /\ store_brand_asset(r, Favicons, "rebrand")

Renewed(r) == {s \in {"logo", "favicon"} : req[r].new \cap KeysOf(s) # {}}

CommitBranding(r) ==
  /\ req[r].op = "rebrand"
  /\ Write(r, Renewed(r), req[r].new)
  /\ req' = [req EXCEPT ![r] = [op |-> "delete_assets", new |-> {},
                                old |-> @.old \cap UNION {KeysOf(s) : s \in Renewed(r)}]]
  /\ UNCHANGED <<stored, page, torn>>
----------------------------------------------------------------------------
Deletes(r) == req[r].op \in {"delete", "delete_assets"}

\* Variant: the old objects left.
NoneDeleted(r) == Deletes(r) /\ Answer(r) /\ UNCHANGED <<row, stored, page, history>>

\* After the commit: an error leaves the objects, unnoticed for a cover, with a 500 for the form.
DeleteOld(r) ==
  /\ Deletes(r)
  /\ Answer(r)
  /\ \/ stored' = stored \ req[r].old /\ UNCHANGED spoiled
     \/ spoiled' = spoiled \cup req[r].old /\ UNCHANGED stored
  /\ UNCHANGED <<row, page, named, torn, again>>

\* A file or the form refused, an exception, or the process dies.
Close(r) ==
  /\ req[r] # Idle
  /\ Answer(r)
  /\ spoiled' = IF Deletes(r) THEN spoiled \cup req[r].old ELSE spoiled
  /\ torn' = IF req[r].op = "clear" THEN torn \cup req[r].old ELSE torn
  /\ UNCHANGED <<row, stored, page, named, again>>
----------------------------------------------------------------------------
\* Migration 0012 makes the branding row.
Init ==
  /\ row = [s \in Slots |-> {}] /\ stored = {}
  /\ page = [k \in Keys |-> "unused"]
  /\ req = [r \in Reqs |-> Idle]
  /\ named = {} /\ spoiled = {} /\ torn = {} /\ again = {}

CoverStep(r) ==
  \/ \E k \in Covers : confirm_cover(r, k)
  \/ CommitCover(r) \/ remove_cover(r) \/ EraseCover(r) \/ ClearCover(r)

BrandingStep(r) == update_branding(r) \/ StoreLogo(r) \/ StoreFavicon(r) \/ CommitBranding(r)

Next ==
  \/ \E k \in Covers : initiate_cover(k) \/ PutCover(k)
  \/ \E r \in Reqs : CoverStep(r) \/ BrandingStep(r) \/ DeleteOld(r) \/ Close(r)

Spec == Init /\ [][Next]_vars
----------------------------------------------------------------------------
(* What the routes redirect to; without a logo or a favicon, to a file of the program. *)

host_cover    == row["cover"]
guest_cover   == row["cover"]
brand_logo    == row["logo"]
brand_favicon == row["favicon"]
----------------------------------------------------------------------------
(* Properties                                                              *)

Requests == [op : Ops, old : SUBSET Keys, new : SUBSET Keys]

\* Types; a column holds at most one key, of its own kind.
TypeOK ==
  /\ \A s \in Slots : row[s] \subseteq KeysOf(s) /\ \A k, l \in row[s] : k = l
  /\ stored \subseteq Keys /\ page \in [Keys -> {"unused", "presigned", "put", "confirmed"}]
  /\ req \in [Reqs -> Requests]
  /\ named \subseteq Keys /\ spoiled \subseteq Keys /\ torn \cup again \subseteq Keys

\* The pages never show a dead picture: an object that a column names is there, though requests
\* race and a cover is confirmed anew, except a cover whose removal is about to clear the column
\* or died, and one confirmed a second time after another had taken its place.
RowServable ==
  host_cover \cup guest_cover \cup brand_logo \cup brand_favicon
    \subseteq stored \cup torn \cup again
               \cup UNION {req[r].old : r \in {r \in Reqs : req[r].op = "clear"}}

\* The store keeps no picture that was replaced: one that no column names any more is about to
\* be deleted, or was replaced by a request that had not read it, or its deletion failed.
NothingLeft ==
  \A k \in named \cap stored :
    \/ \E s \in Slots : k \in row[s]
    \/ \E r \in Reqs : Deletes(r) /\ k \in req[r].old
    \/ k \in spoiled
----------------------------------------------------------------------------
(* What the code does not do.                                              *)

\* Every object belongs to a column, a page or a request.
NoneAbandoned ==
  \A k \in stored :
    \/ \E s \in Slots : k \in row[s]
    \/ \E r \in Reqs : k \in req[r].old \cup req[r].new
    \/ k \in Covers /\ page[k] = "put"

\* What a confirmation that passed the check of the store names, stays there until it is replaced
\* or removed.
ConfirmedServable == row["cover"] \subseteq stored \cup torn
                       \cup UNION {req[r].old : r \in {r \in Reqs : req[r].op = "clear"}}

\* A removal clears what it erased.
RemovalClears == [][\A r \in Reqs : ClearCover(r) => row["cover"] \subseteq req[r].old]_vars
=============================================================================
