---------------------------- MODULE AssetsProofs ----------------------------
(* Assets, for every set of keys and requests: its types, RowServable and NothingLeft, *)
(* from one inductive invariant.                                                       *)
EXTENDS Assets, TLAPS

\* A key that a column has held is out of its page's hands.
NamedInv ==
  /\ \A s \in Slots : row[s] \subseteq named
  /\ \A k \in named : page[k] \notin {"unused", "presigned"} /\ (k \in Covers => page[k] = "confirmed")

\* A confirmation of the cover that the column held: it will write nothing.
Same(r) == req[r].op = "confirm" /\ req[r].old = req[r].new

\* What a request is to name is in storage, its own, and no column has held it, unless it is a cover
\* confirmed again.
NewInv ==
  /\ again \subseteq Covers
  /\ \A r \in Reqs :
       /\ \A k \in req[r].new :
            /\ page[k] \notin {"unused", "presigned"} /\ (k \in Covers => page[k] = "confirmed")
            /\ \/ k \in again \/ Same(r)
               \/ k \in stored \ named /\ \A s \in Reqs \ {r} : k \notin req[s].new
       /\ \A k, l \in req[r].new, s \in Slots : k \in KeysOf(s) /\ l \in KeysOf(s) => k = l

\* A cover is confirmed from its own page; the form has the keys of its own kinds.
KindInv ==
  \A r \in Reqs :
    /\ req[r].op = "confirm" => req[r].new \subseteq Covers
    /\ req[r].op \in {"idle", "erase", "clear", "logo"} => req[r].new = {}
    /\ req[r].op = "favicon" => req[r].new \subseteq Logos
    /\ req[r].op = "rebrand" => req[r].new \cap Covers = {}

\* What a request read has been in a column, and once it deletes it no column has it, unless it
\* was confirmed again.
OldInv ==
  \A r \in Reqs :
    /\ req[r].old \subseteq named
    /\ req[r].op \in {"confirm", "erase", "clear"} => req[r].old \subseteq Covers
    /\ Deletes(r) => \A s \in Slots : row[s] \cap req[r].old \subseteq again
    /\ req[r].op = "clear" => req[r].old \cap stored = {}

IInv == TypeOK /\ NamedInv /\ NewInv /\ KindInv /\ OldInv /\ RowServable /\ NothingLeft

\* A key drawn for a cover is new.
LEMMA InitiateKeeps ==
  ASSUME IInv, NEW k \in Covers, initiate_cover(k)
  PROVE  IInv'
<1> USE AssetsAssumption DEF IInv, initiate_cover, history
<1>1. TypeOK'
  BY DEF TypeOK, Requests, Ops, Keys, KeysOf, Slots
<1>2. NamedInv'
  BY DEF TypeOK, NamedInv, NewInv, Same, KindInv, OldInv, Requests, Keys, KeysOf, Slots
<1>3. NewInv'
  BY DEF TypeOK, NamedInv, NewInv, Same, KindInv, Requests, Keys, KeysOf, Slots
<1>4. KindInv'
  BY DEF TypeOK, KindInv, Requests, Keys, KeysOf, Slots
<1>5. OldInv'
  BY DEF TypeOK, NamedInv, NewInv, Same, KindInv, OldInv, Deletes, Requests, Keys, KeysOf, Slots
<1>6. RowServable'
  BY DEF TypeOK, NamedInv, NewInv, Same, OldInv, RowServable, host_cover, guest_cover, brand_logo,
    brand_favicon, Deletes, Requests, Keys, KeysOf, Slots
<1>7. NothingLeft'
  BY DEF TypeOK, NamedInv, NewInv, Same, KindInv, OldInv, NothingLeft, Deletes, Requests, Keys, KeysOf, Slots
<1> QED
  BY <1>1, <1>2, <1>3, <1>4, <1>5, <1>6, <1>7

\* The browser stores a key that no column has held.
LEMMA PutCoverKeeps ==
  ASSUME IInv, NEW k \in Covers, PutCover(k)
  PROVE  IInv'
<1> USE AssetsAssumption DEF IInv, PutCover, history
<1>1. TypeOK'
  BY DEF TypeOK, Requests, Ops, Keys, KeysOf, Slots
<1>2. NamedInv'
  BY DEF TypeOK, NamedInv, NewInv, Same, KindInv, OldInv, Requests, Keys, KeysOf, Slots
<1>3. NewInv'
  BY DEF TypeOK, NamedInv, NewInv, Same, KindInv, Requests, Keys, KeysOf, Slots
<1>4. KindInv'
  BY DEF TypeOK, KindInv, Requests, Keys, KeysOf, Slots
<1>5. OldInv'
  BY DEF TypeOK, NamedInv, NewInv, Same, KindInv, OldInv, Deletes, Requests, Keys, KeysOf, Slots
<1>6. RowServable'
  BY DEF TypeOK, NamedInv, NewInv, Same, OldInv, RowServable, host_cover, guest_cover, brand_logo,
    brand_favicon, Deletes, Requests, Keys, KeysOf, Slots
<1>7. NothingLeft'
  BY DEF TypeOK, NamedInv, NewInv, Same, KindInv, OldInv, NothingLeft, Deletes, Requests, Keys, KeysOf, Slots
<1> QED
  BY <1>1, <1>2, <1>3, <1>4, <1>5, <1>6, <1>7

\* The confirmation holds a stored key and the key that the column held.
LEMMA ConfirmKeeps ==
  ASSUME IInv, NEW r \in Reqs, NEW k \in Covers, confirm_cover(r, k)
  PROVE  IInv'
<1> USE AssetsAssumption DEF IInv, confirm_cover, Idle, history
<1>1. TypeOK'
  BY DEF TypeOK, Requests, Ops, Keys, KeysOf, Slots
<1>2. NamedInv'
  BY DEF TypeOK, NamedInv, NewInv, Same, KindInv, OldInv, Requests, Keys, KeysOf, Slots
<1>3. NewInv'
  <2>1. /\ req' = [req EXCEPT ![r] = [op |-> "confirm", old |-> row["cover"], new |-> {k}]]
        /\ page' = [page EXCEPT ![k] = "confirmed"] /\ req[r].new = {}
        /\ stored' = stored /\ named' = named /\ k \in stored
    BY DEF KindInv
  <2>2. again \subseteq again' /\ again' \subseteq Covers /\ req \in [Reqs -> Requests]
    BY DEF TypeOK, NewInv
  <2>3. page' \in [Keys -> {"unused", "presigned", "put", "confirmed"}] /\ page'[k] = "confirmed"
    BY <2>1 DEF TypeOK, Keys
  <2>4. \/ k \in again' \/ row["cover"] = {k}
        \/ k \notin named /\ \A s \in Reqs : k \notin req[s].new
    <3>1. CASE page[k] # "confirmed"
      BY <3>1 DEF NamedInv, NewInv
    <3>2. CASE page[k] = "confirmed" /\ k \notin row["cover"]
      BY <3>2
    <3>3. CASE k \in row["cover"]
      BY <3>3 DEF TypeOK, Slots
    <3> QED
      BY <3>1, <3>2, <3>3
  <2>5. ASSUME NEW s \in Reqs, NEW l \in req'[s].new
        PROVE  /\ page'[l] \notin {"unused", "presigned"} /\ (l \in Covers => page'[l] = "confirmed")
               /\ \/ l \in again' \/ Same(s)'
                  \/ l \in stored' \ named' /\ \A q \in Reqs \ {s} : l \notin req'[q].new
    <3>1. CASE s = r
      <4>1. l = k /\ req'[s].op = "confirm" /\ req'[s].old = row["cover"] /\ req'[s].new = {k}
        BY <2>1, <2>2, <3>1
      <4>2. \A q \in Reqs \ {s} : req'[q] = req[q]
        BY <2>1, <2>2, <3>1
      <4> QED
        BY <2>1, <2>3, <2>4, <4>1, <4>2 DEF Same
    <3>2. CASE s # r
      <4>1. req'[s] = req[s] /\ l \in req[s].new /\ \A q \in Reqs \ {r} : req'[q] = req[q]
        BY <2>1, <2>2, <3>2
      <4>2. page'[l] \notin {"unused", "presigned"} /\ (l \in Covers => page'[l] = "confirmed")
        BY <2>1, <4>1 DEF TypeOK, NewInv
      <4>3. l = k => l \in again' \/ l \in named
        BY <2>4, <4>1 DEF TypeOK, NamedInv, Slots
      <4>4. l \in again \/ Same(s) \/ (l \in stored \ named /\ \A q \in Reqs \ {s} : l \notin req[q].new)
        BY <4>1 DEF NewInv
      <4>5. req'[r].new = {k}
        BY <2>1, <2>2
      <4> QED
        BY <2>1, <2>2, <4>1, <4>2, <4>3, <4>4, <4>5 DEF Same
    <3> QED
      BY <3>1, <3>2
  <2>6. ASSUME NEW s \in Reqs
        PROVE  \A x, y \in req'[s].new, z \in Slots : x \in KeysOf(z) /\ y \in KeysOf(z) => x = y
    BY <2>1, <2>2 DEF NewInv
  <2> QED
    BY <2>2, <2>5, <2>6 DEF NewInv
<1>4. KindInv'
  BY DEF TypeOK, KindInv, Requests, Keys, KeysOf, Slots
<1>5. OldInv'
  BY DEF TypeOK, NamedInv, NewInv, Same, KindInv, OldInv, Deletes, Requests, Keys, KeysOf, Slots
<1>6. RowServable'
  BY DEF TypeOK, NamedInv, NewInv, Same, OldInv, RowServable, host_cover, guest_cover, brand_logo,
    brand_favicon, Deletes, Requests, Keys, KeysOf, Slots
<1>7. NothingLeft'
  BY DEF TypeOK, NamedInv, NewInv, Same, KindInv, OldInv, NothingLeft, Deletes, Requests, Keys, KeysOf, Slots
<1> QED
  BY <1>1, <1>2, <1>3, <1>4, <1>5, <1>6, <1>7

\* The column takes a stored key; the one it held is deleted next, or was another's.
LEMMA CommitCoverKeeps ==
  ASSUME IInv, NEW r \in Reqs, CommitCover(r)
  PROVE  IInv'
<1> USE AssetsAssumption DEF IInv, CommitCover, Write, Replaced, Answer, Idle, history
<1>1. CASE req[r].old = req[r].new
  <2> USE <1>1
  <2>1. TypeOK'
    BY DEF TypeOK, Requests, Ops, Keys, KeysOf, Slots
  <2>2. NamedInv'
    BY DEF TypeOK, NamedInv, Slots
  <2>3. NewInv'
    BY DEF TypeOK, NewInv, Same, Requests
  <2>4. KindInv' /\ OldInv'
    BY DEF TypeOK, KindInv, OldInv, Deletes, Requests
  <2>5. RowServable'
    BY DEF TypeOK, RowServable, host_cover, guest_cover, brand_logo, brand_favicon, Requests
  <2>6. NothingLeft'
    BY DEF TypeOK, NothingLeft, Deletes, Requests
  <2> QED
    BY <2>1, <2>2, <2>3, <2>4, <2>5, <2>6
<1>2. CASE req[r].old # req[r].new
  <2> USE <1>2
  <2>0. /\ req' \in [Reqs -> Requests] /\ \A s \in Reqs \ {r} : req'[s] = req[s]
        /\ req'[r].new = {} /\ req'[r].old = req[r].old
        /\ req'[r].op = IF req[r].old = {} THEN "idle" ELSE "delete"
    <3>1. req[r] \in Requests /\ req' = [req EXCEPT ![r] = Replaced(r)]
      BY DEF TypeOK
    <3>2. /\ Replaced(r) \in Requests /\ Replaced(r).new = {} /\ Replaced(r).old = req[r].old
          /\ Replaced(r).op = IF req[r].old = {} THEN "idle" ELSE "delete"
      <4>1. CASE req[r].old = {}
        BY <4>1 DEF Requests, Ops
      <4>2. CASE req[r].old # {}
        <5> DEFINE d == [req[r] EXCEPT !.op = "delete", !.new = {}]
        <5>1. d \in Requests /\ d.new = {} /\ d.old = req[r].old /\ d.op = "delete"
          BY <3>1 DEF Requests, Ops
        <5> QED
          BY <4>2, <5>1
      <4> QED
        BY <4>1, <4>2
    <3> HIDE DEF Replaced
    <3> QED
      BY <3>1, <3>2 DEF TypeOK
  <2>1. TypeOK'
    <3>1. \A s \in Slots : row'[s] \subseteq KeysOf(s) /\ \A k, l \in row'[s] : k = l
      BY DEF TypeOK, NewInv, KindInv, Slots
    <3> QED
      BY <2>0, <3>1 DEF TypeOK, Requests, Keys, KeysOf, Slots
  <2>2. NamedInv'
    BY <2>0 DEF TypeOK, NamedInv, NewInv, Same, KindInv, OldInv, Requests, Keys, KeysOf, Slots
  <2>3. NewInv'
    BY <2>0 DEF TypeOK, NamedInv, NewInv, Same, KindInv, Requests, Keys, KeysOf, Slots
  <2>4. KindInv'
    BY <2>0 DEF TypeOK, KindInv, Requests, Keys, KeysOf, Slots
  <2>5. OldInv'
    BY <2>0 DEF TypeOK, NamedInv, NewInv, Same, KindInv, OldInv, Deletes, Requests, Keys, KeysOf, Slots
  <2>6. RowServable'
    BY <2>0 DEF TypeOK, NamedInv, NewInv, Same, OldInv, RowServable, host_cover, guest_cover, brand_logo,
      brand_favicon, Deletes, Requests, Keys, KeysOf, Slots
  <2>7. NothingLeft'
    <3> SUFFICES ASSUME NEW k \in named' \cap stored'
                 PROVE  \/ \E s \in Slots : k \in row'[s]
                        \/ \E s \in Reqs : Deletes(s)' /\ k \in req'[s].old
                        \/ k \in spoiled'
      BY DEF NothingLeft
    <3>1. CASE k \in req[r].new
      BY <3>1 DEF TypeOK, KindInv, Slots, KeysOf, Requests, Keys
    <3>2. CASE k \notin req[r].new /\ \E s \in Slots : k \in row[s]
      <4>1. PICK s \in Slots : k \in row[s] /\ k \in KeysOf(s)
        BY <3>2 DEF TypeOK
      <4>2. CASE s \notin {"cover"}
        BY <4>1, <4>2 DEF Slots
      <4>3. CASE s \in {"cover"} /\ k \notin req[r].old
        BY <3>2, <4>1, <4>3 DEF NamedInv, KindInv
      <4>4. CASE s \in {"cover"} /\ k \in req[r].old
        BY <2>0, <4>1, <4>4 DEF TypeOK, Deletes, Requests, Slots
      <4> QED
        BY <4>2, <4>3, <4>4
    <3>3. CASE \E s \in Reqs : Deletes(s) /\ k \in req[s].old
      BY <2>0, <3>3 DEF TypeOK, Deletes
    <3>4. CASE k \in spoiled
      BY <3>4
    <3> QED
      BY <3>1, <3>2, <3>3, <3>4 DEF NothingLeft
  <2> QED
    BY <2>1, <2>2, <2>3, <2>4, <2>5, <2>6, <2>7
<1> QED
  BY <1>1, <1>2

\* A removal holds the key that the column held.
LEMMA RemoveKeeps ==
  ASSUME IInv, NEW r \in Reqs, remove_cover(r)
  PROVE  IInv'
<1> USE AssetsAssumption DEF IInv, remove_cover, Idle, history
<1>1. TypeOK'
  BY DEF TypeOK, Requests, Ops, Keys, KeysOf, Slots
<1>2. NamedInv'
  BY DEF TypeOK, NamedInv, NewInv, Same, KindInv, OldInv, Requests, Keys, KeysOf, Slots
<1>3. NewInv'
  BY DEF TypeOK, NamedInv, NewInv, Same, KindInv, Requests, Keys, KeysOf, Slots
<1>4. KindInv'
  BY DEF TypeOK, KindInv, Requests, Keys, KeysOf, Slots
<1>5. OldInv'
  BY DEF TypeOK, NamedInv, NewInv, Same, KindInv, OldInv, Deletes, Requests, Keys, KeysOf, Slots
<1>6. RowServable'
  BY DEF TypeOK, NamedInv, NewInv, Same, OldInv, RowServable, host_cover, guest_cover, brand_logo,
    brand_favicon, Deletes, Requests, Keys, KeysOf, Slots
<1>7. NothingLeft'
  BY DEF TypeOK, NamedInv, NewInv, Same, KindInv, OldInv, NothingLeft, Deletes, Requests, Keys, KeysOf, Slots
<1> QED
  BY <1>1, <1>2, <1>3, <1>4, <1>5, <1>6, <1>7

\* A removal erases only a key that it is to clear, or whose removal it reports as failed.
LEMMA EraseCoverKeeps ==
  ASSUME IInv, NEW r \in Reqs, EraseCover(r)
  PROVE  IInv'
<1> USE AssetsAssumption DEF IInv, EraseCover, Then, Answer, Idle, history
<1>1. TypeOK'
  BY DEF TypeOK, Requests, Ops, Keys, KeysOf, Slots
<1>2. NamedInv'
  BY DEF TypeOK, NamedInv, NewInv, Same, KindInv, OldInv, Requests, Keys, KeysOf, Slots
<1>3. NewInv'
  BY DEF TypeOK, NamedInv, NewInv, Same, KindInv, OldInv, Requests, Keys, KeysOf, Slots
<1>4. KindInv'
  BY DEF TypeOK, KindInv, Requests, Keys, KeysOf, Slots
<1>5. OldInv'
  BY DEF TypeOK, NamedInv, NewInv, Same, KindInv, OldInv, Deletes, Requests, Keys, KeysOf, Slots
<1>6. RowServable'
  BY DEF TypeOK, NamedInv, NewInv, Same, OldInv, RowServable, host_cover, guest_cover, brand_logo,
    brand_favicon, Deletes, Requests, Keys, KeysOf, Slots
<1>7. NothingLeft'
  BY DEF TypeOK, NamedInv, NewInv, Same, KindInv, OldInv, NothingLeft, Deletes, Requests, Keys, KeysOf, Slots
<1> QED
  BY <1>1, <1>2, <1>3, <1>4, <1>5, <1>6, <1>7

\* A cleared column held the erased key, or another request's.
LEMMA ClearCoverKeeps ==
  ASSUME IInv, NEW r \in Reqs, ClearCover(r)
  PROVE  IInv'
<1> USE AssetsAssumption DEF IInv, ClearCover, Write, Answer, Idle, history
<1>1. TypeOK'
  BY DEF TypeOK, Requests, Ops, Keys, KeysOf, Slots
<1>2. NamedInv'
  BY DEF TypeOK, NamedInv, NewInv, Same, KindInv, OldInv, Requests, Keys, KeysOf, Slots
<1>3. NewInv'
  BY DEF TypeOK, NamedInv, NewInv, Same, KindInv, Requests, Keys, KeysOf, Slots
<1>4. KindInv'
  BY DEF TypeOK, KindInv, Requests, Keys, KeysOf, Slots
<1>5. OldInv'
  BY DEF TypeOK, NamedInv, NewInv, Same, KindInv, OldInv, Deletes, Requests, Keys, KeysOf, Slots
<1>6. RowServable'
  BY DEF TypeOK, NamedInv, NewInv, Same, OldInv, RowServable, host_cover, guest_cover, brand_logo,
    brand_favicon, Deletes, Requests, Keys, KeysOf, Slots
<1>7. NothingLeft'
  <2> SUFFICES ASSUME NEW k \in named' \cap stored'
               PROVE  \/ \E s \in Slots : k \in row'[s]
                      \/ \E s \in Reqs : Deletes(s)' /\ k \in req'[s].old
                      \/ k \in spoiled'
    BY DEF NothingLeft
  <2>1. CASE k \in req[r].new
    BY <2>1 DEF TypeOK, KindInv, Slots, KeysOf, Requests, Keys
  <2>2. CASE k \notin req[r].new /\ \E s \in Slots : k \in row[s]
    <3>1. PICK s \in Slots : k \in row[s] /\ k \in KeysOf(s)
      BY <2>2 DEF TypeOK
    <3>2. CASE s \notin {"cover"}
      BY <3>1, <3>2 DEF Slots
    <3>3. CASE s \in {"cover"} /\ k \notin req[r].old
      BY <2>2, <3>1, <3>3 DEF NamedInv, KindInv
    <3>4. CASE s \in {"cover"} /\ k \in req[r].old
      BY <3>1, <3>4 DEF OldInv
    <3> QED
      BY <3>2, <3>3, <3>4
  <2>3. CASE \E s \in Reqs : Deletes(s) /\ k \in req[s].old
    BY <2>3 DEF TypeOK, Deletes
  <2>4. CASE k \in spoiled
    BY <2>4
  <2> QED
    BY <2>1, <2>2, <2>3, <2>4 DEF NothingLeft
<1> QED
  BY <1>1, <1>2, <1>3, <1>4, <1>5, <1>6, <1>7

\* The form holds the keys that the columns held.
LEMMA UpdateKeeps ==
  ASSUME IInv, NEW r \in Reqs, update_branding(r)
  PROVE  IInv'
<1> USE AssetsAssumption DEF IInv, update_branding, Idle, history
<1>1. TypeOK'
  BY DEF TypeOK, Requests, Ops, Keys, KeysOf, Slots
<1>2. NamedInv'
  BY DEF TypeOK, NamedInv, NewInv, Same, KindInv, OldInv, Requests, Keys, KeysOf, Slots
<1>3. NewInv'
  BY DEF TypeOK, NamedInv, NewInv, Same, KindInv, Requests, Keys, KeysOf, Slots
<1>4. KindInv'
  BY DEF TypeOK, KindInv, Requests, Keys, KeysOf, Slots
<1>5. OldInv'
  BY DEF TypeOK, NamedInv, NewInv, Same, KindInv, OldInv, Deletes, Requests, Keys, KeysOf, Slots
<1>6. RowServable'
  BY DEF TypeOK, NamedInv, NewInv, Same, OldInv, RowServable, host_cover, guest_cover, brand_logo,
    brand_favicon, Deletes, Requests, Keys, KeysOf, Slots
<1>7. NothingLeft'
  BY DEF TypeOK, NamedInv, NewInv, Same, KindInv, OldInv, NothingLeft, Deletes, Requests, Keys, KeysOf, Slots
<1> QED
  BY <1>1, <1>2, <1>3, <1>4, <1>5, <1>6, <1>7

\* The logo is stored before a column names it.
LEMMA StoreLogoKeeps ==
  ASSUME IInv, NEW r \in Reqs, StoreLogo(r)
  PROVE  IInv'
<1> USE AssetsAssumption DEF IInv, StoreLogo, store_brand_asset, Then, history
<1>1. TypeOK'
  BY DEF TypeOK, Requests, Ops, Keys, KeysOf, Slots
<1>2. NamedInv'
  BY DEF TypeOK, NamedInv, NewInv, Same, KindInv, OldInv, Requests, Keys, KeysOf, Slots
<1>3. NewInv'
  BY DEF TypeOK, NamedInv, NewInv, Same, KindInv, Requests, Keys, KeysOf, Slots
<1>4. KindInv'
  BY DEF TypeOK, KindInv, Requests, Keys, KeysOf, Slots
<1>5. OldInv'
  BY DEF TypeOK, NamedInv, NewInv, Same, KindInv, OldInv, Deletes, Requests, Keys, KeysOf, Slots
<1>6. RowServable'
  BY DEF TypeOK, NamedInv, NewInv, Same, OldInv, RowServable, host_cover, guest_cover, brand_logo,
    brand_favicon, Deletes, Requests, Keys, KeysOf, Slots
<1>7. NothingLeft'
  BY DEF TypeOK, NamedInv, NewInv, Same, KindInv, OldInv, NothingLeft, Deletes, Requests, Keys, KeysOf, Slots
<1> QED
  BY <1>1, <1>2, <1>3, <1>4, <1>5, <1>6, <1>7

\* So is the favicon.
LEMMA StoreFaviconKeeps ==
  ASSUME IInv, NEW r \in Reqs, StoreFavicon(r)
  PROVE  IInv'
<1> USE AssetsAssumption DEF IInv, StoreFavicon, store_brand_asset, Then, history
<1>1. TypeOK'
  BY DEF TypeOK, Requests, Ops, Keys, KeysOf, Slots
<1>2. NamedInv'
  BY DEF TypeOK, NamedInv, NewInv, Same, KindInv, OldInv, Requests, Keys, KeysOf, Slots
<1>3. NewInv'
  BY DEF TypeOK, NamedInv, NewInv, Same, KindInv, Requests, Keys, KeysOf, Slots
<1>4. KindInv'
  BY DEF TypeOK, KindInv, Requests, Keys, KeysOf, Slots
<1>5. OldInv'
  BY DEF TypeOK, NamedInv, NewInv, Same, KindInv, OldInv, Deletes, Requests, Keys, KeysOf, Slots
<1>6. RowServable'
  BY DEF TypeOK, NamedInv, NewInv, Same, OldInv, RowServable, host_cover, guest_cover, brand_logo,
    brand_favicon, Deletes, Requests, Keys, KeysOf, Slots
<1>7. NothingLeft'
  BY DEF TypeOK, NamedInv, NewInv, Same, KindInv, OldInv, NothingLeft, Deletes, Requests, Keys, KeysOf, Slots
<1> QED
  BY <1>1, <1>2, <1>3, <1>4, <1>5, <1>6, <1>7

\* The columns of the form take its keys; those they held are deleted next.
LEMMA CommitBrandingKeeps ==
  ASSUME IInv, NEW r \in Reqs, CommitBranding(r)
  PROVE  IInv'
<1> USE AssetsAssumption DEF IInv, CommitBranding, Write, Renewed, history
<1>1. TypeOK'
  <2>1. \A s \in Slots : row'[s] \subseteq KeysOf(s) /\ \A k, l \in row'[s] : k = l
    BY DEF TypeOK, NewInv, KindInv, Slots
  <2>2. req[r] \in Requests
    BY DEF TypeOK
  <2>3. req'[r] \in Requests /\ req' = [req EXCEPT ![r] = req'[r]]
    BY <2>2 DEF TypeOK, Requests, Ops
  <2>4. req' \in [Reqs -> Requests]
    BY <2>3 DEF TypeOK
  <2> QED
    BY <2>1, <2>2, <2>4 DEF TypeOK, Requests, Keys, KeysOf, Slots
<1>2. NamedInv'
  BY DEF TypeOK, NamedInv, NewInv, Same, KindInv, OldInv, Requests, Keys, KeysOf, Slots
<1>3. NewInv'
  BY DEF TypeOK, NamedInv, NewInv, Same, KindInv, Requests, Keys, KeysOf, Slots
<1>4. KindInv'
  BY DEF TypeOK, KindInv, Requests, Keys, KeysOf, Slots
<1>5. OldInv'
  BY DEF TypeOK, NamedInv, NewInv, Same, KindInv, OldInv, Deletes, Requests, Keys, KeysOf, Slots
<1>6. RowServable'
  BY DEF TypeOK, NamedInv, NewInv, Same, OldInv, RowServable, host_cover, guest_cover, brand_logo,
    brand_favicon, Deletes, Requests, Keys, KeysOf, Slots
<1>7. NothingLeft'
  <2> SUFFICES ASSUME NEW k \in named' \cap stored'
               PROVE  \/ \E s \in Slots : k \in row'[s]
                      \/ \E s \in Reqs : Deletes(s)' /\ k \in req'[s].old
                      \/ k \in spoiled'
    BY DEF NothingLeft
  <2>1. CASE k \in req[r].new
    BY <2>1 DEF TypeOK, KindInv, Slots, KeysOf, Requests, Keys
  <2>2. CASE k \notin req[r].new /\ \E s \in Slots : k \in row[s]
    <3>1. PICK s \in Slots : k \in row[s] /\ k \in KeysOf(s)
      BY <2>2 DEF TypeOK
    <3>2. CASE s \notin Renewed(r)
      BY <3>1, <3>2 DEF Slots
    <3>3. CASE s \in Renewed(r) /\ k \notin req[r].old
      BY <2>2, <3>1, <3>3 DEF NamedInv, KindInv
    <3>4. CASE s \in Renewed(r) /\ k \in req[r].old
      <4>1. k \in req'[r].old /\ req'[r].op = "delete_assets"
        BY <3>1, <3>4 DEF TypeOK
      <4> QED
        BY <4>1 DEF Deletes
    <3> QED
      BY <3>2, <3>3, <3>4
  <2>3. CASE \E s \in Reqs : Deletes(s) /\ k \in req[s].old
    BY <2>3 DEF TypeOK, Deletes
  <2>4. CASE k \in spoiled
    BY <2>4
  <2> QED
    BY <2>1, <2>2, <2>3, <2>4 DEF NothingLeft
<1> QED
  BY <1>1, <1>2, <1>3, <1>4, <1>5, <1>6, <1>7

\* What is deleted is in no column.
LEMMA DeleteOldKeeps ==
  ASSUME IInv, NEW r \in Reqs, DeleteOld(r)
  PROVE  IInv'
<1> USE AssetsAssumption DEF IInv, DeleteOld, Answer, Idle, history
<1>1. TypeOK'
  BY DEF TypeOK, Requests, Ops, Keys, KeysOf, Slots
<1>2. NamedInv'
  BY DEF TypeOK, NamedInv, NewInv, Same, KindInv, OldInv, Requests, Keys, KeysOf, Slots
<1>3. NewInv'
  BY DEF TypeOK, NamedInv, NewInv, Same, KindInv, OldInv, Requests, Keys, KeysOf, Slots
<1>4. KindInv'
  BY DEF TypeOK, KindInv, Requests, Keys, KeysOf, Slots
<1>5. OldInv'
  BY DEF TypeOK, NamedInv, NewInv, Same, KindInv, OldInv, Deletes, Requests, Keys, KeysOf, Slots
<1>6. RowServable'
  BY DEF TypeOK, NamedInv, NewInv, Same, OldInv, RowServable, host_cover, guest_cover, brand_logo,
    brand_favicon, Deletes, Requests, Keys, KeysOf, Slots
<1>7. NothingLeft'
  BY DEF TypeOK, NamedInv, NewInv, Same, KindInv, OldInv, NothingLeft, Deletes, Requests, Keys, KeysOf, Slots
<1> QED
  BY <1>1, <1>2, <1>3, <1>4, <1>5, <1>6, <1>7

\* A request that dies leaves what it was to delete or to clear.
LEMMA CloseKeeps ==
  ASSUME IInv, NEW r \in Reqs, Close(r)
  PROVE  IInv'
<1> USE AssetsAssumption DEF IInv, Close, Answer, Idle, history
<1>1. TypeOK'
  BY DEF TypeOK, Requests, Ops, Keys, KeysOf, Slots
<1>2. NamedInv'
  BY DEF TypeOK, NamedInv, NewInv, Same, KindInv, OldInv, Requests, Keys, KeysOf, Slots
<1>3. NewInv'
  BY DEF TypeOK, NamedInv, NewInv, Same, KindInv, Requests, Keys, KeysOf, Slots
<1>4. KindInv'
  BY DEF TypeOK, KindInv, Requests, Keys, KeysOf, Slots
<1>5. OldInv'
  BY DEF TypeOK, NamedInv, NewInv, Same, KindInv, OldInv, Deletes, Requests, Keys, KeysOf, Slots
<1>6. RowServable'
  BY DEF TypeOK, NamedInv, NewInv, Same, OldInv, RowServable, host_cover, guest_cover, brand_logo,
    brand_favicon, Deletes, Requests, Keys, KeysOf, Slots
<1>7. NothingLeft'
  BY DEF TypeOK, NamedInv, NewInv, Same, KindInv, OldInv, NothingLeft, Deletes, Requests, Keys, KeysOf, Slots
<1> QED
  BY <1>1, <1>2, <1>3, <1>4, <1>5, <1>6, <1>7

\* The site opens with no picture.
LEMMA InitInv == Init => IInv
<1> SUFFICES ASSUME Init PROVE IInv
  OBVIOUS
<1> USE AssetsAssumption DEF Init, Idle
<1>1. TypeOK
  BY DEF TypeOK, Requests, Ops, Keys, KeysOf, Slots
<1>2. NamedInv /\ NewInv /\ KindInv /\ OldInv
  BY DEF NamedInv, NewInv, Same, KindInv, OldInv, Deletes
<1>3. RowServable /\ NothingLeft
  BY DEF RowServable, NothingLeft, host_cover, guest_cover, brand_logo, brand_favicon, Slots
<1> QED
  BY <1>1, <1>2, <1>3 DEF IInv

\* Every step, and a stutter, keeps the invariant.
LEMMA NextInv == IInv /\ [Next]_vars => IInv'
<1> SUFFICES ASSUME IInv, [Next]_vars PROVE IInv'
  OBVIOUS
<1>1. CASE UNCHANGED vars
  BY <1>1 DEF vars, history, IInv, TypeOK, NamedInv, NewInv, Same, KindInv, OldInv, Deletes,
              RowServable, NothingLeft, host_cover, guest_cover, brand_logo, brand_favicon
<1>2. ASSUME NEW k \in Covers, initiate_cover(k) \/ PutCover(k) PROVE IInv'
  BY <1>2, InitiateKeeps, PutCoverKeeps
<1>3. ASSUME NEW r \in Reqs, CoverStep(r) PROVE IInv'
  BY <1>3, ConfirmKeeps, CommitCoverKeeps, RemoveKeeps, EraseCoverKeeps, ClearCoverKeeps DEF CoverStep
<1>4. ASSUME NEW r \in Reqs, BrandingStep(r) PROVE IInv'
  BY <1>4, UpdateKeeps, StoreLogoKeeps, StoreFaviconKeeps, CommitBrandingKeeps DEF BrandingStep
<1>5. ASSUME NEW r \in Reqs, DeleteOld(r) \/ Close(r) PROVE IInv'
  BY <1>5, DeleteOldKeeps, CloseKeeps
<1> QED
  BY <1>1, <1>2, <1>3, <1>4, <1>5 DEF Next

\* The inductive invariant holds in every reachable state.
THEOREM Invariance == Spec => []IInv
  BY InitInv, NextInv, PTL DEF Spec

\* The columns and the requests keep their types (app/models.py).
THEOREM TypeCorrect == Spec => []TypeOK
<1>1. IInv => TypeOK
  BY DEF IInv
<1> QED
  BY Invariance, <1>1, PTL

\* The routes of the covers and of the branding redirect to objects that are there, but for a
\* removal that is about to clear the column or died, or a cover confirmed again after it was
\* replaced (app/main.py:417, app/branding.py:72).
THEOREM RowsServable == Spec => []RowServable
<1>1. IInv => RowServable
  BY DEF IInv
<1> QED
  BY Invariance, <1>1, PTL

\* A replaced picture is deleted, but for overlapping requests and failures of the store
\* (app/main.py:403, app/admin.py:561).
THEOREM ReplacedDeleted == Spec => []NothingLeft
<1>1. IInv => NothingLeft
  BY DEF IInv
<1> QED
  BY Invariance, <1>1, PTL
=============================================================================
