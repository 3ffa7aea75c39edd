------------------------- MODULE GuestUploadsProofs -------------------------
(* GuestUploads, for every set of media, files, packages and requests: its types,     *)
(* WithinPackage, UploadedVerified, ToldKept and NoOrphans, from one inductive        *)
(* invariant; that the folds of its byte quota are sums; and that it implements       *)
(* UploadLedger.                                                                      *)
EXTENDS GuestUploads, FiniteSetTheorems, WellFoundedInduction, TLAPS

\* The sessions and the pass as records.
Sessions == [op : {"idle", "initiate", "reserved", "confirm", "delete", "deleted"},
             rows : SUBSET Media, file : SUBSET Files, package : SUBSET Packages]

RecordInv ==
  /\ tx \in [Reqs -> Sessions]
  /\ \E D \in SUBSET Media :
       cleaning \in [phase : {"idle", "pass", "down"}, todo : SUBSET Media,
                     writes : [D -> {"removed", "uploaded", "failed"}]]

\* The PUT of a row is not over; nothing is stored for it and nothing more will be.
Early(m)   == client[m] \in {"none", "ready", "sending"}
Sealed(m)  == object[m] = "none" /\ client[m] # "sending" /\ (client[m] = "ready" => age[m] = "stale")

\* What was found for a row, if no host had it erased since; a request is to confirm the row.
Genuine(m) == object[m] = "match" \/ (object[m] = "none" /\ m \in asked)
Refuted(m) == object[m] = "mismatch" \/ (object[m] = "none" /\ m \in asked)
Confirming(m) == \E r \in Reqs : tx[r].op = "confirm" /\ m \in tx[r].rows

\* What the page, the row and the object say of each other.
RowInv ==
  \A m \in Media :
    /\ client[m] = "none" <=> status[m] = "absent"
    /\ Early(m) => object[m] = "none" /\ status[m] \in {"absent", "pending", "removed"}
    /\ m \in asked => status[m] # "absent" /\ (Early(m) => m \in hasty)
    /\ status[m] = "failed" => Refuted(m)
    /\ status[m] = "uploaded" => Genuine(m)
    /\ m \notin SlowPuts /\ age[m] = "stale" => client[m] # "sending"
    /\ m \notin SlowPuts \cup hasty /\ status[m] = "removed" => Sealed(m)

\* Between its check and its commit a request stays right about the rows it is to change.
SessionOf(r) ==
  /\ tx[r].op = "confirm" =>
       \E m \in Media : tx[r].rows = {m} /\ status[m] \notin {"absent", "failed"}
                        /\ ~Early(m) /\ Genuine(m)
  /\ tx[r].op \in {"delete", "deleted"} => tx[r].rows \subseteq asked
  /\ tx[r].op = "deleted" => \A m \in tx[r].rows : m \in hasty \/ object[m] = "none"

SessionInv == \A r \in Reqs : SessionOf(r)

\* So does a pass of the cleanup.
CleaningInv ==
  /\ \A m \in cleaning.todo : status[m] \notin {"absent", "failed"} /\ age[m] = "stale"
  /\ \A m \in DOMAIN cleaning.writes :
       /\ status[m] \notin {"absent", "failed"}
       /\ cleaning.writes[m] = "removed" /\ m \notin SlowPuts => Sealed(m)
       /\ cleaning.writes[m] = "uploaded" => ~Early(m) /\ Genuine(m)
       /\ cleaning.writes[m] = "failed" =>
            ~Early(m) /\ Refuted(m) /\ status[m] # "uploaded" /\ ~Confirming(m)

\* One request has the lock; what it was promised still fits into a package the event has had.
QuotaInv ==
  /\ IsFiniteSet(event_package_usage)
  /\ \A r, s \in Reqs : tx[r].op = "reserved" /\ tx[s].op = "reserved" => r = s
  /\ \A r \in Reqs :
       tx[r].op \in {"initiate", "reserved"} =>
         \E f \in Files, p \in granted : tx[r].file = {f} /\ tx[r].package = {p}
  /\ \A r \in Reqs :
       tx[r].op = "reserved" =>
         /\ \E m \in Media : tx[r].rows = {m} /\ status[m] = "absent"
         /\ \A p \in tx[r].package, f \in tx[r].file : Entitled(p, f)

Safe == WithinPackage /\ UploadedVerified /\ ToldKept

IInv == TypeOK /\ RecordInv /\ RowInv /\ SessionInv /\ CleaningInv /\ QuotaInv /\ Safe
-----------------------------------------------------------------------------
(* The byte quota. *)

\* The sum of the sizes in S, as the fold of the community modules computes it.
First(s)   == CHOOSE m \in s : TRUE
Adds(g, S, sum) ==
  sum = [s \in SUBSET S |-> IF s = {} THEN 0 ELSE g[First(s)].size + sum[s \ {First(s)}]]
Fold(g, S) == CHOOSE sum : Adds(g, S, sum)

\* The same sum, counted: one cell for each unit of each member.
Cell(g, m)  == {m} \X (1 .. g[m].size)
Cells(g, S) == UNION {Cell(g, m) : m \in S}
Total(g, S) == Cardinality(Cells(g, S))

Sized(g, S) == IsFiniteSet(S) /\ \A m \in S : g[m].size \in Nat

LEMMA Column ==
  ASSUME NEW m, NEW T, IsFiniteSet(T)
  PROVE  IsFiniteSet({m} \X T) /\ Cardinality({m} \X T) = Cardinality(T)
<1>1. IsFiniteSet({m}) /\ Cardinality({m}) = 1
  BY FS_Singleton
<1>2. IsFiniteSet({m} \X T) /\ Cardinality({m} \X T) = Cardinality({m}) * Cardinality(T)
  BY <1>1, FS_Product
<1>3. Cardinality(T) \in Nat
  BY FS_CardinalityType
<1> QED
  BY <1>1, <1>2, <1>3

LEMMA Count ==
  ASSUME NEW n \in Nat
  PROVE  IsFiniteSet(1 .. n) /\ Cardinality(1 .. n) = n
<1>1. 1 \in Int /\ n \in Int
  OBVIOUS
<1> QED
  BY <1>1, FS_Interval

LEMMA CellCount ==
  ASSUME NEW g, NEW m, g[m].size \in Nat
  PROVE  IsFiniteSet(Cell(g, m)) /\ Cardinality(Cell(g, m)) = g[m].size
<1> DEFINE T == 1 .. g[m].size
<1>1. IsFiniteSet(T) /\ Cardinality(T) = g[m].size
  BY Count
<1>2. Cell(g, m) = {m} \X T
  BY DEF Cell
<1> HIDE DEF T
<1> QED
  BY <1>1, <1>2, Column, ZenonT(30)

LEMMA CellsFinite ==
  ASSUME NEW g, NEW S, Sized(g, S)
  PROVE  IsFiniteSet(Cells(g, S)) /\ Total(g, S) \in Nat
<1> DEFINE family == {Cell(g, m) : m \in S}
           cell   == [m \in S |-> Cell(g, m)]
<1>1. cell \in Surjection(S, family)
  BY DEF Surjection
<1>2. IsFiniteSet(family)
  BY <1>1, FS_Surjection DEF Sized
<1>3. \A T \in family : IsFiniteSet(T)
  BY CellCount DEF Sized
<1>4. IsFiniteSet(Cells(g, S))
  BY <1>2, <1>3, FS_UNION DEF Cells
<1> QED
  BY <1>4, FS_CardinalityType DEF Total

LEMMA TotalAdd ==
  ASSUME NEW g, NEW S, Sized(g, S), NEW m \in S
  PROVE  Total(g, S) = g[m].size + Total(g, S \ {m})
<1>1. Cells(g, S) = Cells(g, S \ {m}) \cup Cell(g, m)
  BY DEF Cells
<1>2. Cells(g, S \ {m}) \cap Cell(g, m) = {}
  BY DEF Cells, Cell
<1>3. Sized(g, S \ {m})
  BY FS_RemoveElement DEF Sized
<1>4. IsFiniteSet(Cells(g, S \ {m})) /\ Total(g, S \ {m}) \in Nat
  BY <1>3, CellsFinite
<1>5. IsFiniteSet(Cell(g, m)) /\ Cardinality(Cell(g, m)) = g[m].size /\ g[m].size \in Nat
  BY CellCount DEF Sized
<1>6. Cardinality(Cells(g, S \ {m}) \cap Cell(g, m)) = 0
  BY <1>2, FS_EmptySet
<1>7. Cardinality(Cells(g, S)) =
        Cardinality(Cells(g, S \ {m})) + Cardinality(Cell(g, m)) - 0
  BY <1>1, <1>4, <1>5, <1>6, FS_Union
<1> QED
  BY <1>4, <1>5, <1>7 DEF Total

LEMMA TotalEmpty == ASSUME NEW g PROVE Total(g, {}) = 0
<1>1. Cells(g, {}) = {}
  BY DEF Cells
<1> QED
  BY <1>1, FS_EmptySet DEF Total

LEMMA TotalSubset ==
  ASSUME NEW g, NEW S, Sized(g, S), NEW T \in SUBSET S
  PROVE  Total(g, T) <= Total(g, S)
<1>1. Cells(g, T) \in SUBSET Cells(g, S)
  BY DEF Cells
<1> QED
  BY <1>1, CellsFinite, FS_Subset DEF Total

LEMMA TotalSame ==
  ASSUME NEW g, NEW h, NEW S, \A m \in S : g[m] = h[m]
  PROVE  Total(g, S) = Total(h, S)
<1>1. Cells(g, S) = Cells(h, S)
  BY DEF Cells, Cell
<1> QED
  BY <1>1 DEF Total

\* The fold computes the total: the recursion has a solution, and only one.
LEMMA FoldIsTotal ==
  ASSUME NEW g, NEW S, Sized(g, S)
  PROVE  Fold(g, S)[S] = Total(g, S)
<1> DEFINE total  == [s \in SUBSET S |-> Total(g, s)]
           sum    == Fold(g, S)
           differ == {s \in SUBSET S : sum[s] # total[s]}
<1>1. \A s \in SUBSET S : Sized(g, s)
  BY FS_Subset DEF Sized
<1>2. \A s \in SUBSET S : s # {} => First(s) \in s
  BY DEF First
<1>3. \A s \in SUBSET S :
        total[s] = IF s = {} THEN 0 ELSE g[First(s)].size + total[s \ {First(s)}]
  <2> TAKE s \in SUBSET S
  <2>1. CASE s = {}
    BY <2>1, TotalEmpty
  <2>2. CASE s # {}
    BY <2>2, <1>1, <1>2, TotalAdd
  <2> QED
    BY <2>1, <2>2
<1>4. Adds(g, S, total)
  BY <1>3 DEF Adds
<1>5. Adds(g, S, sum)
  BY <1>4 DEF Fold
<1>6. \A s \in SUBSET S :
        sum[s] = IF s = {} THEN 0 ELSE g[First(s)].size + sum[s \ {First(s)}]
  BY <1>5 DEF Adds
<1>7. ASSUME differ # {}
      PROVE  FALSE
  <2>1. IsWellFoundedOn(StrictSubsetOrdering(S), FiniteSubsetsOf(S))
    BY FS_StrictSubsetOrderingWellFounded
  <2>2. differ \subseteq FiniteSubsetsOf(S)
    BY FS_Subset DEF FiniteSubsetsOf, Sized
  <2>3. PICK s \in differ : \A y \in differ : ~ (<<y, s>> \in StrictSubsetOrdering(S))
    BY <2>1, <2>2, <1>7, WFMin
  <2>4. CASE s = {}
    BY <2>4, <1>3, <1>6, <2>3
  <2>5. CASE s # {}
    <3> DEFINE y == s \ {First(s)}
    <3>1. y \in SUBSET S /\ y \subseteq s /\ y # s
      BY <2>5, <1>2
    <3>2. <<y, s>> \in StrictSubsetOrdering(S)
      BY <3>1 DEF StrictSubsetOrdering
    <3>3. sum[y] = total[y]
      BY <3>1, <3>2, <2>3
    <3> QED
      BY <3>3, <2>3, <2>5, <1>3, <1>6
  <2> QED
    BY <2>4, <2>5
<1>8. sum[S] = total[S]
  BY <1>7
<1> QED
  BY <1>8

LEMMA BytesNow ==
  ASSUME NEW S, Sized(file, S)
  PROVE  Bytes(S) = Total(file, S)
<1>1. Bytes(S) = Fold(file, S)[S]
  BY DEF Bytes, MapThenSumSet, MapThenFoldSet, Fold, Adds, First
<1> QED
  BY <1>1, FoldIsTotal

LEMMA BytesNext ==
  ASSUME Sized(file', event_package_usage')
  PROVE  Bytes(event_package_usage)' = Total(file', event_package_usage')
<1>1. Bytes(event_package_usage)' = Fold(file', event_package_usage')[event_package_usage']
  BY DEF Bytes, MapThenSumSet, MapThenFoldSet, Fold, Adds, First
<1> QED
  BY <1>1, FoldIsTotal

-----------------------------------------------------------------------------
(* What all steps have in common. *)

LEMMA Limits ==
  /\ \A f \in Files : f.size \in Nat \ {0} /\ f.video \in BOOLEAN
  /\ \A p \in Packages : p.media \in Nat /\ p.bytes \in Nat /\ p.video \in Nat
BY UploadAssumption

\* What is true of a row once it is reserved stays true.
Kept(m) ==
  /\ status'[m] # "absent"
  /\ status'[m] = "failed" => status[m] = "failed" \/ (cleaning' # cleaning /\ ~Confirming(m))
  /\ status'[m] = "uploaded" => status[m] = "uploaded" \/ cleaning' # cleaning \/ Confirming(m)
  /\ Confirming(m)' => Confirming(m) \/ object[m] = "match"
  /\ ~Early(m) => ~Early(m)'
  /\ ~Early(m) /\ Genuine(m) => Genuine(m)'
  /\ ~Early(m) /\ Refuted(m) => Refuted(m)'
  /\ m \notin SlowPuts /\ Sealed(m) => Sealed(m)'
  /\ object[m] = "none" /\ ~Early(m) => object'[m] = "none"
  /\ age[m] = "stale" => age'[m] = "stale"

RowsKept ==
  /\ asked \subseteq asked' /\ hasty \subseteq hasty'
  /\ \A m \in Media : status[m] # "absent" => Kept(m)

LEMMA SessionsKept ==
  ASSUME IInv, RowsKept,
         \A r \in Reqs : \/ tx'[r] = tx[r]
                         \/ tx'[r].op \in {"idle", "initiate", "reserved"}
                         \/ SessionOf(r)'
  PROVE  SessionInv'
<1> SUFFICES ASSUME NEW r \in Reqs, tx'[r] = tx[r]
             PROVE  SessionOf(r)'
  BY DEF SessionInv, SessionOf
<1>1. SessionOf(r) /\ tx[r].rows \subseteq Media
  BY DEF IInv, SessionInv, RecordInv, Sessions
<1>2. ASSUME tx[r].op = "confirm"
      PROVE  \E m \in Media : tx'[r].rows = {m} /\ status'[m] \notin {"absent", "failed"}
                               /\ ~Early(m)' /\ Genuine(m)'
  <2>1. PICK m \in Media : tx[r].rows = {m} /\ status[m] \notin {"absent", "failed"}
                            /\ ~Early(m) /\ Genuine(m)
    BY <1>1, <1>2 DEF SessionOf
  <2>2. Kept(m) /\ Confirming(m)
    BY <1>2, <2>1 DEF RowsKept, Confirming
  <2> QED
    BY <2>1, <2>2 DEF Kept
<1>3. ASSUME tx[r].op = "deleted"
      PROVE  \A m \in tx[r].rows : m \in hasty' \/ object'[m] = "none"
  <2>1. \A m \in tx[r].rows : m \in Media /\ m \in asked /\ (m \in hasty \/ object[m] = "none")
    BY <1>1, <1>3 DEF SessionOf
  <2>2. \A m \in tx[r].rows : status[m] # "absent" /\ (m \in hasty \/ ~Early(m))
    BY <2>1 DEF IInv, RowInv
  <2> QED
    BY <2>1, <2>2 DEF RowsKept, Kept
<1> QED
  BY <1>1, <1>2, <1>3 DEF SessionOf, RowsKept

LEMMA CleaningKept ==
  ASSUME IInv, RowsKept, cleaning' = cleaning
  PROVE  CleaningInv'
<1>1. cleaning.todo \subseteq Media /\ DOMAIN cleaning.writes \subseteq Media
  BY DEF IInv, RecordInv
<1>2. \A m \in cleaning.todo : status'[m] \notin {"absent", "failed"} /\ age'[m] = "stale"
  BY <1>1 DEF IInv, CleaningInv, RowsKept, Kept
<1>3. ASSUME NEW m \in DOMAIN cleaning.writes
      PROVE  /\ status'[m] \notin {"absent", "failed"}
             /\ cleaning.writes[m] = "removed" /\ m \notin SlowPuts => Sealed(m)'
             /\ cleaning.writes[m] = "uploaded" => ~Early(m)' /\ Genuine(m)'
             /\ cleaning.writes[m] = "failed" =>
                  ~Early(m)' /\ Refuted(m)' /\ status'[m] # "uploaded" /\ ~Confirming(m)'
  <2>1. status[m] \notin {"absent", "failed"} /\ Kept(m)
    BY <1>1 DEF IInv, CleaningInv, RowsKept
  <2>2. Refuted(m) => object[m] # "match"
    BY DEF Refuted
  <2> QED
    BY <2>1, <2>2 DEF IInv, CleaningInv, Kept
<1> QED
  BY <1>2, <1>3 DEF CleaningInv

\* Only confirm_upload makes a request confirm.
LEMMA NoneConfirms ==
  ASSUME \A r \in Reqs : tx'[r] = tx[r] \/ tx'[r].op # "confirm"
  PROVE  \A m \in Media : Confirming(m)' => Confirming(m)
BY DEF Confirming

LEMMA UsageSized ==
  ASSUME IInv
  PROVE  /\ event_package_usage \subseteq Media /\ Sized(file, event_package_usage)
         /\ Cardinality(event_package_usage) \in Nat
         /\ Bytes(event_package_usage) = Total(file, event_package_usage)
         /\ Bytes(event_package_usage) \in Nat
<1>1. event_package_usage \subseteq Media
  BY DEF event_package_usage
<1>2. Sized(file, event_package_usage)
  BY <1>1, Limits DEF IInv, QuotaInv, TypeOK, Sized
<1> QED
  BY <1>1, <1>2, BytesNow, CellsFinite, FS_CardinalityType DEF Sized

\* The quota outlives every step that adds no row.
LEMMA UsageKept ==
  ASSUME IInv, event_package_usage' \subseteq event_package_usage, file' = file,
         granted \subseteq granted'
  PROVE  /\ IsFiniteSet(event_package_usage') /\ WithinPackage'
         /\ \A p \in Packages, f \in Files : Entitled(p, f) => Entitled(p, f)'
<1> DEFINE U == event_package_usage
           V == event_package_usage'
<1>1. IsFiniteSet(V) /\ Cardinality(V) \in Nat /\ Cardinality(V) <= Cardinality(U)
  BY UsageSized, FS_Subset, FS_CardinalityType DEF Sized
<1>2. Sized(file', V)
  BY <1>1, UsageSized DEF Sized
<1>3. Bytes(U)' = Total(file, V) /\ Total(file, V) \in Nat
  BY <1>2, BytesNext, CellsFinite
<1>4. Total(file, V) <= Total(file, U)
  BY UsageSized, TotalSubset
<1>5. Cardinality(U)' <= Cardinality(U) /\ Bytes(U)' <= Bytes(U)
  BY <1>1, <1>3, <1>4, UsageSized
<1>6. Cardinality(U)' \in Nat /\ Bytes(U)' \in Nat /\ Cardinality(U) \in Nat /\ Bytes(U) \in Nat
  BY <1>1, <1>3, UsageSized
<1>7. WithinPackage'
  <2>1. PICK p \in granted : Cardinality(U) <= p.media /\ Bytes(U) <= p.bytes
    BY DEF IInv, Safe, WithinPackage
  <2>2. p \in granted' /\ p.media \in Nat /\ p.bytes \in Nat
    BY Limits DEF IInv, TypeOK
  <2>3. Cardinality(U)' <= p.media /\ Bytes(U)' <= p.bytes
    BY <2>1, <2>2, <1>5, <1>6
  <2> QED
    BY <2>2, <2>3 DEF WithinPackage
<1>8. ASSUME NEW p \in Packages, NEW f \in Files, Entitled(p, f)
      PROVE  Entitled(p, f)'
  <2>1. p.media \in Nat /\ p.bytes \in Nat /\ f.size \in Nat
    BY Limits
  <2>2. Cardinality(U)' < p.media /\ Bytes(U)' + f.size <= p.bytes
    BY <2>1, <1>5, <1>6, <1>8 DEF Entitled
  <2> QED
    BY <2>2, <1>8 DEF Entitled
<1> QED
  BY <1>1, <1>7, <1>8

LEMMA QuotaKept ==
  ASSUME IInv, event_package_usage' \subseteq event_package_usage, file' = file,
         granted \subseteq granted',
         \A m \in Media : status[m] = "absent" => status'[m] = "absent",
         \A r \in Reqs : tx'[r] = tx[r] \/ tx'[r].op \in {"idle", "confirm", "delete", "deleted"}
  PROVE  QuotaInv' /\ WithinPackage'
<1>1. /\ IsFiniteSet(event_package_usage') /\ WithinPackage'
      /\ \A p \in Packages, f \in Files : Entitled(p, f) => Entitled(p, f)'
  BY UsageKept
<1>2. \A r \in Reqs : tx[r].file \subseteq Files /\ tx[r].package \subseteq Packages
  BY DEF IInv, TypeOK
<1>3. \A r, s \in Reqs : tx'[r].op = "reserved" /\ tx'[s].op = "reserved" => r = s
  BY DEF IInv, QuotaInv
<1>4. \A r \in Reqs :
        tx'[r].op \in {"initiate", "reserved"} =>
          \E f \in Files, p \in granted' : tx'[r].file = {f} /\ tx'[r].package = {p}
  BY DEF IInv, QuotaInv
<1>5. \A r \in Reqs : tx'[r].op = "reserved" =>
        /\ tx'[r] = tx[r]
        /\ \E m \in Media : tx[r].rows = {m} /\ status[m] = "absent"
        /\ \A p \in tx[r].package, f \in tx[r].file : Entitled(p, f)
  BY DEF IInv, QuotaInv
<1>6. \A r \in Reqs : tx'[r].op = "reserved" =>
        /\ \E m \in Media : tx'[r].rows = {m} /\ status'[m] = "absent"
        /\ \A p \in tx'[r].package, f \in tx'[r].file : Entitled(p, f)'
  BY <1>1, <1>2, <1>5
<1> QED
  BY <1>1, <1>3, <1>4, <1>6 DEF QuotaInv

\* A step that changes neither the sessions nor the pass, nor adds a row.
LEMMA QuietStep ==
  ASSUME IInv, TypeOK', RowInv', UploadedVerified', ToldKept', RowsKept,
         tx' = tx, cleaning' = cleaning, event_package_usage' \subseteq event_package_usage,
         file' = file, granted \subseteq granted',
         \A m \in Media : status[m] = "absent" => status'[m] = "absent"
  PROVE  IInv'
<1>1. RecordInv'
  BY DEF IInv, RecordInv
<1>2. SessionInv' /\ CleaningInv'
  BY SessionsKept, CleaningKept
<1>3. QuotaInv' /\ WithinPackage'
  BY QuotaKept
<1> QED
  BY <1>1, <1>2, <1>3 DEF IInv, Safe
-----------------------------------------------------------------------------
(* The guest, time and the event. *)

LEMMA InitInv == Init => IInv
<1> SUFFICES ASSUME Init PROVE IInv
  OBVIOUS
<1>1. TypeOK
  <2>1. (CHOOSE f \in Files : TRUE) \in Files
    BY UploadAssumption
  <2> QED
    BY <2>1 DEF Init, TypeOK, Idle, At, None, RowStatuses, Clients
<1>2. RecordInv
  <2>1. cleaning \in [phase : {"idle", "pass", "down"}, todo : SUBSET Media,
                      writes : [{} -> {"removed", "uploaded", "failed"}]]
    BY DEF Init, At, None
  <2>2. tx \in [Reqs -> Sessions]
    BY DEF Init, Idle, Sessions
  <2> QED
    BY <2>1, <2>2 DEF RecordInv
<1>3. RowInv /\ SessionInv /\ CleaningInv
  BY DEF Init, RowInv, SessionInv, SessionOf, CleaningInv, Idle, At, None, Early
<1>4. event_package_usage = {}
  BY DEF Init, event_package_usage
<1>5. Sized(file, {}) /\ Cardinality({}) = 0
  BY FS_EmptySet DEF Sized
<1>6. Bytes(event_package_usage) = 0 /\ Cardinality(event_package_usage) = 0
  BY <1>4, <1>5, BytesNow, TotalEmpty
<1>7. QuotaInv
  BY <1>4, FS_EmptySet DEF Init, QuotaInv, Idle
<1>8. Safe
  <2>1. package.media \in Nat /\ package.bytes \in Nat /\ package \in granted
    BY Limits DEF Init
  <2>2. WithinPackage
    BY <2>1, <1>6 DEF WithinPackage
  <2> QED
    BY <2>2 DEF Init, Safe, UploadedVerified, ToldKept
<1> QED
  BY <1>1, <1>2, <1>3, <1>7, <1>8 DEF IInv

LEMMA StartPutKeeps ==
  ASSUME IInv, NEW m \in Media, StartPut(m)
  PROVE  IInv'
<1> USE DEF StartPut, event, rows
<1>1. TypeOK'
  BY DEF IInv, TypeOK, Clients
<1>2. RowInv' /\ UploadedVerified' /\ ToldKept'
  BY DEF IInv, TypeOK, RowInv, Early, Sealed, Genuine, Refuted, Safe, UploadedVerified, ToldKept
<1>3. RowsKept
  BY DEF IInv, TypeOK, RowsKept, Kept, Early, Sealed, Genuine, Refuted, Confirming
<1> QED
  BY <1>1, <1>2, <1>3, QuietStep DEF event_package_usage

LEMMA FinishPutKeeps ==
  ASSUME IInv, NEW m \in Media, FinishPut(m)
  PROVE  IInv'
<1> USE DEF FinishPut, event, rows
<1>1. TypeOK'
  BY DEF IInv, TypeOK, Clients
<1>2. RowInv' /\ UploadedVerified' /\ ToldKept'
  BY DEF IInv, TypeOK, RowInv, Early, Sealed, Genuine, Refuted, Safe, UploadedVerified, ToldKept
<1>3. RowsKept
  BY DEF IInv, TypeOK, RowInv, RowsKept, Kept, Early, Sealed, Genuine, Refuted, Confirming
<1> QED
  BY <1>1, <1>2, <1>3, QuietStep DEF event_package_usage

LEMMA LeaveKeeps ==
  ASSUME IInv, NEW m \in Media, Leave(m)
  PROVE  IInv'
<1> USE DEF Leave, event, rows
<1>1. TypeOK'
  BY DEF IInv, TypeOK, Clients
<1>2. RowInv' /\ UploadedVerified' /\ ToldKept'
  BY DEF IInv, TypeOK, RowInv, Early, Sealed, Genuine, Refuted, Safe, UploadedVerified, ToldKept
<1>3. RowsKept
  BY DEF IInv, TypeOK, RowsKept, Kept, Early, Sealed, Genuine, Refuted, Confirming
<1> QED
  BY <1>1, <1>2, <1>3, QuietStep DEF event_package_usage

LEMMA AgeKeeps ==
  ASSUME IInv, NEW m \in Media, Age(m)
  PROVE  IInv'
<1> USE DEF Age, event
<1>1. TypeOK'
  BY DEF IInv, TypeOK
<1>2. RowInv' /\ UploadedVerified' /\ ToldKept'
  BY DEF IInv, TypeOK, RowInv, Early, Sealed, Genuine, Refuted, Safe, UploadedVerified, ToldKept
<1>3. RowsKept
  BY DEF IInv, TypeOK, RowsKept, Kept, Early, Sealed, Genuine, Refuted, Confirming
<1> QED
  BY <1>1, <1>2, <1>3, QuietStep DEF event_package_usage

LEMMA AnswerKeeps ==
  ASSUME IInv, NEW m \in Media, ConfirmKnown(m)
  PROVE  IInv'
<1> USE DEF ConfirmKnown, event, rows
<1>1. TypeOK'
  BY DEF IInv, TypeOK, Clients
<1>2. RowInv' /\ UploadedVerified' /\ ToldKept'
  BY DEF IInv, TypeOK, RowInv, Early, Sealed, Genuine, Refuted, Safe, UploadedVerified, ToldKept
<1>3. RowsKept
  BY DEF IInv, TypeOK, RowsKept, Kept, Early, Sealed, Genuine, Refuted, Confirming
<1> QED
  BY <1>1, <1>2, <1>3, QuietStep DEF event_package_usage

LEMMA EventKeeps ==
  ASSUME IInv, NEW p \in Packages, SetPackage(p)
  PROVE  IInv'
<1> USE DEF SetPackage, rows
<1>1. TypeOK'
  BY DEF IInv, TypeOK
<1>2. RowInv' /\ UploadedVerified' /\ ToldKept'
  BY DEF IInv, RowInv, Early, Sealed, Genuine, Refuted, Safe, UploadedVerified, ToldKept
<1>3. RowsKept
  BY DEF IInv, RowInv, RowsKept, Kept, Early, Sealed, Genuine, Refuted, Confirming
<1> QED
  BY <1>1, <1>2, <1>3, QuietStep DEF event_package_usage
-----------------------------------------------------------------------------
(* Web requests. *)

LEMMA SessionUpdates ==
  ASSUME NEW t \in Sessions
  PROVE  /\ \A o \in {"reserved", "deleted"} : [t EXCEPT !.op = o] \in Sessions
         /\ \A S \in SUBSET Media : [t EXCEPT !.rows = S] \in Sessions
BY DEF Sessions

LEMMA InitiateKeeps ==
  ASSUME IInv, NEW r \in Reqs, NEW f \in Files, initiate_upload(r, f)
  PROVE  IInv'
<1> USE DEF initiate_upload, event, rows
<1> DEFINE new == [op |-> "initiate", rows |-> {}, file |-> {f}, package |-> {package}]
<1>1. package \in Packages /\ tx' = [tx EXCEPT ![r] = new] /\ tx'[r] = new
  BY DEF IInv, TypeOK, RecordInv
<1>2. TypeOK' /\ RecordInv'
  BY <1>1 DEF IInv, TypeOK, RecordInv, Sessions
<1>3. RowInv' /\ UploadedVerified' /\ ToldKept' /\ RowsKept
  BY DEF IInv, RowInv, Early, Sealed, Genuine, Refuted, Safe, UploadedVerified, ToldKept,
     RowsKept, Kept, Confirming
<1>4. \A s \in Reqs : tx'[s] = tx[s] \/ (s = r /\ tx'[s].op = "initiate")
  BY <1>1 DEF IInv, RecordInv
<1>5. SessionInv' /\ CleaningInv'
  BY <1>3, <1>4, SessionsKept, CleaningKept
<1>6. /\ IsFiniteSet(event_package_usage') /\ WithinPackage'
      /\ \A p \in Packages, g \in Files : Entitled(p, g) => Entitled(p, g)'
  BY UsageKept DEF event_package_usage
<1>7. QuotaInv'
  <2>1. \A s, t \in Reqs : tx'[s].op = "reserved" /\ tx'[t].op = "reserved" => s = t
    BY <1>4 DEF IInv, QuotaInv
  <2>2. \E g \in Files, p \in granted' : tx'[r].file = {g} /\ tx'[r].package = {p}
    BY <1>1 DEF IInv, TypeOK
  <2>3. \A s \in Reqs :
          tx'[s].op \in {"initiate", "reserved"} =>
            \E g \in Files, p \in granted' : tx'[s].file = {g} /\ tx'[s].package = {p}
    BY <1>4, <2>2 DEF IInv, QuotaInv
  <2>4. \A s \in Reqs : tx[s].file \subseteq Files /\ tx[s].package \subseteq Packages
    BY DEF IInv, TypeOK
  <2>5. \A s \in Reqs : tx'[s].op = "reserved" =>
          /\ \E m \in Media : tx'[s].rows = {m} /\ status'[m] = "absent"
          /\ \A p \in tx'[s].package, g \in tx'[s].file : Entitled(p, g)'
    BY <1>4, <1>6, <2>4 DEF IInv, QuotaInv
  <2> QED
    BY <1>6, <2>1, <2>3, <2>5 DEF QuotaInv
<1> QED
  BY <1>2, <1>3, <1>5, <1>6, <1>7 DEF IInv, Safe

LEMMA EnforceKeeps ==
  ASSUME IInv, NEW r \in Reqs, NEW m \in Media, enforce_upload_entitlement(r, m)
  PROVE  IInv'
<1> USE DEF enforce_upload_entitlement, event, rows
<1>1. /\ tx'[r].op = "reserved" /\ tx'[r].rows = {m} /\ tx'[r].file = tx[r].file
      /\ tx'[r].package = tx[r].package
      /\ \A s \in Reqs : s # r => tx'[s] = tx[s]
  BY DEF IInv, RecordInv
<1>2. RecordInv'
  <2>1. tx \in [Reqs -> Sessions] /\ tx[r] \in Sessions
    BY DEF IInv, RecordInv
  <2>2. tx'[r] = [[tx[r] EXCEPT !.op = "reserved"] EXCEPT !.rows = {m}]
    BY <2>1
  <2>3. tx'[r] \in Sessions
    BY <2>1, <2>2, SessionUpdates
  <2>4. tx' \in [Reqs -> Sessions]
    BY <2>1, <2>3, <1>1
  <2> QED
    BY <2>4 DEF IInv, RecordInv
<1>3. TypeOK'
  BY <1>1, ZenonT(30) DEF IInv, TypeOK
<1>4. RowInv' /\ UploadedVerified' /\ ToldKept' /\ RowsKept
  <2>1. \A k \in Media : Confirming(k)' => Confirming(k)
    BY <1>1, NoneConfirms
  <2> QED
    BY <2>1 DEF IInv, RowInv, Early, Sealed, Genuine, Refuted, Safe, UploadedVerified, ToldKept,
       RowsKept, Kept
<1>5. SessionInv' /\ CleaningInv'
  BY <1>1, <1>4, SessionsKept, CleaningKept
<1>6. /\ IsFiniteSet(event_package_usage') /\ WithinPackage'
      /\ \A p \in Packages, g \in Files : Entitled(p, g) => Entitled(p, g)'
  BY UsageKept DEF event_package_usage
<1>7. QuotaInv'
  <2>1. \A s \in Reqs : s # r => tx'[s].op # "reserved"
    BY <1>1 DEF LockFree
  <2>2. \A s \in Reqs :
          tx'[s].op \in {"initiate", "reserved"} =>
            \E g \in Files, p \in granted' : tx'[s].file = {g} /\ tx'[s].package = {p}
    <3>1. \A s \in Reqs :
            tx[s].op \in {"initiate", "reserved"} =>
              \E g \in Files, p \in granted : tx[s].file = {g} /\ tx[s].package = {p}
      BY DEF IInv, QuotaInv
    <3>2. \E g \in Files, p \in granted : tx[r].file = {g} /\ tx[r].package = {p}
      BY <3>1
    <3>3. \E g \in Files, p \in granted' : tx'[r].file = {g} /\ tx'[r].package = {p}
      BY <3>2, <1>1
    <3>4. ASSUME NEW s \in Reqs, s # r, tx'[s].op \in {"initiate", "reserved"}
          PROVE  \E g \in Files, p \in granted' : tx'[s].file = {g} /\ tx'[s].package = {p}
      <4>1. tx'[s] = tx[s] /\ granted' = granted
        BY <3>4, <1>1
      <4>2. \E g \in Files, p \in granted : tx[s].file = {g} /\ tx[s].package = {p}
        BY <3>1, <3>4, <4>1
      <4> QED
        BY <4>1, <4>2
    <3> QED
      BY <3>3, <3>4
  <2>3. tx[r].file \subseteq Files /\ tx[r].package \subseteq Packages
    BY DEF IInv, TypeOK
  <2>4. \A p \in tx'[r].package, g \in tx'[r].file : Entitled(p, g)'
    BY <1>1, <1>6, <2>3
  <2>5. tx'[r].rows = {m} /\ status'[m] = "absent"
    BY <1>1
  <2> QED
    BY <1>6, <2>1, <2>2, <2>4, <2>5 DEF QuotaInv
<1> QED
  BY <1>2, <1>3, <1>4, <1>5, <1>6, <1>7 DEF IInv, Safe

\* The row that a request reserves fits: nothing was added since it took the lock.
LEMMA ReserveKeeps ==
  ASSUME IInv, NEW r \in Reqs, Reserve(r)
  PROVE  IInv'
<1> USE DEF event
<1>1. PICK m \in Media : tx[r].rows = {m} /\ status[m] = "absent"
  BY DEF IInv, QuotaInv, Reserve
<1>2. PICK f \in Files, p \in granted : tx[r].file = {f} /\ tx[r].package = {p} /\ Entitled(p, f)
  <2>1. PICK f \in Files, p \in granted : tx[r].file = {f} /\ tx[r].package = {p}
    BY DEF IInv, QuotaInv, Reserve
  <2> QED
    BY <2>1 DEF IInv, QuotaInv, Reserve
<1>3. /\ status' = [status EXCEPT ![m] = "pending"] /\ file' = [file EXCEPT ![m] = f]
      /\ client' = [client EXCEPT ![m] = "ready"] /\ tx' = [tx EXCEPT ![r] = Idle]
      /\ UNCHANGED <<package, granted, age, object, cleaning, told, asked, hasty>>
  BY <1>1, <1>2 DEF Reserve
<1>4. /\ tx'[r].op = "idle" /\ \A s \in Reqs : s # r => tx'[s] = tx[s] /\ tx'[s].op # "reserved"
  BY <1>3 DEF IInv, RecordInv, QuotaInv, Reserve, Idle
<1>5. RecordInv'
  BY <1>3 DEF IInv, RecordInv, Sessions, Idle
<1>6. TypeOK'
  <2>1. \A s \in Reqs : tx'[s] = tx[s] \/ tx'[s] = Idle
    BY <1>3 DEF IInv, RecordInv
  <2>2. \A s \in Reqs :
          /\ tx'[s].op \in {"idle", "initiate", "reserved", "confirm", "delete", "deleted"}
          /\ tx'[s].rows \subseteq Media /\ tx'[s].file \subseteq Files
          /\ tx'[s].package \subseteq Packages
    BY <2>1 DEF IInv, TypeOK, Idle
  <2> QED
    BY <1>3, <2>2 DEF IInv, TypeOK, RowStatuses, Clients
<1>7. RowInv' /\ UploadedVerified' /\ ToldKept'
  BY <1>1, <1>3 DEF IInv, TypeOK, RowInv, Early, Sealed, Genuine, Refuted, Safe, UploadedVerified, ToldKept
<1>8. RowsKept
  <2>1. \A k \in Media : Confirming(k)' => Confirming(k)
    BY <1>4, NoneConfirms
  <2> QED
    BY <2>1, <1>1, <1>3 DEF IInv, TypeOK, RowsKept, Kept, Early, Sealed, Genuine, Refuted
<1>9. SessionInv' /\ CleaningInv'
  BY <1>3, <1>4, <1>8, SessionsKept, CleaningKept
<1>10. IsFiniteSet(event_package_usage') /\ WithinPackage'
  <2> DEFINE U == event_package_usage
             V == event_package_usage'
  <2>1. m \notin U /\ V = U \cup {m} /\ V \ {m} = U
    BY <1>1, <1>3 DEF event_package_usage, IInv, TypeOK
  <2>2. IsFiniteSet(V) /\ Cardinality(V) = Cardinality(U) + 1
    BY <2>1, UsageSized, FS_AddElement DEF Sized
  <2>3. \A k \in V : file'[k] = IF k = m THEN f ELSE file[k]
    BY <1>3 DEF IInv, TypeOK, event_package_usage
  <2>4. Sized(file', V)
    BY <2>1, <2>2, <2>3, UsageSized, Limits DEF Sized
  <2>5. Total(file', V) = f.size + Total(file', U)
    BY <2>1, <2>3, <2>4, TotalAdd
  <2>6. Total(file', U) = Total(file, U)
    BY <2>1, <2>3, TotalSame
  <2>7. Bytes(U)' = f.size + Bytes(U)
    BY <2>4, <2>5, <2>6, UsageSized, BytesNext
  <2>8. Cardinality(U) < p.media /\ Bytes(U) + f.size <= p.bytes
    BY <1>2 DEF Entitled
  <2>9. Cardinality(U) \in Nat /\ Bytes(U) \in Nat /\ f.size \in Nat /\ p.media \in Nat
        /\ p.bytes \in Nat /\ p \in granted'
    BY UsageSized, Limits, <1>3 DEF IInv, TypeOK
  <2>10. Cardinality(U)' <= p.media /\ Bytes(U)' <= p.bytes
    BY <2>2, <2>7, <2>8, <2>9
  <2> QED
    BY <2>2, <2>9, <2>10 DEF WithinPackage
<1>11. QuotaInv'
  BY <1>3, <1>4, <1>10 DEF IInv, QuotaInv
<1> QED
  BY <1>5, <1>6, <1>7, <1>9, <1>10, <1>11 DEF IInv, Safe

LEMMA ConfirmUploadKeeps ==
  ASSUME IInv, NEW r \in Reqs, NEW m \in Media, confirm_upload(r, m)
  PROVE  IInv'
<1> USE DEF confirm_upload, event, rows
<1>1. /\ tx' \in [Reqs -> Sessions] /\ tx'[r].op = "confirm" /\ tx'[r].rows = {m}
      /\ tx'[r].file = {} /\ tx'[r].package = {}
      /\ \A s \in Reqs : s # r => tx'[s] = tx[s]
  BY DEF IInv, RecordInv, Sessions, Idle
<1>2. RecordInv'
  BY <1>1 DEF IInv, RecordInv
<1>3. TypeOK'
  BY <1>1 DEF IInv, TypeOK, Clients
<1>4. RowInv' /\ UploadedVerified' /\ ToldKept'
  BY DEF IInv, TypeOK, RowInv, Early, Sealed, Genuine, Refuted, Safe, UploadedVerified, ToldKept
<1>5. RowsKept
  <2>1. \A k \in Media : Confirming(k)' => Confirming(k) \/ object[k] = "match"
    BY <1>1 DEF Confirming, Verified
  <2> QED
    BY <2>1 DEF IInv, TypeOK, RowsKept, Kept, Early, Sealed, Genuine, Refuted
<1>6. SessionOf(r)'
  <2>1. status'[m] \notin {"absent", "failed"} /\ ~Early(m)' /\ Genuine(m)'
    BY DEF IInv, TypeOK, RowInv, Verified, Present, Early, Genuine, Refuted
  <2> QED
    BY <1>1, <2>1 DEF SessionOf
<1>7. SessionInv' /\ CleaningInv'
  BY <1>1, <1>5, <1>6, SessionsKept, CleaningKept
<1>8. QuotaInv' /\ WithinPackage'
  BY <1>1, QuotaKept DEF event_package_usage
<1> QED
  BY <1>2, <1>3, <1>4, <1>7, <1>8 DEF IInv, Safe

\* A session that ends.
LEMMA Ended ==
  ASSUME IInv, NEW r \in Reqs, tx' = [tx EXCEPT ![r] = Idle]
  PROVE  /\ tx' \in [Reqs -> Sessions] /\ tx'[r].op = "idle"
         /\ \A s \in Reqs : s # r => tx'[s] = tx[s]
         /\ \A s \in Reqs :
              /\ tx'[s].op \in {"idle", "initiate", "reserved", "confirm", "delete", "deleted"}
              /\ tx'[s].rows \subseteq Media /\ tx'[s].file \subseteq Files
              /\ tx'[s].package \subseteq Packages
<1>1. tx' \in [Reqs -> Sessions] /\ tx'[r].op = "idle" /\ \A s \in Reqs : s # r => tx'[s] = tx[s]
  BY DEF IInv, RecordInv, Sessions, Idle
<1> QED
  BY <1>1 DEF Sessions

LEMMA ConfirmKeeps ==
  ASSUME IInv, NEW r \in Reqs, Confirm(r)
  PROVE  IInv'
<1> USE DEF event
<1>1. PICK m \in Media : tx[r].rows = {m} /\ status[m] \notin {"absent", "failed"}
                         /\ ~Early(m) /\ Genuine(m)
  BY DEF IInv, SessionInv, SessionOf, Confirm
<1>2. \/ /\ Present(m)
         /\ status' = [status EXCEPT ![m] = "uploaded"]
         /\ client' = [client EXCEPT ![m] = "done"]
         /\ told' = told \cup {m}
      \/ /\ ~Present(m)
         /\ client' = [client EXCEPT ![m] = "gone"]
         /\ UNCHANGED <<status, told>>
  BY <1>1 DEF Confirm
<1>3. tx' = [tx EXCEPT ![r] = Idle] /\ UNCHANGED <<event, file, age, object, cleaning, asked, hasty>>
  BY DEF Confirm
<1>4. status[m] # "failed" /\ Confirming(m)
  BY <1>1 DEF Confirm, Confirming
<1>5. RecordInv'
  BY <1>3, Ended DEF IInv, RecordInv
<1>6. TypeOK'
  <2>1. status' \in [Media -> RowStatuses]
    BY <1>2 DEF IInv, TypeOK, RowStatuses
  <2>2. client' \in [Media -> Clients]
    BY <1>2 DEF IInv, TypeOK, Clients
  <2>3. told' \cup asked' \subseteq Media
    BY <1>2, <1>3 DEF IInv, TypeOK
  <2> QED
    BY <1>3, <2>1, <2>2, <2>3, Ended DEF IInv, TypeOK
<1>7. RowInv' /\ UploadedVerified' /\ ToldKept'
  BY <1>1, <1>2, <1>3, <1>4
  DEF IInv, TypeOK, RowInv, Early, Sealed, Genuine, Refuted, Safe, UploadedVerified, ToldKept, Present
<1>8. RowsKept
  <2>1. \A k \in Media : Confirming(k)' => Confirming(k)
    BY <1>3, Ended, NoneConfirms
  <2> QED
    BY <2>1, <1>1, <1>2, <1>3, <1>4 DEF IInv, TypeOK, RowsKept, Kept, Early, Sealed, Genuine, Refuted
<1>9. SessionInv' /\ CleaningInv'
  BY <1>3, <1>8, Ended, SessionsKept, CleaningKept
<1>10. event_package_usage' \subseteq event_package_usage
  BY <1>1, <1>2, <1>4 DEF event_package_usage, IInv, TypeOK, Present, RowStatuses
<1>11. \A k \in Media : status[k] = "absent" => status'[k] = "absent"
  BY <1>1, <1>2 DEF IInv, TypeOK
<1>12. QuotaInv' /\ WithinPackage'
  BY <1>3, <1>10, <1>11, Ended, QuotaKept
<1> QED
  BY <1>5, <1>6, <1>7, <1>9, <1>12 DEF IInv, Safe

LEMMA DeleteMediaKeeps ==
  ASSUME IInv, NEW r \in Reqs, NEW S \in SUBSET Media, delete_media(r, S)
  PROVE  IInv'
<1> USE DEF delete_media, event, rows
<1>1. /\ tx' \in [Reqs -> Sessions] /\ tx'[r].op = "delete" /\ tx'[r].rows = S
      /\ tx'[r].file = {} /\ tx'[r].package = {}
      /\ \A s \in Reqs : s # r => tx'[s] = tx[s]
  BY DEF IInv, RecordInv, Sessions, Idle
<1>2. RecordInv'
  BY <1>1 DEF IInv, RecordInv
<1>3. TypeOK'
  BY <1>1 DEF IInv, TypeOK
<1>4. RowInv' /\ UploadedVerified' /\ ToldKept'
  BY DEF IInv, RowInv, Early, Sealed, Genuine, Refuted, Safe, UploadedVerified, ToldKept, Present
<1>5. RowsKept
  <2>1. \A k \in Media : Confirming(k)' => Confirming(k)
    BY <1>1, NoneConfirms
  <2> QED
    BY <2>1 DEF IInv, RowsKept, Kept, Early, Sealed, Genuine, Refuted
<1>6. SessionOf(r)'
  BY <1>1 DEF SessionOf
<1>7. SessionInv' /\ CleaningInv'
  BY <1>1, <1>5, <1>6, SessionsKept, CleaningKept
<1>8. QuotaInv' /\ WithinPackage'
  BY <1>1, QuotaKept DEF event_package_usage
<1> QED
  BY <1>2, <1>3, <1>4, <1>7, <1>8 DEF IInv, Safe

\* Whether all of them go or some, the objects erased are of rows that were asked for.
LEMMA DeleteObjectsKeeps ==
  ASSUME IInv, NEW r \in Reqs, delete_objects(r)
  PROVE  IInv'
<1> USE DEF event, rows
<1>1. tx[r] \in Sessions /\ tx[r].op = "delete" /\ tx[r].rows \subseteq asked
  BY DEF IInv, RecordInv, SessionInv, SessionOf, delete_objects
<1>2. PICK D \in SUBSET tx[r].rows :
        /\ Erase(D)
        /\ \/ D = tx[r].rows /\ tx' = [tx EXCEPT ![r].op = "deleted"]
           \/ tx' = [tx EXCEPT ![r] = Idle]
  BY DEF delete_objects
<1>3. D \subseteq asked /\ D \subseteq Media
  BY <1>1, <1>2 DEF Sessions
<1>4. UNCHANGED <<package, granted, status, file, age, client, cleaning, told, asked, hasty>>
  BY DEF delete_objects
<1>5. \A k \in Media : object'[k] = IF k \in D THEN "none" ELSE object[k]
  BY <1>2 DEF Erase
<1>6. /\ tx' \in [Reqs -> Sessions] /\ \A s \in Reqs : s # r => tx'[s] = tx[s]
      /\ \/ tx'[r].op = "idle"
         \/ tx'[r].op = "deleted" /\ tx'[r].rows = D
  <2>1. CASE tx' = [tx EXCEPT ![r] = Idle]
    BY <2>1, Ended
  <2>2. CASE D = tx[r].rows /\ tx' = [tx EXCEPT ![r].op = "deleted"]
    <3>1. [tx[r] EXCEPT !.op = "deleted"] \in Sessions
      BY <1>1, SessionUpdates
    <3>2. tx \in [Reqs -> Sessions]
      BY DEF IInv, RecordInv
    <3>3. tx' = [tx EXCEPT ![r] = [tx[r] EXCEPT !.op = "deleted"]]
      BY <2>2
    <3>4. tx'[r] = [tx[r] EXCEPT !.op = "deleted"] /\ \A s \in Reqs : s # r => tx'[s] = tx[s]
      BY <3>2, <3>3
    <3>5. tx'[r].op = "deleted" /\ tx'[r].rows = D
      BY <3>4, <2>2, <1>1 DEF Sessions
    <3> QED
      BY <3>1, <3>2, <3>3, <3>4, <3>5
  <2> QED
    BY <2>1, <2>2, <1>2
<1>7. RecordInv'
  BY <1>4, <1>6 DEF IInv, RecordInv
<1>8. TypeOK'
  <2>1. object' \in [Media -> {"none", "match", "mismatch"}]
    BY <1>2 DEF Erase, IInv, TypeOK
  <2>2. \A s \in Reqs : tx'[s] \in Sessions
    BY <1>6
  <2> QED
    BY <1>4, <2>1, <2>2 DEF IInv, TypeOK, Sessions
<1>9. RowInv' /\ UploadedVerified' /\ ToldKept'
  BY <1>3, <1>4, <1>5 DEF IInv, RowInv, Early, Sealed, Genuine, Refuted, Safe, UploadedVerified, ToldKept
<1>10. RowsKept
  <2>1. \A k \in Media : Confirming(k)' => Confirming(k)
    BY <1>6, NoneConfirms
  <2> QED
    BY <2>1, <1>3, <1>4, <1>5 DEF IInv, RowInv, RowsKept, Kept, Early, Sealed, Genuine, Refuted
<1>11. SessionOf(r)'
  BY <1>3, <1>4, <1>5, <1>6 DEF SessionOf
<1>12. SessionInv' /\ CleaningInv'
  BY <1>4, <1>6, <1>10, <1>11, SessionsKept, CleaningKept
<1>13. QuotaInv' /\ WithinPackage'
  BY <1>4, <1>6, QuotaKept DEF event_package_usage
<1> QED
  BY <1>7, <1>8, <1>9, <1>12, <1>13 DEF IInv, Safe

LEMMA DeleteKeeps ==
  ASSUME IInv, NEW r \in Reqs, Delete(r)
  PROVE  IInv'
<1> USE DEF Delete, event
<1>1. /\ tx[r].rows \subseteq asked /\ tx[r].rows \subseteq Media
      /\ \A m \in tx[r].rows : m \in hasty \/ object[m] = "none"
  BY DEF IInv, RecordInv, Sessions, SessionInv, SessionOf
<1>2. \A m \in tx[r].rows : status[m] # "absent" /\ (m \in hasty \/ ~Early(m))
  BY <1>1 DEF IInv, RowInv
<1>3. \A m \in Media : status'[m] = IF m \in tx[r].rows THEN "removed" ELSE status[m]
  OBVIOUS
<1>4. RecordInv'
  BY Ended DEF IInv, RecordInv
<1>5. TypeOK'
  BY Ended DEF IInv, TypeOK, RowStatuses
<1>6. RowInv' /\ UploadedVerified' /\ ToldKept'
  <2>1. \A m \in tx[r].rows :
          /\ m \in asked /\ client[m] # "none" /\ status'[m] = "removed"
          /\ m \in hasty \/ Sealed(m)
    BY <1>1, <1>2, <1>3 DEF IInv, RowInv, Early, Sealed
  <2>2. RowInv'
    BY <2>1, <1>3 DEF IInv, RowInv, Early, Sealed, Genuine, Refuted
  <2>3. UploadedVerified' /\ ToldKept'
    BY <2>1, <1>3 DEF IInv, TypeOK, Safe, UploadedVerified, ToldKept
  <2> QED
    BY <2>2, <2>3
<1>7. RowsKept
  <2>1. \A k \in Media : Confirming(k)' => Confirming(k)
    BY Ended, NoneConfirms
  <2> QED
    BY <2>1, <1>3 DEF IInv, RowsKept, Kept, Early, Sealed, Genuine, Refuted
<1>8. SessionInv' /\ CleaningInv'
  BY <1>7, Ended, SessionsKept, CleaningKept
<1>9. QuotaInv' /\ WithinPackage'
  BY <1>2, <1>3, Ended, QuotaKept DEF event_package_usage
<1> QED
  BY <1>4, <1>5, <1>6, <1>8, <1>9 DEF IInv, Safe

LEMMA AbortKeeps ==
  ASSUME IInv, NEW r \in Reqs, Abort(r)
  PROVE  IInv'
<1> USE DEF Abort, event, rows
<1>1. \A m \in Media :
        client'[m] = IF client[m] = "confirming" /\ m \in tx[r].rows THEN "gone" ELSE client[m]
  OBVIOUS
<1>2. RecordInv'
  BY Ended DEF IInv, RecordInv
<1>3. TypeOK'
  BY Ended DEF IInv, TypeOK, Clients
<1>4. RowInv' /\ UploadedVerified' /\ ToldKept'
  BY <1>1 DEF IInv, RowInv, Early, Sealed, Genuine, Refuted, Safe, UploadedVerified, ToldKept
<1>5. RowsKept
  <2>1. \A k \in Media : Confirming(k)' => Confirming(k)
    BY Ended, NoneConfirms
  <2> QED
    BY <2>1, <1>1 DEF IInv, RowsKept, Kept, Early, Sealed, Genuine, Refuted
<1>6. SessionInv' /\ CleaningInv'
  BY <1>5, Ended, SessionsKept, CleaningKept
<1>7. QuotaInv' /\ WithinPackage'
  BY Ended, QuotaKept DEF event_package_usage
<1> QED
  BY <1>2, <1>3, <1>4, <1>6, <1>7 DEF IInv, Safe
-----------------------------------------------------------------------------
(* The cleanup. *)

\* A step of the pass that writes no row.
LEMMA PassStep ==
  ASSUME IInv, TypeOK', RecordInv', CleaningInv',
         UNCHANGED <<event, rows, object, client, tx, told, asked, hasty>>
  PROVE  IInv'
<1> USE DEF event, rows
<1>1. RowInv' /\ UploadedVerified' /\ ToldKept'
  BY DEF IInv, RowInv, Early, Sealed, Genuine, Refuted, Safe, UploadedVerified, ToldKept
<1>2. RowsKept
  BY DEF IInv, RowsKept, Kept, Early, Sealed, Genuine, Refuted, Confirming
<1>3. SessionInv'
  BY <1>2, SessionsKept
<1>4. QuotaInv' /\ WithinPackage'
  BY QuotaKept DEF event_package_usage
<1> QED
  BY <1>1, <1>3, <1>4 DEF IInv, Safe

\* A pass that has nothing in hand.
LEMMA EmptyPass ==
  ASSUME NEW p \in {"idle", "pass", "down"}, NEW T \in SUBSET Media
  PROVE  LET c == [phase |-> p, todo |-> T, writes |-> None] IN
         /\ c \in [phase : {"idle", "pass", "down"}, todo : SUBSET Media,
                   writes : [{} -> {"removed", "uploaded", "failed"}]]
         /\ DOMAIN c.writes = {} /\ c.writes \in [DOMAIN c.writes -> RowStatuses]
<1>1. None \in [{} -> {"removed", "uploaded", "failed"}] /\ None \in [{} -> RowStatuses] /\ DOMAIN None = {}
  BY DEF None
<1> HIDE DEF None
<1> QED
  BY <1>1

LEMMA BeginPassKeeps ==
  ASSUME IInv, cleanup_stale_uploads \/ WorkerCrash
  PROVE  IInv'
<1>1. /\ cleaning' \in [phase : {"idle", "pass", "down"}, todo : SUBSET Media,
                        writes : [{} -> {"removed", "uploaded", "failed"}]]
      /\ \A m \in cleaning'.todo : Stale(m)
      /\ UNCHANGED <<event, rows, object, client, tx, told, asked, hasty>>
  <2>1. CASE cleanup_stale_uploads
    <3>1. cleaning' = [phase |-> "pass", todo |-> {m \in Media : Stale(m)}, writes |-> None]
      BY <2>1 DEF cleanup_stale_uploads, At
    <3> QED
      BY <2>1, <3>1, EmptyPass DEF cleanup_stale_uploads
  <2>2. CASE WorkerCrash
    <3>1. cleaning' = [phase |-> "down", todo |-> {}, writes |-> None]
      BY <2>2 DEF WorkerCrash, At
    <3> QED
      BY <2>2, <3>1, EmptyPass DEF WorkerCrash
  <2> QED
    BY <2>1, <2>2
<1>2. TypeOK' /\ RecordInv'
  <2>1. RecordInv'
    BY <1>1 DEF IInv, RecordInv
  <2>2. DOMAIN cleaning'.writes = {} /\ cleaning'.writes \in [{} -> RowStatuses]
    BY <1>1
  <2> QED
    BY <1>1, <2>1, <2>2 DEF IInv, TypeOK, event, rows
<1>3. CleaningInv'
  BY <1>1 DEF CleaningInv, Stale, rows
<1> QED
  BY <1>1, <1>2, <1>3, PassStep

\* The verdict on an object stays right until the commit.
LEMMA InspectKeeps ==
  ASSUME IInv, NEW m \in Media, Inspect(m)
  PROVE  IInv'
<1> DEFINE W == cleaning.writes
           N == [k \in DOMAIN W \cup {m} |-> IF k = m THEN Verdict(m) ELSE W[k]]
           Statuses == {"removed", "uploaded", "failed"}
<1>1. PICK D \in SUBSET Media :
        cleaning \in [phase : {"idle", "pass", "down"}, todo : SUBSET Media, writes : [D -> Statuses]]
  BY DEF IInv, RecordInv
<1>2. Verdict(m) \in Statuses
  BY DEF Verdict
<1>3. /\ cleaning'.phase = cleaning.phase /\ cleaning'.todo = cleaning.todo \ {m}
      /\ cleaning'.writes = N /\ UNCHANGED <<event, rows, object, client, tx, told, asked, hasty>>
  BY <1>1 DEF Inspect
<1>4. cleaning' = [phase |-> cleaning.phase, todo |-> cleaning.todo \ {m}, writes |-> N]
  BY <1>1 DEF Inspect
<1>5. N \in [D \cup {m} -> Statuses] /\ D \cup {m} \in SUBSET Media
  BY <1>1, <1>2
<1>6. RecordInv'
  <2>1. cleaning' \in [phase : {"idle", "pass", "down"}, todo : SUBSET Media,
                       writes : [D \cup {m} -> Statuses]]
    <3> HIDE DEF N, Statuses
    <3> QED
      BY <1>1, <1>4, <1>5
  <2> QED
    BY <1>3, <1>5, <2>1 DEF IInv, RecordInv
<1>7. TypeOK'
  <2>1. cleaning'.writes \in [DOMAIN cleaning'.writes -> RowStatuses]
    BY <1>3, <1>5 DEF RowStatuses
  <2> QED
    BY <1>1, <1>3, <2>1 DEF IInv, TypeOK, event, rows
<1>8. status[m] \notin {"absent", "failed"} /\ age[m] = "stale"
  BY DEF IInv, CleaningInv, Inspect
<1>9. /\ Verdict(m) = "removed" /\ m \notin SlowPuts => Sealed(m)
      /\ Verdict(m) = "uploaded" => ~Early(m) /\ Genuine(m)
      /\ Verdict(m) = "failed" =>
           ~Early(m) /\ Refuted(m) /\ status[m] # "uploaded" /\ ~Confirming(m)
  <2>1. Confirming(m) => Genuine(m)
    BY DEF IInv, SessionInv, SessionOf, Confirming
  <2> QED
    BY <2>1, <1>8 DEF IInv, TypeOK, RowInv, Verdict, Sealed, Early, Genuine, Refuted
<1>10. CleaningInv'
  <2>1. \A k \in DOMAIN N :
          /\ status[k] \notin {"absent", "failed"}
          /\ N[k] = "removed" /\ k \notin SlowPuts => Sealed(k)
          /\ N[k] = "uploaded" => ~Early(k) /\ Genuine(k)
          /\ N[k] = "failed" =>
               ~Early(k) /\ Refuted(k) /\ status[k] # "uploaded" /\ ~Confirming(k)
    BY <1>8, <1>9 DEF IInv, CleaningInv
  <2> HIDE DEF N
  <2> QED
    BY <1>3, <2>1 DEF IInv, CleaningInv, Sealed, Early, Genuine, Refuted, Confirming, rows
<1> QED
  BY <1>3, <1>6, <1>7, <1>10, PassStep

LEMMA InspectErrorKeeps ==
  ASSUME IInv, NEW m \in Media, InspectError(m)
  PROVE  IInv'
<1>1. PICK D \in SUBSET Media :
        cleaning \in [phase : {"idle", "pass", "down"}, todo : SUBSET Media,
                      writes : [D -> {"removed", "uploaded", "failed"}]]
  BY DEF IInv, RecordInv
<1>2. /\ cleaning' = [phase |-> cleaning.phase, todo |-> cleaning.todo \ {m}, writes |-> cleaning.writes]
      /\ UNCHANGED <<event, rows, object, client, tx, told, asked, hasty>>
  BY <1>1 DEF InspectError
<1>3. RecordInv'
  BY <1>1, <1>2 DEF IInv, RecordInv
<1>4. TypeOK'
  BY <1>1, <1>2 DEF IInv, TypeOK, event, rows
<1>5. CleaningInv'
  BY <1>2 DEF IInv, CleaningInv, Sealed, Early, Genuine, Refuted, Confirming, rows
<1> QED
  BY <1>2, <1>3, <1>4, <1>5, PassStep

LEMMA CleanupCommitKeeps ==
  ASSUME IInv, CleanupCommit
  PROVE  IInv'
<1> USE DEF event
<1> DEFINE w == cleaning.writes
<1>1. DOMAIN w \subseteq Media /\ \A m \in DOMAIN w : w[m] \in {"removed", "uploaded", "failed"}
  BY DEF IInv, RecordInv
<1>2. /\ cleaning' = At("idle")
      /\ UNCHANGED <<event, file, age, object, client, tx, told, asked, hasty>>
      /\ \/ status' = status
         \/ /\ \A m \in DOMAIN w : w[m] = "removed" \/ Present(m)
            /\ status' = [m \in Media |-> IF m \in DOMAIN w THEN w[m] ELSE status[m]]
  BY DEF CleanupCommit
<1>3. \A m \in Media :
        \/ status'[m] = status[m]
        \/ /\ m \in DOMAIN w /\ status'[m] = w[m] /\ status[m] \notin {"absent", "failed"}
           /\ \/ w[m] = "removed" /\ (m \notin SlowPuts => Sealed(m))
              \/ w[m] = "uploaded" /\ Present(m) /\ ~Early(m) /\ Genuine(m)
              \/ /\ w[m] = "failed" /\ Present(m) /\ ~Early(m) /\ Refuted(m)
                 /\ status[m] # "uploaded" /\ ~Confirming(m)
  BY <1>1, <1>2 DEF IInv, CleaningInv
<1>4. RecordInv'
  <2>1. cleaning' = [phase |-> "idle", todo |-> {}, writes |-> None]
    BY <1>2 DEF At
  <2>2. cleaning' \in [phase : {"idle", "pass", "down"}, todo : SUBSET Media,
                       writes : [{} -> {"removed", "uploaded", "failed"}]]
    BY <2>1, EmptyPass
  <2> QED
    BY <1>2, <2>2 DEF IInv, RecordInv
<1>5. TypeOK'
  <2>1. status' \in [Media -> RowStatuses]
    BY <1>1, <1>2 DEF IInv, TypeOK, RowStatuses
  <2> QED
    BY <1>2, <2>1 DEF IInv, TypeOK, At, None
<1> HIDE DEF w
<1>6. RowInv'
  BY <1>2, <1>3 DEF IInv, RowInv, Early, Sealed, Genuine, Refuted
<1>7. UploadedVerified' /\ ToldKept'
  BY <1>2, <1>3 DEF IInv, TypeOK, RowInv, Safe, UploadedVerified, ToldKept, Sealed, Genuine
<1>8. RowsKept
  <2>1. cleaning' # cleaning
    BY DEF CleanupCommit, At
  <2>2. \A k \in Media : Confirming(k)' => Confirming(k)
    BY <1>2, NoneConfirms
  <2> QED
    BY <1>2, <1>3, <2>1, <2>2 DEF IInv, RowsKept, Kept, Early, Sealed, Genuine, Refuted
<1>9. SessionInv'
  BY <1>2, <1>8, SessionsKept
<1>10. CleaningInv'
  BY <1>2 DEF CleaningInv, At, None
<1>11. \A m \in Media : status'[m] \in {"pending", "uploaded"} => status[m] \in {"pending", "uploaded"}
  BY <1>3 DEF IInv, TypeOK, RowStatuses, Present
<1>12. event_package_usage' \subseteq event_package_usage
  BY <1>11 DEF event_package_usage
<1>13. QuotaInv' /\ WithinPackage'
  BY <1>2, <1>3, <1>12, QuotaKept
<1> QED
  BY <1>4, <1>5, <1>6, <1>7, <1>9, <1>10, <1>13 DEF IInv, Safe
-----------------------------------------------------------------------------
(* The theorems. *)

LEMMA StutterKeeps ==
  ASSUME IInv, UNCHANGED vars
  PROVE  IInv'
<1>1. TypeOK'
  BY DEF IInv, TypeOK, vars, event, rows
<1>2. RowInv' /\ UploadedVerified' /\ ToldKept'
  BY DEF IInv, RowInv, Early, Sealed, Genuine, Refuted, Safe, UploadedVerified, ToldKept, vars, rows
<1>3. RowsKept
  BY DEF IInv, RowsKept, Kept, Early, Sealed, Genuine, Refuted, Confirming, vars, rows
<1> QED
  BY <1>1, <1>2, <1>3, QuietStep DEF vars, event, rows, event_package_usage

LEMMA StepKeeps == IInv /\ [Next]_vars => IInv'
<1> SUFFICES ASSUME IInv, [Next]_vars
             PROVE  IInv'
  OBVIOUS
<1>1. CASE GuestStep
  BY <1>1, StartPutKeeps, FinishPutKeeps, LeaveKeeps, AnswerKeeps DEF GuestStep
<1>2. CASE \E m \in Media : Age(m)
  BY <1>2, AgeKeeps
<1>3. ASSUME NEW r \in Reqs, RequestStep(r)
      PROVE  IInv'
  BY <1>3, InitiateKeeps, EnforceKeeps, ReserveKeeps, ConfirmUploadKeeps, ConfirmKeeps,
     DeleteMediaKeeps, DeleteObjectsKeeps, DeleteKeeps, AbortKeeps DEF RequestStep
<1>4. CASE WorkerStep
  BY <1>4, BeginPassKeeps, InspectKeeps, InspectErrorKeeps, CleanupCommitKeeps DEF WorkerStep
<1>5. CASE \E p \in Packages : SetPackage(p)
  BY <1>5, EventKeeps
<1>6. CASE UNCHANGED vars
  BY <1>6, StutterKeeps
<1> QED
  BY <1>1, <1>2, <1>3, <1>4, <1>5, <1>6 DEF Next

\* In every reachable state the inductive invariant holds.
THEOREM Invariance == Spec => []IInv
BY InitInv, StepKeeps, PTL DEF Spec

\* Rows, sessions, pages and the cleanup pass keep their types.
THEOREM TypeCorrect == Spec => []TypeOK
<1>1. IInv => TypeOK
  BY DEF IInv
<1> QED
  BY <1>1, Invariance, PTL

\* However many guests ask at once, the rows of an event, pending ones included, stay within a
\* package the event has had, in number and in bytes (package_enforcement.py).
THEOREM QuotaHolds == Spec => []WithinPackage
<1>1. IInv => WithinPackage
  BY DEF IInv, Safe
<1> QED
  BY <1>1, Invariance, PTL

\* What is listed as uploaded was verified and is in storage until its deletion is asked for.
THEOREM UploadsAreVerified == Spec => []UploadedVerified
<1>1. IInv => UploadedVerified
  BY DEF IInv, Safe
<1> QED
  BY <1>1, Invariance, PTL

\* What a guest was told is uploaded stays, whatever the cleanup and other requests do.
THEOREM ToldIsKept == Spec => []ToldKept
<1>1. IInv => ToldKept
  BY DEF IInv, Safe
<1> QED
  BY <1>1, Invariance, PTL

\* A removed row leaves no original behind whose PUT was over by the cutoff and before a host asked.
THEOREM OrphansAreNone == Spec => []NoOrphans
<1>1. IInv => NoOrphans
  BY DEF IInv, RowInv, Sealed, NoOrphans
<1> QED
  BY <1>1, Invariance, PTL
-----------------------------------------------------------------------------
(* GuestUploads implements UploadLedger. *)

\* The ledger counts the rows and adds up the bytes that event_package_usage does.
LEMMA LedgerUsage ==
  /\ Ledger!Counted = event_package_usage
  /\ Ledger!Cardinality(Ledger!Counted) = Cardinality(event_package_usage)
  /\ Ledger!Bytes = Bytes(event_package_usage)
<1>1. Ledger!Counted = event_package_usage
  BY DEF Ledger!Counted, event_package_usage
<1>2. Ledger!Bytes = Fold(file, Ledger!Counted)[Ledger!Counted]
  BY DEF Ledger!Bytes, Ledger!MapThenSumSet, Ledger!MapThenFoldSet, Fold, Adds, First
<1>3. Bytes(event_package_usage) = Fold(file, event_package_usage)[event_package_usage]
  BY DEF Bytes, MapThenSumSet, MapThenFoldSet, Fold, Adds, First
<1>4. Ledger!Cardinality(Ledger!Counted) = Cardinality(event_package_usage)
  BY <1>1 DEF Cardinality, Ledger!Cardinality
<1> QED
  BY <1>1, <1>2, <1>3, <1>4

LEMMA LedgerInit == Init => Ledger!Init
<1> SUFFICES ASSUME Init PROVE Ledger!Init
  OBVIOUS
<1>1. file \in [Media -> Files]
  BY UploadAssumption DEF Init
<1> QED
  BY <1>1 DEF Init, Ledger!Init

\* Steps that no row, no object and no package takes part in.
LEMMA LedgerStutter ==
  ASSUME UNCHANGED <<granted, status, file, object, asked, hasty>>
  PROVE  [Ledger!Next]_(Ledger!vars)
BY DEF Ledger!vars

\* What was promised under the lock is still within the quota at the commit.
LEMMA LedgerReserve ==
  ASSUME IInv, NEW r \in Reqs, Reserve(r)
  PROVE  Ledger!Next
<1>1. PICK m \in Media : tx[r].rows = {m} /\ status[m] = "absent"
  BY DEF IInv, QuotaInv, Reserve
<1>2. PICK f \in Files, p \in granted : tx[r].file = {f} /\ tx[r].package = {p}
  BY DEF IInv, QuotaInv, Reserve
<1>3. Entitled(p, f) /\ p.media \in Nat
  BY <1>2, Limits DEF IInv, TypeOK, QuotaInv, Reserve
<1>4. Ledger!Fits(f, p)
  <2>1. Cardinality(event_package_usage) \in Nat
    BY UsageSized
  <2>2. Cardinality(event_package_usage) + 1 <= p.media
    BY <1>3, <2>1 DEF Entitled
  <2> QED
    BY <1>3, <2>2, LedgerUsage DEF Entitled, Ledger!Fits
<1>5. /\ status' = [status EXCEPT ![m] = "pending"] /\ file' = [file EXCEPT ![m] = f]
      /\ UNCHANGED <<granted, object, asked, hasty>>
  BY <1>1, <1>2 DEF Reserve, event
<1>6. Ledger!Reserve(m, f)
  BY <1>1, <1>4, <1>5 DEF Ledger!Reserve
<1> QED
  BY <1>6 DEF Ledger!Next

\* A file arrives for a row that waits for it, or that was given up while it was on its way.
LEMMA LedgerArrive ==
  ASSUME IInv, NEW m \in Media, FinishPut(m)
  PROVE  Ledger!Next
<1>1. PICK content \in {"match", "mismatch"} : object' = [object EXCEPT ![m] = content]
  BY DEF FinishPut
<1>2. object[m] = "none" /\ m \notin asked \ hasty /\ status[m] \in {"pending", "removed"}
  BY DEF IInv, RowInv, Early, FinishPut
<1>3. status[m] = "removed" => m \in SlowPuts \cup hasty
  BY DEF IInv, RowInv, Sealed, FinishPut
<1>4. Ledger!Arrive(m, content)
  BY <1>1, <1>2, <1>3 DEF Ledger!Arrive, FinishPut, event, rows
<1> QED
  BY <1>4 DEF Ledger!Next

\* A confirmation accepts what arrived, or finds the row settled.
LEMMA LedgerConfirm ==
  ASSUME IInv, NEW r \in Reqs, Confirm(r)
  PROVE  [Ledger!Next]_(Ledger!vars)
<1>1. PICK m \in Media : tx[r].rows = {m} /\ status[m] \notin {"absent", "failed"}
                         /\ ~Early(m) /\ Genuine(m)
  BY DEF IInv, SessionInv, SessionOf, Confirm
<1>2. status \in [Media -> RowStatuses] /\ UNCHANGED <<granted, file, object, asked, hasty>>
  BY DEF IInv, TypeOK, Confirm, event
<1>3. CASE UNCHANGED status
  BY <1>2, <1>3, LedgerStutter
<1>4. CASE Present(m) /\ status' = [status EXCEPT ![m] = "uploaded"]
  <2>1. status[m] = "uploaded" \/ Ledger!Accepted(m)
    BY <1>1, <1>2, <1>4 DEF Genuine, Present, RowStatuses, Ledger!Accepted, Ledger!Erased
  <2>2. DOMAIN status' = Media
        /\ \A k \in Media : status'[k] = IF k = m THEN "uploaded" ELSE status[k]
    BY <1>2, <1>4
  <2>3. Ledger!Settle
    BY <1>2, <2>1, <2>2 DEF Ledger!Settle
  <2> QED
    BY <2>3 DEF Ledger!Next
<1> QED
  BY <1>1, <1>3, <1>4 DEF Confirm

LEMMA LedgerDelete ==
  ASSUME IInv, NEW r \in Reqs, Delete(r)
  PROVE  Ledger!Next
<1>1. \A m \in tx[r].rows : m \in asked /\ (m \in hasty \/ object[m] = "none")
  BY DEF IInv, SessionInv, SessionOf, Delete
<1>2. \A m \in tx[r].rows : status[m] \in {"pending", "uploaded", "failed", "removed"}
  BY <1>1 DEF IInv, RowInv, TypeOK, RowStatuses, RecordInv, Sessions
<1>3. /\ DOMAIN status' = Media /\ UNCHANGED <<granted, file, object, asked, hasty>>
      /\ \A m \in Media : status'[m] = IF m \in tx[r].rows THEN "removed" ELSE status[m]
  BY DEF Delete, event
<1>4. Ledger!Settle
  BY <1>1, <1>2, <1>3 DEF Ledger!Settle, Ledger!Deleted, Ledger!Held, Ledger!Erased
<1> QED
  BY <1>4 DEF Ledger!Next

\* All that a pass commits is settled by what it found, or settled already.
LEMMA LedgerCleanup ==
  ASSUME IInv, CleanupCommit
  PROVE  [Ledger!Next]_(Ledger!vars)
<1> DEFINE w == cleaning.writes
<1>1. status \in [Media -> RowStatuses] /\ UNCHANGED <<granted, file, object, asked, hasty>>
  BY DEF IInv, TypeOK, CleanupCommit, event
<1>2. CASE UNCHANGED status
  BY <1>1, <1>2, LedgerStutter
<1>3. CASE /\ \A m \in DOMAIN w : w[m] = "removed" \/ Present(m)
           /\ status' = [m \in Media |-> IF m \in DOMAIN w THEN w[m] ELSE status[m]]
  <2>1. \A m \in DOMAIN w :
          /\ m \in Media /\ w[m] \in {"removed", "uploaded", "failed"}
          /\ status[m] \in {"pending", "uploaded", "removed"}
    BY <1>1 DEF IInv, RecordInv, CleaningInv, RowStatuses
  <2>2. ASSUME NEW m \in DOMAIN w
        PROVE  \/ w[m] = status[m]
               \/ w[m] = "uploaded" /\ Ledger!Accepted(m)
               \/ w[m] = "failed" /\ Ledger!Rejected(m)
               \/ w[m] = "removed" /\ (Ledger!Abandoned(m) \/ Ledger!Deleted(m))
    <3>1. CASE w[m] = "removed"
      <4>1. m \notin SlowPuts => object[m] = "none"
        BY <2>2, <3>1 DEF IInv, CleaningInv, Sealed
      <4>2. status[m] = "uploaded" => object[m] = "match" \/ (object[m] = "none" /\ m \in asked)
        BY <2>1, <2>2 DEF IInv, RowInv, Genuine
      <4> QED
        BY <2>1, <2>2, <3>1, <4>1, <4>2
        DEF Ledger!Abandoned, Ledger!Deleted, Ledger!Held, Ledger!Erased
    <3>2. CASE w[m] = "uploaded"
      <4>1. Genuine(m) /\ status[m] # "removed"
        BY <1>3, <2>2, <3>2 DEF IInv, CleaningInv, Present
      <4> QED
        BY <2>1, <2>2, <3>2, <4>1 DEF Genuine, Ledger!Accepted, Ledger!Erased
    <3>3. CASE w[m] = "failed"
      <4>1. Refuted(m) /\ status[m] \notin {"removed", "uploaded"}
        BY <1>3, <2>2, <3>3 DEF IInv, CleaningInv, Present
      <4> QED
        BY <2>1, <2>2, <3>3, <4>1 DEF Refuted, Ledger!Rejected, Ledger!Erased
    <3> QED
      BY <2>1, <2>2, <3>1, <3>2, <3>3
  <2>3. DOMAIN status' = Media /\ \A m \in Media : m \in DOMAIN w \/ status'[m] = status[m]
    BY <1>3
  <2>4. \A m \in DOMAIN w : status'[m] = w[m]
    BY <1>3, <2>1
  <2>5. Ledger!Settle
    <3> HIDE DEF w
    <3> QED
      BY <1>1, <2>2, <2>3, <2>4 DEF Ledger!Settle
  <2> QED
    BY <2>5 DEF Ledger!Next
<1> QED
  BY <1>2, <1>3 DEF CleanupCommit

LEMMA LedgerAsk ==
  ASSUME IInv, NEW r \in Reqs, NEW S \in SUBSET Media, delete_media(r, S)
  PROVE  Ledger!Next
<1> DEFINE H == {m \in S : client[m] \in {"ready", "sending"}}
<1>1. \A m \in S : status[m] \in {"pending", "uploaded", "failed"}
  BY DEF delete_media, Present, IInv, TypeOK, RowStatuses
<1>2. H \in SUBSET {m \in S : status[m] = "pending" /\ object[m] = "none"}
  BY <1>1 DEF IInv, RowInv, Early
<1>3. /\ asked' = asked \cup S /\ hasty' = hasty \cup H
      /\ UNCHANGED <<granted, status, file, object>>
  BY DEF delete_media, event, rows
<1>4. Ledger!Ask(S)
  BY <1>1, <1>2, <1>3 DEF Ledger!Ask, Ledger!Held
<1> QED
  BY <1>4 DEF Ledger!Next

LEMMA LedgerErase ==
  ASSUME IInv, NEW r \in Reqs, delete_objects(r)
  PROVE  Ledger!Next
<1>1. tx[r].rows \in SUBSET Media /\ tx[r].rows \subseteq asked
  BY DEF IInv, RecordInv, Sessions, SessionInv, SessionOf, delete_objects
<1>2. PICK D \in SUBSET tx[r].rows : Erase(D)
  BY DEF delete_objects
<1>3. Ledger!Erase(D)
  BY <1>1, <1>2 DEF Ledger!Erase, Erase, delete_objects, event, rows
<1> QED
  BY <1>1, <1>3 DEF Ledger!Next

LEMMA LedgerGrant ==
  ASSUME NEW p \in Packages, SetPackage(p)
  PROVE  Ledger!Next
<1>1. Ledger!Grant(p)
  BY DEF Ledger!Grant, SetPackage, rows
<1> QED
  BY <1>1 DEF Ledger!Next

LEMMA LedgerStep == IInv /\ [Next]_vars => [Ledger!Next]_(Ledger!vars)
<1> SUFFICES ASSUME IInv, [Next]_vars
             PROVE  [Ledger!Next]_(Ledger!vars)
  OBVIOUS
<1>1. CASE GuestStep
  <2>1. ASSUME NEW m \in Media,
               StartPut(m) \/ Leave(m) \/ ConfirmKnown(m)
        PROVE  [Ledger!Next]_(Ledger!vars)
    BY <2>1, LedgerStutter DEF StartPut, Leave, ConfirmKnown, event, rows
  <2> QED
    BY <1>1, <2>1, LedgerArrive DEF GuestStep
<1>2. ASSUME NEW m \in Media, Age(m)
      PROVE  [Ledger!Next]_(Ledger!vars)
  BY <1>2, LedgerStutter DEF Age, event
<1>3. ASSUME NEW r \in Reqs, RequestStep(r)
      PROVE  [Ledger!Next]_(Ledger!vars)
  <2>1. ASSUME NEW f \in Files, initiate_upload(r, f)
        PROVE  [Ledger!Next]_(Ledger!vars)
    BY <2>1, LedgerStutter DEF initiate_upload, event, rows
  <2>2. ASSUME NEW m \in Media, enforce_upload_entitlement(r, m) \/ confirm_upload(r, m)
        PROVE  [Ledger!Next]_(Ledger!vars)
    BY <2>2, LedgerStutter DEF enforce_upload_entitlement, confirm_upload, event, rows
  <2>3. CASE Abort(r)
    BY <2>3, LedgerStutter DEF Abort, event, rows
  <2> QED
    BY <1>3, <2>1, <2>2, <2>3, LedgerReserve, LedgerConfirm, LedgerAsk, LedgerErase, LedgerDelete
    DEF RequestStep
<1>4. CASE WorkerStep
  <2>1. CASE cleanup_stale_uploads \/ WorkerCrash
    BY <2>1, LedgerStutter DEF cleanup_stale_uploads, WorkerCrash, event, rows
  <2>2. ASSUME NEW m \in Media, Inspect(m) \/ InspectError(m)
        PROVE  [Ledger!Next]_(Ledger!vars)
    BY <2>2, LedgerStutter DEF Inspect, InspectError, event, rows
  <2> QED
    BY <1>4, <2>1, <2>2, LedgerCleanup DEF WorkerStep
<1>5. CASE UNCHANGED vars
  BY <1>5, LedgerStutter DEF vars, event, rows
<1> QED
  BY <1>1, <1>2, <1>3, <1>4, <1>5, LedgerGrant DEF Next

\* Requests, pages and passes, however they interleave, keep the ledger's promises
\* (app/main.py, package_enforcement.py, upload_cleanup.py).
THEOREM Implements == Spec => ImplementsLedger
<1>1. Init /\ [][Next]_vars /\ []IInv => Ledger!Init /\ [][Ledger!Next]_(Ledger!vars)
  BY LedgerInit, LedgerStep, PTL
<1> QED
  BY <1>1, Invariance, PTL DEF Spec, ImplementsLedger, Ledger!Spec

\* The ledger is worth implementing: its steps alone keep what it promises.
LedgerInv ==
  /\ granted \subseteq Packages /\ file \in [Media -> Files] /\ DOMAIN status = Media
  /\ DOMAIN object = Media
  /\ IsFiniteSet(event_package_usage)
  /\ Ledger!Promise

LEMMA LedgerSums ==
  ASSUME LedgerInv
  PROVE  /\ Sized(file, event_package_usage) /\ Cardinality(event_package_usage) \in Nat
         /\ Bytes(event_package_usage) = Total(file, event_package_usage)
         /\ Total(file, event_package_usage) \in Nat
<1>1. Sized(file, event_package_usage)
  BY Limits DEF LedgerInv, Sized, event_package_usage
<1> QED
  BY <1>1, BytesNow, CellsFinite, FS_CardinalityType DEF Sized

LEMMA LedgerNext ==
  ASSUME Sized(file', event_package_usage')
  PROVE  /\ Ledger!Cardinality(Ledger!Counted)' = Cardinality(event_package_usage')
         /\ Ledger!Bytes' = Total(file', event_package_usage')
<1>1. Ledger!Counted' = event_package_usage'
  BY DEF Ledger!Counted, event_package_usage
<1>2. Ledger!Bytes' = Fold(file', Ledger!Counted')[Ledger!Counted']
  BY DEF Ledger!Bytes, Ledger!MapThenSumSet, Ledger!MapThenFoldSet, Fold, Adds, First
<1>3. Ledger!Cardinality(Ledger!Counted)' = Cardinality(event_package_usage')
  BY <1>1 DEF Cardinality, Ledger!Cardinality
<1> QED
  BY <1>1, <1>2, <1>3, FoldIsTotal

LedgerFits(p) == Ledger!Cardinality(Ledger!Counted) <= p.media /\ Ledger!Bytes <= p.bytes

\* A step that adds no row keeps the quota.
LEMMA LedgerShrinks ==
  ASSUME LedgerInv, event_package_usage' \subseteq event_package_usage, file' = file,
         granted \subseteq granted'
  PROVE  IsFiniteSet(event_package_usage') /\ \E p \in granted' : LedgerFits(p)'
<1> DEFINE U == event_package_usage
           V == event_package_usage'
<1>1. IsFiniteSet(V) /\ Cardinality(V) \in Nat /\ Cardinality(V) <= Cardinality(U)
  BY LedgerSums, FS_Subset, FS_CardinalityType DEF Sized
<1>2. Sized(file', V)
  BY <1>1, LedgerSums DEF Sized
<1>3. Ledger!Cardinality(Ledger!Counted)' = Cardinality(V) /\ Ledger!Bytes' = Total(file, V)
  BY <1>2, LedgerNext
<1>4. Total(file, V) \in Nat /\ Total(file, V) <= Total(file, U)
  BY <1>2, LedgerSums, TotalSubset, CellsFinite
<1>5. PICK p \in granted : Cardinality(U) <= p.media /\ Total(file, U) <= p.bytes
  BY LedgerSums, LedgerUsage DEF LedgerInv, Ledger!Promise
<1>6. p \in granted' /\ p.media \in Nat /\ p.bytes \in Nat
  BY <1>5, Limits DEF LedgerInv
<1>7. Cardinality(V) <= p.media /\ Total(file, V) <= p.bytes
  BY <1>1, <1>4, <1>5, <1>6, LedgerSums
<1> QED
  BY <1>1, <1>3, <1>6, <1>7 DEF LedgerFits

\* A reservation that fits keeps the quota.
LEMMA LedgerGrows ==
  ASSUME LedgerInv, NEW m \in Media, NEW f \in Files, Ledger!Reserve(m, f)
  PROVE  IsFiniteSet(event_package_usage') /\ \E p \in granted' : LedgerFits(p)'
<1> DEFINE U == event_package_usage
           V == event_package_usage'
<1>1. /\ status[m] = "absent" /\ status' = [status EXCEPT ![m] = "pending"]
      /\ file' = [file EXCEPT ![m] = f] /\ granted' = granted
  BY DEF Ledger!Reserve
<1>2. m \notin U /\ V = U \cup {m} /\ V \ {m} = U
  BY <1>1 DEF event_package_usage, LedgerInv
<1>3. IsFiniteSet(V) /\ Cardinality(V) = Cardinality(U) + 1
  BY <1>2, LedgerSums, FS_AddElement DEF Sized
<1>4. \A k \in V : file'[k] = IF k = m THEN f ELSE file[k]
  BY <1>1 DEF LedgerInv, event_package_usage
<1>5. Sized(file', V)
  BY <1>2, <1>3, <1>4, LedgerSums, Limits DEF Sized
<1>6. Total(file', V) = f.size + Total(file, U)
  <2>1. Total(file', V) = file'[m].size + Total(file', V \ {m})
    BY <1>2, <1>5, TotalAdd
  <2>2. Total(file', U) = Total(file, U)
    BY <1>2, <1>4, TotalSame
  <2> QED
    BY <1>2, <1>4, <2>1, <2>2
<1>7. PICK p \in granted : Ledger!Fits(f, p)
  BY DEF Ledger!Reserve
<1>8. Cardinality(U) + 1 <= p.media /\ Total(file, U) + f.size <= p.bytes
  BY <1>7, LedgerSums, LedgerUsage DEF Ledger!Fits
<1>9. Cardinality(V) <= p.media /\ Total(file', V) <= p.bytes
  BY <1>3, <1>6, <1>8, LedgerSums, Limits
<1>10. Ledger!Cardinality(Ledger!Counted)' = Cardinality(V) /\ Ledger!Bytes' = Total(file', V)
  BY <1>5, LedgerNext
<1> QED
  BY <1>1, <1>3, <1>9, <1>10 DEF LedgerFits

LEMMA LedgerKept == LedgerInv /\ [Ledger!Next]_(Ledger!vars) => LedgerInv'
<1> SUFFICES ASSUME LedgerInv, [Ledger!Next]_(Ledger!vars) PROVE LedgerInv'
  OBVIOUS
<1> DEFINE
  Rows == \A m \in Media :
            /\ status[m] = "uploaded" => object[m] = "match" \/ m \in asked
            /\ status[m] = "removed" => object[m] = "none" \/ m \in SlowPuts \cup hasty
  Typed == granted \subseteq Packages /\ file \in [Media -> Files]
           /\ DOMAIN status = Media /\ DOMAIN object = Media
<1>1. Rows /\ Typed
  BY DEF LedgerInv, Ledger!Promise
<1>2. Rows' /\ Typed' /\ IsFiniteSet(event_package_usage') /\ (\E p \in granted' : LedgerFits(p)')
        => LedgerInv'
  BY DEF LedgerInv, Ledger!Promise, LedgerFits
<1>3. ASSUME NEW p \in Packages, Ledger!Grant(p) PROVE LedgerInv'
  <2>1. Rows' /\ Typed'
    BY <1>1, <1>3 DEF Ledger!Grant
  <2>2. event_package_usage' = event_package_usage /\ file' = file /\ granted \subseteq granted'
    BY <1>3 DEF Ledger!Grant, event_package_usage
  <2> QED
    BY <1>2, <2>1, <2>2, LedgerShrinks
<1>4. ASSUME NEW m \in Media, NEW f \in Files, Ledger!Reserve(m, f) PROVE LedgerInv'
  <2>1. Rows' /\ Typed'
    BY <1>1, <1>4 DEF Ledger!Reserve
  <2> QED
    BY <1>2, <1>4, <2>1, LedgerGrows
<1>5. ASSUME NEW m \in Media, NEW content \in {"match", "mismatch"}, Ledger!Arrive(m, content)
      PROVE  LedgerInv'
  <2>1. Rows' /\ Typed'
    BY <1>1, <1>5 DEF Ledger!Arrive
  <2>2. event_package_usage' = event_package_usage /\ file' = file /\ granted \subseteq granted'
    BY <1>5 DEF Ledger!Arrive, event_package_usage
  <2> QED
    BY <1>2, <2>1, <2>2, LedgerShrinks
<1>6. ASSUME Ledger!Settle PROVE LedgerInv'
  <2>1. Rows' /\ Typed'
    BY <1>1, <1>6 DEF Ledger!Settle, Ledger!Accepted, Ledger!Rejected, Ledger!Abandoned,
      Ledger!Deleted, Ledger!Held, Ledger!Erased
  <2>2. event_package_usage' \subseteq event_package_usage /\ file' = file /\ granted \subseteq granted'
    BY <1>6 DEF Ledger!Settle, Ledger!Accepted, Ledger!Rejected, Ledger!Abandoned,
      Ledger!Deleted, Ledger!Held, Ledger!Erased,
      event_package_usage
  <2> QED
    BY <1>2, <2>1, <2>2, LedgerShrinks
<1>7. ASSUME NEW S \in SUBSET Media, Ledger!Ask(S) \/ Ledger!Erase(S) PROVE LedgerInv'
  <2>1. Rows' /\ Typed'
    BY <1>1, <1>7 DEF Ledger!Ask, Ledger!Erase
  <2>2. event_package_usage' = event_package_usage /\ file' = file /\ granted \subseteq granted'
    BY <1>7 DEF Ledger!Ask, Ledger!Erase, event_package_usage
  <2> QED
    BY <1>2, <2>1, <2>2, LedgerShrinks
<1>8. CASE UNCHANGED Ledger!vars
  <2>1. Rows' /\ Typed'
    BY <1>1, <1>8 DEF Ledger!vars
  <2>2. event_package_usage' = event_package_usage /\ file' = file /\ granted \subseteq granted'
    BY <1>8 DEF Ledger!vars, event_package_usage
  <2> QED
    BY <1>2, <2>1, <2>2, LedgerShrinks
<1> QED
  BY <1>3, <1>4, <1>5, <1>6, <1>7, <1>8 DEF Ledger!Next

LEMMA LedgerBegins == Ledger!Init => LedgerInv
<1> SUFFICES ASSUME Ledger!Init PROVE LedgerInv
  OBVIOUS
<1>1. event_package_usage = {}
  BY DEF Ledger!Init, event_package_usage
<1>2. IsFiniteSet(event_package_usage) /\ Cardinality(event_package_usage) = 0
  BY <1>1, FS_EmptySet
<1>3. Ledger!Bytes = 0
  BY <1>1, LedgerUsage, BytesNow, TotalEmpty, FS_EmptySet DEF Sized
<1>4. PICK p \in Packages : granted = {p}
  BY DEF Ledger!Init
<1>5. p.media \in Nat /\ p.bytes \in Nat
  BY Limits
<1>6. Ledger!Promise
  BY <1>2, <1>3, <1>4, <1>5, LedgerUsage DEF Ledger!Init, Ledger!Promise
<1> QED
  BY <1>2, <1>4, <1>6 DEF Ledger!Init, LedgerInv

\* Any ledger keeps its promise.
THEOREM LedgerPromises == Ledger!Spec => []Ledger!Promise
<1>1. LedgerInv => Ledger!Promise
  BY DEF LedgerInv
<1> QED
  BY <1>1, LedgerBegins, LedgerKept, PTL DEF Ledger!Spec

\* So do the requests, the pages and the cleanup (package_enforcement.py, upload_cleanup.py).
THEOREM LedgerKeepsPromise == Spec => []Ledger!Promise
BY Implements, LedgerPromises DEF ImplementsLedger
=============================================================================
