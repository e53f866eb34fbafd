-------------------------- MODULE ZoneCacheProofs --------------------------
(***************************************************************************)
(* What the zone cache may say, for any number of processes, builds,       *)
(* crashes and zones: but for the signatures of cut records that something *)
(* was written behind, every record that is read back is one that a solver *)
(* call made, and it says of each zone that it is used for what holds of   *)
(* that zone.                                                              *)
(***************************************************************************)
EXTENDS ZoneCache, SequenceTheorems, FiniteSetTheorems, WellFoundedInduction, TLAPS

(* A set of natural numbers has a least element.                           *)
LEMMA Least ==
  ASSUME NEW T, T \subseteq Nat, T # {}
  PROVE  Min(T) \in T /\ \A y \in T : Min(T) <= y
<1> DEFINE R == OpToRel(<, Nat)
<1>1. R = {ss \in Nat \X Nat : ss[1] < ss[2]}
  BY DEF OpToRel
<1>2. IsWellFoundedOn(R, Nat)
  BY NatLessThanWellFounded
<1> HIDE DEF R
<1>3. PICK x \in T : \A y \in T : <<y, x>> \notin R
  BY <1>2, WFMin
<1>4. \A y \in T : ~(y < x)
  BY <1>1, <1>3
<1>5. \A y \in T : x <= y
  BY <1>4
<1>. QED  BY <1>5 DEF Min

(* One that is bounded has a greatest.                                     *)
LEMMA Greatest ==
  ASSUME NEW n \in Nat, NEW T, T \subseteq 1..n, T # {}
  PROVE  Max(T) \in T /\ \A y \in T : Max(T) >= y
<1> DEFINE D == {n - t : t \in T}
<1>1. \A t \in T : t \in Int /\ 1 <= t /\ t <= n
  OBVIOUS
<1>2. D \subseteq Nat /\ D # {}
  <2>1. \A t \in T : n - t \in Nat
    BY <1>1
  <2>. QED  BY <2>1
<1>3. PICK d \in D : \A e \in D : d <= e
  <2> HIDE DEF D
  <2>. QED  BY <1>2, Least
<1>4. PICK t \in T : d = n - t
  OBVIOUS
<1>5. \A y \in T : n - t <= n - y
  BY <1>3, <1>4
<1>6. \A y \in T : t >= y
  <2> HIDE DEF D
  <2>. QED  BY <1>1, <1>5
<1>. QED  BY <1>6 DEF Max
-----------------------------------------------------------------------------
\* What may stand in a record.
Signatures == {canon[z].sig : z \in Zones}
Entries == [outcome : {"Solved", "Unsat", "Timeout"}, budget : Budgets \cup {0},
            found : {<<>>, Remnant} \cup UNION {FoundIn(z) : z \in Zones}, version : Versions \cup {Garbled}]

\* e is what some build's solver can have made of a zone with signature s.
Learnt(s, e) ==
  \E v \in Versions, z \in Zones, b \in Budgets : canon[z].sig = s /\ e \in Outcomes(v, z, b)

\* e can be what a cut record was taken for, where spoilt has the signatures
\* of those that something was written behind.
Harmed(s, e, spoilt) ==
  /\ s \in spoilt \/ e.version = Garbled
  /\ e.outcome = "Solved" => e.found = Remnant

\* The records of a solver's outcomes, and those that a reader may take.
Records == {r \in [sig : Signatures, entry : Entries] : Learnt(r.sig, r.entry)}
Readable(spoilt) ==
  {r \in [sig : Signatures, entry : Entries] : Learnt(r.sig, r.entry) \/ Harmed(r.sig, r.entry, spoilt)}

IsFile(file) ==
  file \in [records : Seq(Readable(file.spoilt)), cut : {<<>>} \cup {<<r>> : r \in Records},
            astray : BOOLEAN, spoilt : SUBSET Signatures]

Known(map, spoilt) == \A s \in DOMAIN map : [sig |-> s, entry |-> map[s]] \in Readable(spoilt)

(* Wherever a record is on its way: in a buffer, in the hands of a flush, *)
(* in the file, where others may be taken for it once it is cut off, and  *)
(* in a table.                                                            *)
CacheInv ==
  /\ IsFile(disk)
  /\ buffer \in [Process -> Seq(Records)]
  /\ writing \in [Process -> Seq(Records)]
  /\ build \in [Process -> Versions]
  /\ DOMAIN table = Process
  /\ \A p \in Process : table[p] = NotLoaded \/ Known(table[p][1], disk.spoilt)

(* What the solver makes of a zone is a record's contents.                 *)
LEMMA LearntRecord ==
  ASSUME NEW v \in Versions, NEW z \in Zones, NEW b \in Budgets, NEW e \in Outcomes(v, z, b)
  PROVE  [sig |-> canon[z].sig, entry |-> e] \in Records
<1>1. Learnt(canon[z].sig, e)
  BY DEF Learnt
<1>2. FoundIn(z) \subseteq UNION {FoundIn(y) : y \in Zones}
  OBVIOUS
<1> DEFINE F == UNION {FoundIn(y) : y \in Zones}
<1>3. \E o \in {"Solved", "Unsat", "Timeout"}, c \in Budgets \cup {0}, f \in {<<>>} \cup F :
        e = [outcome |-> o, budget |-> c, found |-> f, version |-> v]
  <2> HIDE DEF F
  <2>. QED  BY <1>2 DEF Outcomes, F
<1> HIDE DEF F
<1>4. e \in Entries
  BY <1>3 DEF Entries, F
<1>. QED  BY <1>1, <1>4 DEF Records, Signatures

(* What is readable stays so when more signatures are spoilt.              *)
LEMMA StaysReadable ==
  ASSUME NEW A, NEW B, A \subseteq B
  PROVE  Readable(A) \subseteq Readable(B) /\ Records \subseteq Readable(A)
BY DEF Readable, Records, Harmed

(* A cut record is never taken for a whole one of a signature that is not  *)
(* its own, with a version that some build has.                            *)
LEMMA MisreadAsHarmed ==
  ASSUME NEW r \in Records, NEW m \in Misread(r)
  PROVE  m \in Readable({r.sig})
<1>1. r \in [sig : Signatures, entry : Entries]
  BY DEF Records
<1> DEFINE as(o, b, f) == [r EXCEPT !.entry.outcome = o, !.entry.budget = b, !.entry.found = f]
<1>2. ASSUME NEW o \in {"Solved", "Unsat", "Timeout"}, NEW b \in Budgets \cup {0}, NEW f \in {<<>>, Remnant},
             o = "Solved" => f = Remnant, m = as(o, b, f)
      PROVE  m \in Readable({r.sig})
  <2>1. m = [sig |-> r.sig, entry |-> [outcome |-> o, budget |-> b, found |-> f, version |-> r.entry.version]]
    BY <1>1, <1>2 DEF Entries
  <2>2. m \in [sig : Signatures, entry : Entries]
    BY <1>1, <2>1 DEF Entries
  <2>. QED  BY <1>2, <2>1, <2>2 DEF Readable, Harmed
<1>3. ASSUME NEW z \in Zones,
             m = [sig |-> canon[z].sig, entry |-> [r.entry EXCEPT !.version = Garbled, !.found = Remnant]]
      PROVE  m \in Readable({r.sig})
  <2>1. m.entry = [outcome |-> r.entry.outcome, budget |-> r.entry.budget, found |-> Remnant, version |-> Garbled]
    BY <1>1, <1>3 DEF Entries
  <2>2. m.entry \in Entries
    BY <1>1, <2>1 DEF Entries
  <2>3. m.sig \in Signatures
    BY <1>3 DEF Signatures
  <2>4. m \in [sig : Signatures, entry : Entries]
    BY <1>3, <2>2, <2>3
  <2>. QED  BY <2>1, <2>4 DEF Readable, Harmed
<1>. QED  BY <1>2, <1>3 DEF Misread

(* Whatever is written, and however much of it: the file stays one, and    *)
(* what is spoilt stays so.                                                *)
LEMMA AppendedIsFile ==
  ASSUME NEW file, IsFile(file), NEW r \in Records, NEW whole \in BOOLEAN,
         NEW new \in Appended(file, r, whole)
  PROVE  IsFile(new) /\ file.spoilt \subseteq new.spoilt
<1>1. file \in [records : Seq(Readable(file.spoilt)), cut : {<<>>} \cup {<<c>> : c \in Records},
                astray : BOOLEAN, spoilt : SUBSET Signatures]
  BY DEF IsFile
<1>2. CASE file.cut = <<>> /\ ~file.astray
  <2>1. CASE whole
    <3>1. new = [file EXCEPT !.records = Append(@, r)]
      BY <1>2, <2>1 DEF Appended
    <3>2. r \in Readable(file.spoilt)
      BY StaysReadable
    <3>3. Append(file.records, r) \in Seq(Readable(file.spoilt))
      BY <1>1, <3>2
    <3>. QED  BY <1>1, <3>1, <3>3 DEF IsFile
  <2>2. CASE ~whole
    <3>1. new = [file EXCEPT !.cut = <<r>>]
      BY <1>2, <2>2 DEF Appended
    <3>. QED  BY <1>1, <3>1 DEF IsFile
  <2>. QED  BY <2>1, <2>2
<1>3. CASE ~(file.cut = <<>> /\ ~file.astray)
  <2> DEFINE lost == file.spoilt \cup {c.sig : c \in Range(file.cut)}
             S == Readable(lost)
  <2>1. Range(file.cut) \subseteq Records
    <3>1. file.cut = <<>> \/ \E c \in Records : file.cut = <<c>>
      BY <1>1
    <3>. QED  BY <3>1 DEF Range
  <2>2. lost \in SUBSET Signatures
    BY <1>1, <2>1 DEF Records
  <2>3. PICK f \in Readings(file) : new = [f EXCEPT !.spoilt = @ \cup {c.sig : c \in Range(file.cut)}]
    BY <1>3 DEF Appended
  <2>4. file.records \in Seq(S)
    <3>1. Readable(file.spoilt) \subseteq S
      BY StaysReadable
    <3>2. file.records \in Seq(Readable(file.spoilt))
      BY <1>1
    <3> HIDE DEF S
    <3>. QED  BY <3>1, <3>2
  <2>5. ASSUME NEW c \in Range(file.cut), NEW m \in Misread(c) PROVE m \in S
    <3>1. m \in Readable({c.sig}) /\ {c.sig} \subseteq lost
      BY <2>1, <2>5, MisreadAsHarmed
    <3>. QED  BY <3>1, StaysReadable
  <2>6. f \in [records : Seq(S), cut : {<<>>} \cup {<<c>> : c \in Records}, astray : BOOLEAN, spoilt : {file.spoilt}]
    <3>1. CASE f = file
      BY <1>1, <2>4, <3>1
    <3> DEFINE G == {<<>>} \cup {<<m>> : m \in UNION {Misread(c) : c \in Range(file.cut)}}
    <3>2. ASSUME NEW got \in G, NEW b \in BOOLEAN,
                 f = [file EXCEPT !.records = @ \o got, !.cut = <<>>, !.astray = b]
          PROVE  f \in [records : Seq(S), cut : {<<>>} \cup {<<c>> : c \in Records},
                         astray : BOOLEAN, spoilt : {file.spoilt}]
      <4>1. got \in Seq(S)
        <5>1. CASE got = <<>>
          BY <5>1
        <5>2. CASE got # <<>>
          <6>1. PICK c \in Range(file.cut) : \E m \in Misread(c) : got = <<m>>
            BY <5>2
          <6>2. PICK m \in Misread(c) : got = <<m>>
            BY <6>1
          <6>3. m \in S
            BY <2>5
          <6> HIDE DEF S
          <6>. QED  BY <6>2, <6>3
        <5>. QED  BY <5>1, <5>2
      <4> HIDE DEF S
      <4>2. file.records \o got \in Seq(S)
        BY <2>4, <4>1
      <4>. QED  BY <1>1, <3>2, <4>2
    <3>3. \E got \in G, b \in BOOLEAN : f \in {file, ReadOn(file, got, b)}
      BY DEF Readings
    <3> HIDE DEF G, S
    <3>. QED  BY <3>1, <3>2, <3>3 DEF ReadOn
  <2> HIDE DEF S
  <2>7. new \in [records : Seq(S), cut : {<<>>} \cup {<<c>> : c \in Records}, astray : BOOLEAN, spoilt : {lost}]
    BY <2>3, <2>6
  <2>8. new.spoilt = lost
    BY <2>7
  <2> HIDE DEF lost
  <2>9. new \in [records : Seq(S), cut : {<<>>} \cup {<<c>> : c \in Records},
                 astray : BOOLEAN, spoilt : SUBSET Signatures]
    BY <2>2, <2>7
  <2>. QED  BY <2>8, <2>9 DEF IsFile, S, lost
<1>. QED  BY <1>2, <1>3

(* A process takes from the file the newest record of each signature that  *)
(* it can read, and keeps what it knew of the others.                      *)
LEMMA InstalledKnown ==
  ASSUME NEW file, IsFile(file), NEW map, Known(map, file.spoilt)
  PROVE  Known(Installed(map, file), file.spoilt)
<1> DEFINE S == Readable(file.spoilt)
           recs == ParseRecords(file)
           sigs == {recs[i].sig : i \in 1 .. Len(recs)}
           At(s) == {i \in 1 .. Len(recs) : recs[i].sig = s}
<1>1. recs \in Seq(S)
  BY DEF IsFile, ParseRecords
<1>2. \A r \in S : r = [sig |-> r.sig, entry |-> r.entry]
  BY DEF Readable
<1> HIDE DEF recs, S
<1>3. Len(recs) \in Nat /\ \A i \in 1..Len(recs) : recs[i] \in S
  BY <1>1
<1>4. ASSUME NEW s \in sigs
      PROVE  [sig |-> s, entry |-> recs[Max(At(s))].entry] \in S
  <2>1. At(s) # {} /\ At(s) \subseteq 1..Len(recs)
    OBVIOUS
  <2> DEFINE i == Max(At(s))
  <2>2. i \in At(s)
    BY <1>3, <2>1, Greatest
  <2> HIDE DEF i
  <2>3. recs[i] \in S /\ recs[i].sig = s
    BY <1>3, <2>2
  <2>. QED  BY <1>2, <2>3 DEF i
<1>5. Installed(map, file) =
        [s \in DOMAIN map \union sigs |-> IF s \in sigs THEN recs[Max(At(s))].entry ELSE map[s]]
  BY DEF Installed, recs
<1> HIDE DEF sigs, At
<1>. QED  BY <1>4, <1>5 DEF Known, S

(* What a lookup reads is known.                                           *)
LEMMA TableKnown ==
  ASSUME CacheInv, NEW p \in Process
  PROVE  Known(LookupTable(p), disk.spoilt)
<1>1. Known(<<>>, disk.spoilt)
  BY DEF Known
<1>. QED  BY <1>1, InstalledKnown DEF CacheInv, LookupTable

(* What is recorded is known beside what was.                              *)
LEMMA RecordedKnown ==
  ASSUME NEW map, NEW spoilt, Known(map, spoilt), NEW s, NEW e, [sig |-> s, entry |-> e] \in Records
  PROVE  Known(Recorded(map, s, e), spoilt)
BY StaysReadable DEF Known, Recorded
-----------------------------------------------------------------------------
(* No step of a process learns anything but from the solver, or from a     *)
(* record that is spoilt.                                                  *)
LEMMA CacheNext == CacheInv /\ [Next]_vars => CacheInv'
<1> SUFFICES ASSUME CacheInv, [Next]_vars PROVE CacheInv'
  OBVIOUS
<1>1. canon' = canon
  BY DEF Next, vars, AnswerFromCache, SolveAfresh, Restart, Flush, WriteRecord, DeferFlush,
         DiscardPending, InstallPrebaked
<1>2. Signatures' = Signatures /\ Records' = Records
  BY <1>1 DEF Records, Learnt, Signatures
<1>3. \A spoilt : Readable(spoilt)' = Readable(spoilt)
  BY <1>1 DEF Readable, Learnt, Harmed, Signatures
<1>4. \A file : IsFile(file)' <=> IsFile(file)
  BY <1>2, <1>3 DEF IsFile
<1>5. \A map, spoilt : Known(map, spoilt)' <=> Known(map, spoilt)
  BY <1>3 DEF Known
<1>6. Records' = Records /\ (disk' = disk => IsFile(disk)' /\ disk'.spoilt = disk.spoilt)
      /\ \A map, spoilt : Known(map, spoilt)' <=> Known(map, spoilt)
  BY <1>2, <1>4, <1>5 DEF CacheInv
<1>7. ASSUME NEW p \in Process, NEW map, Known(map, disk.spoilt), table' = [table EXCEPT ![p] = <<map>>]
      PROVE  DOMAIN table' = Process /\ \A q \in Process : table'[q] = NotLoaded \/ Known(table'[q][1], disk.spoilt)
  BY <1>7 DEF CacheInv
<1>8. ASSUME NEW p \in Process, NEW z \in Zones, NEW b \in Budgets,
             AnswerFromCache(p, z, b) \/ SolveAfresh(p, z, b)
      PROVE  CacheInv'
  <2>1. CASE AnswerFromCache(p, z, b)
    BY <1>6, <1>7, <2>1, TableKnown DEF AnswerFromCache, CacheInv
  <2>2. CASE SolveAfresh(p, z, b)
    <3>1. PICK entry \in Outcomes(build[p], z, b) :
            /\ table' = [table EXCEPT ![p] = <<Recorded(LookupTable(p), canon[z].sig, entry)>>]
            /\ buffer' = [buffer EXCEPT ![p] = Append(@, [sig |-> canon[z].sig, entry |-> entry])]
      BY <2>2 DEF SolveAfresh
    <3>2. build[p] \in Versions
      BY DEF CacheInv
    <3> DEFINE r == [sig |-> canon[z].sig, entry |-> entry]
    <3>3. r \in Records
      BY <3>2, LearntRecord
    <3>4. Known(Recorded(LookupTable(p), canon[z].sig, entry), disk.spoilt)
      BY <3>3, TableKnown, RecordedKnown
    <3>5. DOMAIN table' = Process /\ \A q \in Process : table'[q] = NotLoaded \/ Known(table'[q][1], disk.spoilt)
      BY <1>7, <3>1, <3>4
    <3> HIDE DEF r
    <3>6. buffer' \in [Process -> Seq(Records)]
      <4>1. Append(buffer[p], r) \in Seq(Records)
        BY <3>3 DEF CacheInv
      <4>. QED  BY <3>1, <4>1 DEF CacheInv, r
    <3>7. UNCHANGED <<disk, writing, build>>
      BY <2>2 DEF SolveAfresh
    <3>. QED  BY <1>6, <3>5, <3>6, <3>7 DEF CacheInv
  <2>. QED  BY <1>8, <2>1, <2>2
<1>9. ASSUME NEW p \in Process, NEW v \in Versions, Restart(p, v) PROVE CacheInv'
  <2>1. UNCHANGED disk
    BY <1>9 DEF Restart
  <2>2. <<>> \in Seq(Records)
    OBVIOUS
  <2>3. buffer' \in [Process -> Seq(Records)] /\ writing' \in [Process -> Seq(Records)]
    BY <1>9, <2>2 DEF Restart, CacheInv
  <2>4. build' \in [Process -> Versions]
    BY <1>9 DEF Restart, CacheInv
  <2>5. DOMAIN table' = Process /\ \A q \in Process : table'[q] = NotLoaded \/ Known(table'[q][1], disk.spoilt)
    BY <1>9 DEF Restart, CacheInv
  <2>. QED  BY <1>6, <2>1, <2>3, <2>4, <2>5 DEF CacheInv
<1>10. ASSUME NEW p \in Process, Flush(p) PROVE CacheInv'
  <2>1. buffer' \in [Process -> Seq(Records)] /\ writing' \in [Process -> Seq(Records)]
    <3>1. <<>> \in Seq(Records) /\ buffer[p] \in Seq(Records)
      BY DEF CacheInv
    <3>2. buffer' = [buffer EXCEPT ![p] = <<>>]
      BY <1>10 DEF Flush
    <3>3. writing' = writing \/ writing' = [writing EXCEPT ![p] = buffer[p]]
      BY <1>10 DEF Flush
    <3>. QED  BY <3>1, <3>2, <3>3 DEF CacheInv
  <2>2. UNCHANGED <<disk, table, build>>
    BY <1>10 DEF Flush
  <2>. QED  BY <1>6, <2>1, <2>2 DEF CacheInv
<1>11. ASSUME NEW p \in Process, WriteRecord(p) PROVE CacheInv'
  <2>1. writing[p] \in Seq(Records) /\ writing[p] # <<>>
    BY <1>11 DEF WriteRecord, CacheInv
  <2>2. Head(writing[p]) \in Records /\ Tail(writing[p]) \in Seq(Records)
    BY <2>1
  <2>3. IsFile(disk') /\ disk.spoilt \subseteq disk'.spoilt
    <3>1. CASE disk' = disk
      BY <3>1 DEF CacheInv
    <3>2. CASE disk' # disk
      <4>1. PICK whole \in BOOLEAN : disk' \in Appended(disk, Head(writing[p]), whole)
        BY <1>11, <3>2 DEF WriteRecord
      <4>. QED  BY <2>2, <4>1, AppendedIsFile DEF CacheInv
    <3>. QED  BY <3>1, <3>2
  <2>4. writing' \in [Process -> Seq(Records)]
    BY <1>11, <2>2 DEF WriteRecord, CacheInv
  <2>5. UNCHANGED <<table, buffer, build>>
    BY <1>11 DEF WriteRecord
  <2>6. \A map : Known(map, disk.spoilt) => Known(map, disk'.spoilt)
    BY <2>3, StaysReadable DEF Known
  <2>7. IsFile(disk)' <=> IsFile(disk')
    BY <1>4
  <2>. QED  BY <1>6, <2>3, <2>4, <2>5, <2>6, <2>7 DEF CacheInv
<1>12. ASSUME NEW p \in Process, DeferFlush(p) \/ DiscardPending(p) PROVE CacheInv'
  <2>1. <<>> \in Seq(Records)
    OBVIOUS
  <2>2. UNCHANGED <<disk, table, writing, build>> /\ buffer' \in [Process -> Seq(Records)]
    BY <1>12, <2>1 DEF DeferFlush, DiscardPending, CacheInv
  <2>. QED  BY <1>6, <2>2 DEF CacheInv
<1>13. ASSUME NEW p \in Process, InstallPrebaked(p) PROVE CacheInv'
  <2>1. Known(Installed(LookupTable(p), disk), disk.spoilt)
    BY TableKnown, InstalledKnown DEF CacheInv
  <2>2. DOMAIN table' = Process /\ \A q \in Process : table'[q] = NotLoaded \/ Known(table'[q][1], disk.spoilt)
    BY <1>7, <1>13, <2>1 DEF InstallPrebaked
  <2>. QED  BY <1>6, <1>13, <2>2 DEF InstallPrebaked, CacheInv
<1>14. CASE UNCHANGED vars
  BY <1>6, <1>14 DEF vars, CacheInv
<1>. QED
  BY <1>8, <1>9, <1>10, <1>11, <1>12, <1>13, <1>14 DEF Next

(* At first there is nothing to know.                                      *)
LEMMA CacheStart == Init => CacheInv
<1> SUFFICES ASSUME Init PROVE CacheInv
  OBVIOUS
<1>1. <<>> \in Seq(Records) /\ \A S : <<>> \in Seq(S)
  OBVIOUS
<1>2. IsFile(disk)
  BY <1>1 DEF Init, EmptyFile, IsFile
<1>. QED  BY <1>1, <1>2 DEF Init, CacheInv

(* The inductive invariant: a record that a process reads is what a solver *)
(* call made of it, or its signature is that of a record whose write ended *)
(* early and that something was written behind, or no build may use it.    *)
THEOREM RecordsAreReal == Spec => []CacheInv
BY CacheStart, CacheNext, PTL DEF Spec

(* So a write that ends early, in whatever order processes of whatever     *)
(* builds write before and after it, does no harm to another signature,    *)
(* nor to its own before something follows it: what a process may use of   *)
(* the others is what a solver call made (parse_records, flush).           *)
THEOREM TableIsLearnt == Spec => []KnowsWhatWasLearnt
<1>1. CacheInv => KnowsWhatWasLearnt
  <2> SUFFICES ASSUME CacheInv, NEW p \in Process, table[p] # NotLoaded,
                      NEW s \in DOMAIN table[p][1] \ disk.spoilt, table[p][1][s].version \in Versions
               PROVE  \E z \in Zones, b \in Budgets :
                        canon[z].sig = s /\ table[p][1][s] \in Outcomes(table[p][1][s].version, z, b)
    BY DEF KnowsWhatWasLearnt
  <2> DEFINE e == table[p][1][s]
  <2>1. Learnt(s, e) \/ Harmed(s, e, disk.spoilt)
    BY DEF CacheInv, Known, Readable
  <2>2. e.version # Garbled
    BY ZoneCacheAssumption DEF Garbled
  <2>3. Learnt(s, e)
    BY <2>1, <2>2 DEF Harmed
  <2> HIDE DEF e
  <2>4. PICK v \in Versions, z \in Zones, b \in Budgets : canon[z].sig = s /\ e \in Outcomes(v, z, b)
    BY <2>3 DEF Learnt
  <2>5. e.version = v
    BY <2>4 DEF Outcomes
  <2>. QED  BY <2>4, <2>5 DEF e
<1>. QED  BY <1>1, RecordsAreReal, PTL

-----------------------------------------------------------------------------
\* canon is what Init computed: a shared name is a shared signature, and a
\* replay is that of the solution in its own place.
CanonIsComputed ==
  /\ \A y, z \in Zones : canon[y].sig = canon[z].sig => SameSignature(y, z)
  /\ \A y, z \in Zones : SameSignature(y, z) =>
       \A f \in FoundIn(y) : canon[z].replay[f] = InZone(z, Shapes, Forms, f)
  /\ \A z \in Zones : canon[z].replay[Remnant] = "wrong"

(* Init names a signature after the least zone that has it.                *)
LEMMA CanonStart == Init => CanonIsComputed
<1> SUFFICES ASSUME Init PROVE CanonIsComputed
  OBVIOUS
<1> DEFINE Like(z) == {y \in Zones : Forms[y].signature = Forms[z].signature}
           Kept(z) == UNION {FoundIn(y) : y \in Like(z)}
<1>1. canon = [z \in Zones |-> Computed(z, Shapes, Forms)]
  BY DEF Init
<1>2. \A z \in Zones : canon[z].sig = Min(Like(z))
  BY <1>1 DEF Computed
<1>3. \A z \in Zones : Min(Like(z)) \in Like(z)
  <2> SUFFICES ASSUME NEW z \in Zones PROVE Min(Like(z)) \in Like(z)
    OBVIOUS
  <2>1. z \in Like(z) /\ Like(z) \subseteq Nat
    BY ZoneCacheAssumption
  <2> HIDE DEF Like
  <2>. QED  BY <2>1, Least
<1>4. \A y, z \in Zones : canon[y].sig = canon[z].sig => SameSignature(y, z)
  <2> SUFFICES ASSUME NEW y \in Zones, NEW z \in Zones, canon[y].sig = canon[z].sig
               PROVE  SameSignature(y, z)
    OBVIOUS
  <2>1. Min(Like(y)) = Min(Like(z))
    BY <1>2
  <2>2. Min(Like(y)) \in Like(y) /\ Min(Like(y)) \in Like(z)
    BY <1>3, <2>1
  <2>. QED  BY <2>2 DEF SameSignature
<1>5. ASSUME NEW z \in Zones
      PROVE  canon[z].replay = [f \in {Remnant} \cup Kept(z) |->
                                  IF f = Remnant THEN "wrong" ELSE InZone(z, Shapes, Forms, f)]
  BY <1>1 DEF Computed
<1>6. \A y, z \in Zones : SameSignature(y, z) => FoundIn(y) \subseteq Kept(z)
  BY DEF SameSignature
<1> HIDE DEF Kept
<1>7. \A y \in Zones : Remnant \notin FoundIn(y)
  <2> SUFFICES ASSUME NEW y \in Zones, Remnant \in FoundIn(y) PROVE FALSE
    OBVIOUS
  <2>1. Remnant[2] \in 1 .. Len(Answers[y])
    BY DEF FoundIn
  <2>2. Remnant[2] = 0
    BY DEF Remnant
  <2>. QED  BY <2>1, <2>2
<1>8. \A y, z \in Zones : SameSignature(y, z) =>
        \A f \in FoundIn(y) : canon[z].replay[f] = InZone(z, Shapes, Forms, f)
  BY <1>5, <1>6, <1>7
<1>9. \A z \in Zones : canon[z].replay[Remnant] = "wrong"
  BY <1>5
<1>. QED  BY <1>4, <1>8, <1>9 DEF CanonIsComputed

(* No step changes what was computed of the zones.                         *)
LEMMA CanonNext == CanonIsComputed /\ [Next]_vars => CanonIsComputed'
BY DEF Next, vars, AnswerFromCache, SolveAfresh, Restart, Flush, WriteRecord, DeferFlush,
       DiscardPending, InstallPrebaked, CanonIsComputed

(* Both hold in every state.                                               *)
LEMMA ZoneFacts == Spec => [](CacheInv /\ CanonIsComputed)
BY CacheStart, CacheNext, CanonStart, CanonNext, PTL DEF Spec

\* What is used for z was learnt, by the running build, of a zone like z, or
\* its signature is spoilt.
LEMMA UsedIsLearnt ==
  ASSUME CacheInv, CanonIsComputed, NEW p \in Process, NEW z \in Zones, Usable(p, z)
  PROVE  \/ \E y \in Zones, b \in Budgets :
              /\ SameSignature(y, z) /\ build[p] \in Versions
              /\ Entry(p, z) \in Outcomes(build[p], y, b)
         \/ /\ canon[z].sig \in disk.spoilt
            /\ Entry(p, z).outcome = "Solved" => Entry(p, z).found = Remnant
<1> DEFINE e == Entry(p, z)
<1>1. /\ Learnt(canon[z].sig, e) \/ Harmed(canon[z].sig, e, disk.spoilt)
      /\ e.version = build[p] /\ build[p] \in Versions
  BY TableKnown DEF Usable, Entry, Known, Readable, CacheInv
<1>2. e.version # Garbled
  BY <1>1, ZoneCacheAssumption DEF Garbled
<1> HIDE DEF e
<1>3. CASE Harmed(canon[z].sig, e, disk.spoilt)
  BY <1>2, <1>3 DEF Harmed, e
<1>4. CASE Learnt(canon[z].sig, e)
  <2>1. PICK v \in Versions, y \in Zones, b \in Budgets :
          canon[y].sig = canon[z].sig /\ e \in Outcomes(v, y, b)
    BY <1>4 DEF Learnt
  <2>2. e.version = v
    BY <2>1 DEF Outcomes
  <2>. QED  BY <1>1, <2>1, <2>2 DEF CanonIsComputed, e
<1>. QED  BY <1>1, <1>3, <1>4

-----------------------------------------------------------------------------
\* The symmetry o followed by the symmetry p, and the sides of a zone after o.
After(o, p) ==
  [rotation |-> ((IF p.reflect THEN 4 - o.rotation ELSE o.rotation) + p.rotation) % 4,
   reflect |-> o.reflect # p.reflect]
Width(w, h, o) == IF o.rotation % 2 = 0 THEN w ELSE h
Height(w, h, o) == IF o.rotation % 2 = 0 THEN h ELSE w

(* The eight orientations.                                                 *)
LEMMA EightOrientations ==
  ASSUME NEW o \in Orientations
  PROVE  /\ o.rotation \in {0, 1, 2, 3} /\ o.reflect \in BOOLEAN
         /\ o.rotation % 2 = 0 <=> o.rotation \in {0, 2}
BY DEF Orientations

(* How far the two turns of After go together: a mirror turns the first    *)
(* one back.                                                               *)
LEMMA Followed ==
  ASSUME NEW o \in Orientations, NEW p \in Orientations
  PROVE  /\ After(o, p) \in Orientations
         /\ After(o, p).reflect <=> ~(o.reflect <=> p.reflect)
         /\ ~p.reflect => After(o, p).rotation =
              IF o.rotation + p.rotation < 4 THEN o.rotation + p.rotation ELSE o.rotation + p.rotation - 4
         /\ p.reflect => After(o, p).rotation =
              IF p.rotation < o.rotation THEN 4 + p.rotation - o.rotation ELSE p.rotation - o.rotation
<1>1. After(o, p).rotation \in 0..3 /\ After(o, p).reflect \in BOOLEAN
  BY EightOrientations DEF After
<1>2. After(o, p) \in Orientations
  BY <1>1 DEF After, Orientations
<1>3. After(o, p).reflect <=> ~(o.reflect <=> p.reflect)
  BY EightOrientations DEF After
<1>4. /\ ~p.reflect => After(o, p).rotation =
              IF o.rotation + p.rotation < 4 THEN o.rotation + p.rotation ELSE o.rotation + p.rotation - 4
      /\ p.reflect => After(o, p).rotation =
              IF p.rotation < o.rotation THEN 4 + p.rotation - o.rotation ELSE p.rotation - o.rotation
  BY EightOrientations DEF After
<1>. QED  BY <1>2, <1>3, <1>4

(* Truth values that are equivalent are equal.                             *)
LEMMA SameTruth ==
  ASSUME NEW x \in BOOLEAN, NEW y \in BOOLEAN, x <=> y
  PROVE  x = y
OBVIOUS

(* Any orientation is reached from any other.                              *)
LEMMA Reached ==
  ASSUME NEW o \in Orientations, NEW r \in Orientations
  PROVE  \E p \in Orientations : After(o, p) = r
<1> DEFINE a == o.rotation
           c == r.rotation
           same == o.reflect = r.reflect
           back == IF same THEN (IF c < a THEN c + 4 - a ELSE c - a)
                   ELSE (IF c + a < 4 THEN c + a ELSE c + a - 4)
           p == [rotation |-> back, reflect |-> o.reflect # r.reflect]
<1>1. a \in 0..3 /\ c \in 0..3 /\ o.reflect \in BOOLEAN /\ r.reflect \in BOOLEAN
  BY EightOrientations
<1>2. p \in Orientations
  <2>1. back \in 0..3
    BY <1>1
  <2> HIDE DEF back
  <2>. QED  BY <2>1 DEF Orientations
<1>3. p.rotation = back /\ (p.reflect <=> ~(o.reflect <=> r.reflect)) /\ (same <=> (o.reflect <=> r.reflect))
  BY <1>1
<1> HIDE DEF p, same
<1>4. After(o, p) \in Orientations /\ (After(o, p).reflect <=> r.reflect)
  BY <1>1, <1>2, <1>3, Followed
<1>5. After(o, p).rotation = r.rotation
  <2>1. CASE same
    <3>1. ~p.reflect
      BY <1>3, <2>1
    <3>2. After(o, p).rotation = IF a + p.rotation < 4 THEN a + p.rotation ELSE a + p.rotation - 4
      BY <1>2, <3>1, Followed
    <3>. QED  BY <1>1, <1>3, <2>1, <3>2
  <2>2. CASE ~same
    <3>1. p.reflect
      BY <1>3, <2>2
    <3>2. After(o, p).rotation = IF p.rotation < a THEN 4 + p.rotation - a ELSE p.rotation - a
      BY <1>2, <3>1, Followed
    <3>. QED  BY <1>1, <1>3, <2>2, <3>2
  <2>. QED  BY <2>1, <2>2
<1>6. After(o, p).reflect = r.reflect
  <2>1. After(o, p).reflect \in BOOLEAN
    BY <1>4 DEF Orientations
  <2> DEFINE x == After(o, p).reflect
             y == r.reflect
  <2>2. x \in BOOLEAN /\ y \in BOOLEAN
    BY <1>1, <2>1
  <2>3. x <=> y
    BY <1>4
  <2> HIDE DEF x, y
  <2>4. x = y
    BY <2>2, <2>3, SameTruth
  <2>. QED  BY <2>4 DEF x, y
<1>7. After(o, p) = r
  BY <1>4, <1>5, <1>6 DEF Orientations
<1>. QED  BY <1>2, <1>7

(* Two symmetries after one another move a tile as After says              *)
(* (transform_tile).                                                       *)
LEMMA TileTwice ==
  ASSUME NEW o \in Orientations, NEW p \in Orientations, NEW w \in Int, NEW h \in Int, NEW t \in Int \X Int
  PROVE  TransformTile(TransformTile(t, w, h, o), Width(w, h, o), Height(w, h, o), p)
           = TransformTile(t, w, h, After(o, p))
<1> DEFINE q == After(o, p)
<1>1. q \in Orientations
  BY Followed
<1>2. PICK x \in Int, y \in Int : t = <<x, y>>
  OBVIOUS
<1> SUFFICES ASSUME NEW a \in 0..3, NEW b \in 0..3, o.rotation = a, p.rotation = b
             PROVE  TransformTile(TransformTile(t, w, h, o), Width(w, h, o), Height(w, h, o), p)
                      = TransformTile(t, w, h, q)
  BY EightOrientations
<1>3. /\ q.reflect <=> ~(o.reflect <=> p.reflect)
      /\ ~p.reflect => q.rotation = IF a + b < 4 THEN a + b ELSE a + b - 4
      /\ p.reflect => q.rotation = IF b < a THEN 4 + b - a ELSE b - a
  BY Followed
<1>4. o.reflect \in BOOLEAN /\ p.reflect \in BOOLEAN
  BY EightOrientations
<1> HIDE DEF q
<1>5. CASE a = 0
  BY <1>2, <1>3, <1>4, <1>5 DEF TransformTile, Turn, Width, Height
<1>6. CASE a = 1
  BY <1>2, <1>3, <1>4, <1>6 DEF TransformTile, Turn, Width, Height
<1>7. CASE a = 2
  BY <1>2, <1>3, <1>4, <1>7 DEF TransformTile, Turn, Width, Height
<1>8. CASE a = 3
  BY <1>2, <1>3, <1>4, <1>8 DEF TransformTile, Turn, Width, Height
<1>. QED  BY <1>5, <1>6, <1>7, <1>8

Seen == [edge : 0..3, offset : Int]

\* s is where edge e and offset k are seen after the symmetry o.
IsSeen(s, e, k, w, h, o) ==
  LET even == e \in {0, 2}
      m == IF o.reflect /\ ~even THEN 4 - e ELSE e
      j == IF o.reflect /\ even THEN w - 1 - k ELSE k
      far == IF even THEN w - 1 - j ELSE h - 1 - j
  IN  /\ s = [edge |-> s.edge, offset |-> s.offset]
      /\ s.edge = IF m + o.rotation < 4 THEN m + o.rotation ELSE m + o.rotation - 4
      /\ o.rotation = 0 => s.offset = j
      /\ o.rotation = 1 => s.offset = IF even THEN j ELSE far
      /\ o.rotation = 2 => s.offset = far
      /\ o.rotation = 3 => s.offset = IF even THEN far ELSE j

(* transform_port, written out for each orientation.                       *)
LEMMA PortSeen ==
  ASSUME NEW o \in Orientations, NEW w \in Int, NEW h \in Int, NEW e \in 0..3, NEW k \in Int,
         NEW v, v = [edge |-> e, offset |-> k]
  PROVE  IsSeen(TransformPort(v, w, h, o), e, k, w, h, o)
<1> DEFINE even == e \in {0, 2}
           m == IF o.reflect /\ ~even THEN 4 - e ELSE e
           j == IF o.reflect /\ even THEN w - 1 - k ELSE k
           mirrored == IF ~o.reflect THEN v
                       ELSE IF v.edge % 2 = 1 THEN [v EXCEPT !.edge = Mirrored(@)]
                       ELSE [v EXCEPT !.offset = w - 1 - @]
           turn(u, height) == [edge |-> (u.edge + 1) % 4,
                               offset |-> IF u.edge % 2 = 0 THEN u.offset ELSE height - 1 - u.offset]
           next(i) == IF i = 3 THEN 0 ELSE i + 1
<1>1. mirrored = [edge |-> m, offset |-> j]
  BY DEF Mirrored
<1>2. \A u, height : turn(u, height) = [edge |-> (u.edge + 1) % 4,
                               offset |-> IF u.edge % 2 = 0 THEN u.offset ELSE height - 1 - u.offset]
  OBVIOUS
<1>3. TransformPort(v, w, h, o) =
        << mirrored, turn(mirrored, h), turn(turn(mirrored, h), w),
           turn(turn(turn(mirrored, h), w), h) >>[o.rotation + 1]
  BY DEF TransformPort
<1>4. m \in 0..3 /\ (even <=> m \in {0, 2}) /\ j \in Int
  OBVIOUS
<1>5. \A i \in 0..3 : (i % 2 = 0 <=> i \in {0, 2}) /\ (i + 1) % 4 = next(i) /\ next(i) \in 0..3
  OBVIOUS
<1> HIDE DEF mirrored, turn, m, j, even
<1>6. turn(mirrored, h) = [edge |-> next(m), offset |-> IF even THEN j ELSE h - 1 - j]
  BY <1>1, <1>2, <1>4, <1>5
<1>7. turn(turn(mirrored, h), w) = [edge |-> next(next(m)), offset |-> IF even THEN w - 1 - j ELSE h - 1 - j]
  BY <1>6, <1>2, <1>4
<1>8. turn(turn(turn(mirrored, h), w), h) = [edge |-> next(next(next(m))), offset |-> IF even THEN w - 1 - j ELSE j]
  BY <1>7, <1>2, <1>4
<1>9. o.rotation \in {0, 1, 2, 3}
  BY EightOrientations
<1>10. CASE o.rotation = 0
  BY <1>1, <1>3, <1>4, <1>10 DEF m, j, even, IsSeen
<1>11. CASE o.rotation = 1
  BY <1>6, <1>3, <1>4, <1>11 DEF m, j, even, IsSeen
<1>12. CASE o.rotation = 2
  BY <1>7, <1>3, <1>4, <1>12 DEF m, j, even, IsSeen
<1>13. CASE o.rotation = 3
  BY <1>8, <1>3, <1>4, <1>13 DEF m, j, even, IsSeen
<1>. QED  BY <1>9, <1>10, <1>11, <1>12, <1>13

(* Two symmetries after one another move a port of the signature as After  *)
(* says (transform_port).                                                  *)
LEMMA PortTwice ==
  ASSUME NEW o \in Orientations, NEW p \in Orientations, NEW w \in Int, NEW h \in Int,
         NEW v \in [edge : 0..3, offset : Int]
  PROVE  TransformPort(TransformPort(v, w, h, o), Width(w, h, o), Height(w, h, o), p)
           = TransformPort(v, w, h, After(o, p))
<1> DEFINE q == After(o, p)
           s == TransformPort(v, w, h, o)
           t == TransformPort(s, Width(w, h, o), Height(w, h, o), p)
           u == TransformPort(v, w, h, q)
<1>1. q \in Orientations
  BY Followed
<1>2. PICK e \in 0..3, k \in Int : v = [edge |-> e, offset |-> k]
  OBVIOUS
<1> SUFFICES ASSUME NEW a \in 0..3, NEW b \in 0..3, o.rotation = a, p.rotation = b
             PROVE  t = u
  BY EightOrientations
<1>3. /\ q.reflect <=> ~(o.reflect <=> p.reflect)
      /\ ~p.reflect => q.rotation = IF a + b < 4 THEN a + b ELSE a + b - 4
      /\ p.reflect => q.rotation = IF b < a THEN 4 + b - a ELSE b - a
  BY Followed
<1>4. o.reflect \in BOOLEAN /\ p.reflect \in BOOLEAN
  BY EightOrientations
<1>5. Width(w, h, o) \in Int /\ Height(w, h, o) \in Int
  BY DEF Width, Height
<1>6. IsSeen(s, e, k, w, h, o)
  BY <1>2, PortSeen
<1>7. s = [edge |-> s.edge, offset |-> s.offset] /\ s.edge \in 0..3 /\ s.offset \in Int
  BY <1>2, <1>4, <1>6 DEF IsSeen
<1>8. IsSeen(t, s.edge, s.offset, Width(w, h, o), Height(w, h, o), p)
  <2> HIDE DEF s
  <2>. QED  BY <1>5, <1>7, PortSeen
<1>9. IsSeen(u, e, k, w, h, q)
  BY <1>1, <1>2, PortSeen
<1> HIDE DEF s, t, u, q
<1>10. t = [edge |-> t.edge, offset |-> t.offset] /\ u = [edge |-> u.edge, offset |-> u.offset]
  BY <1>8, <1>9 DEF IsSeen
<1>11. ASSUME NEW d \in 0..3, e = d PROVE t.edge = u.edge /\ t.offset = u.offset
  <2>1. CASE a = 0
    BY <2>1, <1>3, <1>4, <1>6, <1>7, <1>8, <1>9, <1>11 DEF IsSeen, Width, Height
  <2>2. CASE a = 1
    BY <2>2, <1>3, <1>4, <1>6, <1>7, <1>8, <1>9, <1>11 DEF IsSeen, Width, Height
  <2>3. CASE a = 2
    BY <2>3, <1>3, <1>4, <1>6, <1>7, <1>8, <1>9, <1>11 DEF IsSeen, Width, Height
  <2>4. CASE a = 3
    BY <2>4, <1>3, <1>4, <1>6, <1>7, <1>8, <1>9, <1>11 DEF IsSeen, Width, Height
  <2>. QED  BY <2>1, <2>2, <2>3, <2>4
<1>. QED  BY <1>10, <1>11

-----------------------------------------------------------------------------
(* Directions turn with the zone, one to one.                              *)
LEMMA DirectionsTurn ==
  ASSUME NEW o \in Orientations
  PROVE  /\ \A d \in 0..3 : TransformDirection(d, o) \in 0..3
         /\ \A d, e \in 0..3 : TransformDirection(d, o) = TransformDirection(e, o) => d = e
         /\ \A e \in 0..3 : \E d \in 0..3 : TransformDirection(d, o) = e
         /\ \A d \in 0..3 :
              LET m == IF o.reflect /\ d \in {1, 3} THEN 4 - d ELSE d
              IN  TransformDirection(d, o) = IF m + o.rotation < 4 THEN m + o.rotation ELSE m + o.rotation - 4
<1> DEFINE T(d) == LET m == IF o.reflect /\ d \in {1, 3} THEN 4 - d ELSE d
                   IN  IF m + o.rotation < 4 THEN m + o.rotation ELSE m + o.rotation - 4
<1>1. o.rotation \in 0..3 /\ o.reflect \in BOOLEAN
  BY EightOrientations
<1>2. ASSUME NEW d \in 0..3 PROVE TransformDirection(d, o) = T(d)
  BY <1>1 DEF TransformDirection, Mirrored
<1>3. \A d \in 0..3 : T(d) \in 0..3
  BY <1>1
<1>4. \A d, e \in 0..3 : T(d) = T(e) => d = e
  BY <1>1
<1>5. ASSUME NEW e \in 0..3 PROVE \E d \in 0..3 : T(d) = e
  <2> DEFINE m == IF e < o.rotation THEN e + 4 - o.rotation ELSE e - o.rotation
             d == IF o.reflect /\ m \in {1, 3} THEN 4 - m ELSE m
  <2>1. d \in 0..3 /\ T(d) = e
    BY <1>1
  <2>. QED  BY <2>1
<1>. QED  BY <1>2, <1>3, <1>4, <1>5

(* So do the edges of the zone that a tile lies on.                        *)
LEMMA EdgesTurn ==
  ASSUME NEW a, NEW b, NEW o \in Orientations, NEW t \in Int \X Int, NEW e \in 0..3,
         a.w \in Int, a.h \in Int, b.w = Width(a.w, a.h, o), b.h = Height(a.w, a.h, o)
  PROVE  TransformDirection(e, o) \in Edges(b, TransformTile(t, a.w, a.h, o)) <=> e \in Edges(a, t)
<1>1. PICK x \in Int, y \in Int : t = <<x, y>>
  OBVIOUS
<1> DEFINE m == IF o.reflect /\ e \in {1, 3} THEN 4 - e ELSE e
           d == TransformDirection(e, o)
<1>2. d = IF m + o.rotation < 4 THEN m + o.rotation ELSE m + o.rotation - 4
  BY DirectionsTurn
<1>3. o.rotation \in {0, 1, 2, 3} /\ o.reflect \in BOOLEAN
  BY EightOrientations
<1> HIDE DEF d
<1>4. CASE o.rotation = 0
  BY <1>1, <1>2, <1>3, <1>4 DEF Edges, TransformTile, Turn, Width, Height, d
<1>5. CASE o.rotation = 1
  BY <1>1, <1>2, <1>3, <1>5 DEF Edges, TransformTile, Turn, Width, Height, d
<1>6. CASE o.rotation = 2
  BY <1>1, <1>2, <1>3, <1>6 DEF Edges, TransformTile, Turn, Width, Height, d
<1>7. CASE o.rotation = 3
  BY <1>1, <1>2, <1>3, <1>7 DEF Edges, TransformTile, Turn, Width, Height, d
<1>. QED  BY <1>3, <1>4, <1>5, <1>6, <1>7

(* A single edge is found in the image of the zone just when it is in the  *)
(* zone.                                                                   *)
LEMMA OneEdge ==
  ASSUME NEW a, NEW b, NEW o \in Orientations, NEW t \in Int \X Int,
         a.w \in Int, a.h \in Int, b.w = Width(a.w, a.h, o), b.h = Height(a.w, a.h, o)
  PROVE  \/ \E e \in 0..3 : /\ Edges(a, t) = {e}
                            /\ Edges(b, TransformTile(t, a.w, a.h, o)) = {TransformDirection(e, o)}
         \/ /\ Cardinality(Edges(a, t)) # 1
            /\ Cardinality(Edges(b, TransformTile(t, a.w, a.h, o))) # 1
<1> DEFINE T(e) == TransformDirection(e, o)
           on == Edges(a, t)
           onImage == Edges(b, TransformTile(t, a.w, a.h, o))
<1>1. /\ \A d \in 0..3 : T(d) \in 0..3
      /\ \A d, e \in 0..3 : T(d) = T(e) => d = e
      /\ \A e \in 0..3 : \E d \in 0..3 : T(d) = e
  BY DirectionsTurn
<1>2. \A e \in 0..3 : T(e) \in onImage <=> e \in on
  BY <1>1, EdgesTurn
<1>3. on \subseteq 0..3 /\ onImage \subseteq 0..3
  BY DEF Edges
<1>4. IsFiniteSet(on) /\ IsFiniteSet(onImage)
  <2>1. 0 \in Int /\ 3 \in Int
    OBVIOUS
  <2>2. IsFiniteSet(0..3)
    BY <2>1, FS_Interval
  <2> HIDE DEF on, onImage
  <2>. QED  BY <1>3, <2>2, FS_Subset
<1> HIDE DEF on, onImage, T
<1>5. /\ Cardinality(on) = 1 <=> \E e : on = {e}
      /\ Cardinality(onImage) = 1 <=> \E e : onImage = {e}
  BY <1>4, FS_Singleton
<1>6. ASSUME NEW e, on = {e} PROVE e \in 0..3 /\ onImage = {T(e)}
  <2>1. e \in 0..3 /\ T(e) \in onImage
    BY <1>2, <1>3, <1>6
  <2>2. ASSUME NEW c \in onImage PROVE c = T(e)
    <3>1. PICK d \in 0..3 : T(d) = c
      BY <1>1, <1>3
    <3>2. d \in on
      BY <1>2, <3>1
    <3>. QED  BY <1>6, <3>1, <3>2
  <2>. QED  BY <2>1, <2>2
<1>7. ASSUME NEW e, onImage = {e} PROVE \E d : on = {d}
  <2>1. PICK d \in 0..3 : T(d) = e
    BY <1>1, <1>3, <1>7
  <2>2. d \in on
    BY <1>2, <1>7, <2>1
  <2>3. \A c \in on : T(c) = e
    BY <1>2, <1>3, <1>7
  <2>4. \A c \in on : c = d
    BY <1>1, <1>3, <2>1, <2>3
  <2>5. on = {d}
    BY <2>2, <2>4
  <2>. QED  BY <2>5
<1>8. \/ \E e \in 0..3 : on = {e} /\ onImage = {T(e)}
      \/ Cardinality(on) # 1 /\ Cardinality(onImage) # 1
  <2>1. CASE Cardinality(on) = 1
    <3>1. PICK e : on = {e}
      BY <1>5, <2>1
    <3>. QED  BY <1>6, <3>1
  <2>2. CASE Cardinality(on) # 1
    BY <1>5, <1>7, <2>2
  <2>. QED  BY <2>1, <2>2
<1>. QED  BY <1>8 DEF on, onImage, T

(* A port is seen in the image of its zone where the symmetry takes it.    *)
LEMMA PortMoves ==
  ASSUME NEW a, NEW b, NEW o \in Orientations, NEW p, NEW q,
         a.w \in Int, a.h \in Int, b.w = Width(a.w, a.h, o), b.h = Height(a.w, a.h, o),
         p.tile \in Int \X Int, p.dir \in 0..3,
         q.tile = TransformTile(p.tile, a.w, a.h, o), q.dir = TransformDirection(p.dir, o)
  PROVE  /\ EdgeAndOffset(a, p) \in [edge : 0..3, offset : Int]
         /\ EdgeAndOffset(b, q) = TransformPort(EdgeAndOffset(a, p), a.w, a.h, o)
<1> DEFINE on == Edges(a, p.tile)
           onImage == Edges(b, q.tile)
           edge == IF Cardinality(on) = 1 THEN CHOOSE e \in on : TRUE ELSE p.dir
           edgeImage == IF Cardinality(onImage) = 1 THEN CHOOSE e \in onImage : TRUE ELSE q.dir
<1>1. edge \in 0..3 /\ edgeImage = TransformDirection(edge, o)
  <2>1. \/ \E e \in 0..3 : on = {e} /\ onImage = {TransformDirection(e, o)}
        \/ Cardinality(on) # 1 /\ Cardinality(onImage) # 1
    <3> DEFINE t == p.tile
    <3> HIDE DEF t
    <3>1. t \in Int \X Int
      BY DEF t
    <3>2. \/ \E e \in 0..3 : /\ Edges(a, t) = {e}
                             /\ Edges(b, TransformTile(t, a.w, a.h, o)) = {TransformDirection(e, o)}
          \/ /\ Cardinality(Edges(a, t)) # 1
             /\ Cardinality(Edges(b, TransformTile(t, a.w, a.h, o))) # 1
      BY <3>1, OneEdge
    <3>. QED  BY <3>2 DEF t
  <2> HIDE DEF on, onImage
  <2>2. ASSUME NEW e \in 0..3, on = {e}, onImage = {TransformDirection(e, o)}
        PROVE  edge \in 0..3 /\ edgeImage = TransformDirection(edge, o)
    <3>1. Cardinality(on) = 1 /\ Cardinality(onImage) = 1
      BY <2>2, FS_Singleton
    <3>. QED  BY <2>2, <3>1
  <2>. QED  BY <2>1, <2>2
<1>2. /\ EdgeAndOffset(a, p) = [edge |-> edge, offset |-> IF edge % 2 = 0 THEN p.tile[1] ELSE p.tile[2]]
      /\ EdgeAndOffset(b, q) = [edge |-> edgeImage, offset |-> IF edgeImage % 2 = 0 THEN q.tile[1] ELSE q.tile[2]]
  BY DEF EdgeAndOffset
<1> HIDE DEF on, onImage, edge, edgeImage
<1>3. PICK x \in Int, y \in Int : p.tile = <<x, y>>
  OBVIOUS
<1> DEFINE k == IF edge \in {0, 2} THEN x ELSE y
           s == TransformPort(EdgeAndOffset(a, p), a.w, a.h, o)
<1>4. EdgeAndOffset(a, p) = [edge |-> edge, offset |-> k] /\ k \in Int
  BY <1>1, <1>2, <1>3
<1>5. IsSeen(s, edge, k, a.w, a.h, o)
  BY <1>1, <1>4, PortSeen
<1>6. o.rotation \in {0, 1, 2, 3} /\ o.reflect \in BOOLEAN
  BY EightOrientations
<1>7. LET m == IF o.reflect /\ edge \in {1, 3} THEN 4 - edge ELSE edge
      IN  edgeImage = IF m + o.rotation < 4 THEN m + o.rotation ELSE m + o.rotation - 4
  BY <1>1, DirectionsTurn
<1>8. edgeImage \in 0..3 /\ (edgeImage % 2 = 0 <=> edgeImage \in {0, 2})
  BY <1>1, DirectionsTurn
<1> HIDE DEF s
<1>9. s = [edge |-> s.edge, offset |-> s.offset] /\ s.edge = edgeImage
  BY <1>1, <1>5, <1>6, <1>7 DEF IsSeen
<1>10. q.tile[1] \in Int /\ q.tile[2] \in Int
  BY <1>3, <1>6 DEF TransformTile, Turn
<1>11. s.offset = IF edgeImage \in {0, 2} THEN q.tile[1] ELSE q.tile[2]
  <2>1. CASE o.rotation = 0
    BY <2>1, <1>1, <1>3, <1>5, <1>6, <1>7 DEF IsSeen, TransformTile, Turn
  <2>2. CASE o.rotation = 1
    BY <2>2, <1>1, <1>3, <1>5, <1>6, <1>7 DEF IsSeen, TransformTile, Turn
  <2>3. CASE o.rotation = 2
    BY <2>3, <1>1, <1>3, <1>5, <1>6, <1>7 DEF IsSeen, TransformTile, Turn
  <2>4. CASE o.rotation = 3
    BY <2>4, <1>1, <1>3, <1>5, <1>6, <1>7 DEF IsSeen, TransformTile, Turn
  <2>. QED  BY <1>6, <2>1, <2>2, <2>3, <2>4
<1>12. EdgeAndOffset(b, q) = s
  BY <1>2, <1>8, <1>9, <1>11
<1>. QED  BY <1>1, <1>4, <1>12 DEF s

-----------------------------------------------------------------------------
\* Port p of zone a in the image that o and f make of the zone.
PortImage(p, a, o, f) ==
  [p EXCEPT !.tile = TransformTile(@, a.w, a.h, o), !.dir = TransformDirection(@, o), !.ch = f[@]]

PortType == [tile : Int \X Int, dir : 0..3, ch : Nat, input : BOOLEAN, interior : BOOLEAN]

\* Two tiles are never moved to one.
LEMMA TilesApart ==
  ASSUME NEW o \in Orientations, NEW w \in Int, NEW h \in Int, NEW s \in Int \X Int, NEW t \in Int \X Int,
         TransformTile(s, w, h, o) = TransformTile(t, w, h, o)
  PROVE  s = t
<1>1. PICK x \in Int, y \in Int : s = <<x, y>>
  OBVIOUS
<1>2. PICK u \in Int, v \in Int : t = <<u, v>>
  OBVIOUS
<1>3. o.rotation \in {0, 1, 2, 3} /\ o.reflect \in BOOLEAN
  BY EightOrientations
<1>4. x = u /\ y = v
  BY <1>1, <1>2, <1>3 DEF TransformTile, Turn
<1>. QED  BY <1>1, <1>2, <1>4

(* The ports of an image are those of the zone, one for one.               *)
LEMMA PortsApart ==
  ASSUME NEW a, IsZone(a), NEW o \in Orientations, NEW B, NEW f \in [Channels(a) -> B], IsInjective(f)
  PROVE  /\ \A p \in a.ports :
              LET q == PortImage(p, a, o, f)
              IN  /\ q.tile = TransformTile(p.tile, a.w, a.h, o)
                  /\ q.dir = TransformDirection(p.dir, o)
                  /\ q.ch = f[p.ch] /\ q.input = p.input /\ q.interior = p.interior
         /\ \A p, q \in a.ports : PortImage(p, a, o, f) = PortImage(q, a, o, f) => p = q
<1>1. ASSUME NEW p \in a.ports
      PROVE  LET q == PortImage(p, a, o, f)
             IN  /\ q.tile = TransformTile(p.tile, a.w, a.h, o)
                 /\ q.dir = TransformDirection(p.dir, o)
                 /\ q.ch = f[p.ch] /\ q.input = p.input /\ q.interior = p.interior
  <2>1. p \in PortType
    BY DEF IsZone, PortType
  <2>. QED  BY <2>1 DEF PortImage, PortType
<1>2. ASSUME NEW p \in a.ports, NEW q \in a.ports, PortImage(p, a, o, f) = PortImage(q, a, o, f)
      PROVE  p = q
  <2>1. p \in PortType /\ q \in PortType /\ a.w \in Int /\ a.h \in Int
    BY DEF IsZone, PortType
  <2>2. /\ TransformTile(p.tile, a.w, a.h, o) = TransformTile(q.tile, a.w, a.h, o)
        /\ TransformDirection(p.dir, o) = TransformDirection(q.dir, o)
        /\ f[p.ch] = f[q.ch] /\ p.input = q.input /\ p.interior = q.interior
    BY <1>1, <1>2
  <2>3. p.tile = q.tile
    BY <2>1, <2>2, TilesApart DEF PortType
  <2>4. p.dir = q.dir
    BY <2>1, <2>2, DirectionsTurn DEF PortType
  <2>5. p.ch = q.ch
    <3>1. p.ch \in DOMAIN f /\ q.ch \in DOMAIN f
      BY DEF Channels
    <3>. QED  BY <2>2, <3>1 DEF IsInjective
  <2>. QED  BY <2>1, <2>2, <2>3, <2>4, <2>5 DEF PortType
<1>. QED  BY <1>1, <1>2

\* What MovedBy says, for the lemmas below.
Moves(a, b, o, f) ==
  /\ b.w = Width(a.w, a.h, o) /\ b.h = Height(a.w, a.h, o)
  /\ IsInjective(f)
  /\ \A c \in Channels(a) : a.reach[c] = b.reach[f[c]]
  /\ b.forbidden = {TransformTile(t, a.w, a.h, o) : t \in a.forbidden}
  /\ b.ports = {PortImage(p, a, o, f) : p \in a.ports}

(* A channel has the key, in any orientation, that it has in the image of  *)
(* its zone, when the image is seen in the orientation that remains.       *)
LEMMA KeyMoves ==
  ASSUME NEW a, IsZone(a), NEW b, NEW o \in Orientations, NEW r \in Orientations,
         NEW f \in [Channels(a) -> Channels(b)], Moves(a, b, o, f), NEW c \in Channels(a)
  PROVE  ChannelKey(b, f[c], r) = ChannelKey(a, c, After(o, r))
<1> DEFINE M(p) == PortImage(p, a, o, f)
           inA(p) == TransformPort(EdgeAndOffset(a, p), a.w, a.h, After(o, r))
           inB(p) == TransformPort(EdgeAndOffset(b, p), b.w, b.h, r)
           endsA(in) == {p \in a.ports : p.ch = c /\ p.input = in}
           endsB(in) == {p \in b.ports : p.ch = f[c] /\ p.input = in}
           alikeA(in, p) == {q \in endsA(in) : inA(q) = inA(p)}
           alikeB(in, p) == {q \in endsB(in) : inB(q) = inB(p)}
           bagA(in) == {<<inA(p), Cardinality(alikeA(in, p))>> : p \in endsA(in)}
           bagB(in) == {<<inB(p), Cardinality(alikeB(in, p))>> : p \in endsB(in)}
<1>1. /\ \A p \in a.ports : /\ M(p).tile = TransformTile(p.tile, a.w, a.h, o)
                            /\ M(p).dir = TransformDirection(p.dir, o)
                            /\ M(p).ch = f[p.ch] /\ M(p).input = p.input
      /\ \A p, q \in a.ports : M(p) = M(q) => p = q
  BY PortsApart DEF Moves
<1>2. b.ports = {M(p) : p \in a.ports}
  BY DEF Moves
<1>3. ASSUME NEW p \in a.ports PROVE inB(M(p)) = inA(p)
  <2>1. a.w \in Int /\ a.h \in Int /\ p.tile \in Int \X Int /\ p.dir \in 0..3
    BY DEF IsZone
  <2>2. b.w = Width(a.w, a.h, o) /\ b.h = Height(a.w, a.h, o)
    BY DEF Moves
  <2>3. M(p).tile = TransformTile(p.tile, a.w, a.h, o) /\ M(p).dir = TransformDirection(p.dir, o)
    BY <1>1
  <2> HIDE DEF M
  <2>4. /\ EdgeAndOffset(a, p) \in [edge : 0..3, offset : Int]
        /\ EdgeAndOffset(b, M(p)) = TransformPort(EdgeAndOffset(a, p), a.w, a.h, o)
    BY <2>1, <2>2, <2>3, PortMoves
  <2>5. TransformPort(TransformPort(EdgeAndOffset(a, p), a.w, a.h, o), Width(a.w, a.h, o), Height(a.w, a.h, o), r)
          = inA(p)
    BY <2>1, <2>4, PortTwice
  <2>. QED  BY <2>2, <2>4, <2>5
<1>4. ASSUME NEW p \in a.ports PROVE p.ch = c <=> M(p).ch = f[c]
  <2>1. p.ch \in DOMAIN f /\ c \in DOMAIN f
    BY DEF Channels
  <2>. QED  BY <1>1, <2>1 DEF Moves, IsInjective
<1>5. ASSUME NEW in PROVE endsB(in) = {M(p) : p \in endsA(in)} /\ endsA(in) \subseteq a.ports
  <2> HIDE DEF M
  <2>. QED  BY <1>1, <1>2, <1>4
<1>6. IsFiniteSet(a.ports)
  BY DEF IsZone
<1> HIDE DEF M, inA, inB, endsA, endsB
<1>7. ASSUME NEW in, NEW p \in endsA(in)
      PROVE  Cardinality(alikeB(in, M(p))) = Cardinality(alikeA(in, p))
  <2> DEFINE A == alikeA(in, p)
             B == alikeB(in, M(p))
             m == [q \in A |-> M(q)]
  <2>1. A \subseteq a.ports /\ \A q \in A : q \in endsA(in) /\ inA(q) = inA(p)
    BY <1>5
  <2>2. \A q \in A : M(q) \in B
    BY <1>3, <1>5, <2>1
  <2>3. \A q \in B : \E s \in A : M(s) = q
    BY <1>3, <1>5, <2>1
  <2>4. IsFiniteSet(A)
    <3> HIDE DEF A
    <3>. QED  BY <1>6, <2>1, FS_Subset
  <2> HIDE DEF A, B
  <2>5. m \in [A -> B] /\ DOMAIN m = A
    BY <2>2
  <2>6. \A s, t \in A : m[s] = m[t] => s = t
    BY <1>1, <2>1
  <2>7. \A t \in B : \E s \in A : m[s] = t
    BY <2>3
  <2> HIDE DEF m
  <2>8. m \in Bijection(A, B)
    BY <2>5, <2>6, <2>7 DEF Bijection, Injection, Surjection, IsInjective
  <2>9. ExistsBijection(A, B)
    BY <2>8 DEF ExistsBijection
  <2>10. Cardinality(B) = Cardinality(A)
    BY <2>4, <2>9, FS_Bijection
  <2>. QED  BY <2>10 DEF A, B
<1>8. ASSUME NEW in PROVE bagB(in) = bagA(in)
  <2> HIDE DEF alikeA, alikeB
  <2>1. ASSUME NEW p \in endsA(in)
        PROVE  <<inB(M(p)), Cardinality(alikeB(in, M(p)))>> = <<inA(p), Cardinality(alikeA(in, p))>>
    BY <1>3, <1>5, <1>7
  <2>2. \A x \in bagA(in) : x \in bagB(in)
    BY <1>5, <2>1
  <2>3. \A x \in bagB(in) : x \in bagA(in)
    BY <1>5, <2>1
  <2>. QED  BY <2>2, <2>3
<1> HIDE DEF bagA, bagB
<1>9. ChannelKey(b, f[c], r) = [ins |-> bagB(TRUE), outs |-> bagB(FALSE), reach |-> b.reach[f[c]]]
  BY DEF ChannelKey, bagB, alikeB, inB, endsB
<1>10. ChannelKey(a, c, After(o, r)) = [ins |-> bagA(TRUE), outs |-> bagA(FALSE), reach |-> a.reach[c]]
  BY DEF ChannelKey, bagA, alikeA, inA, endsA
<1>11. a.reach[c] = b.reach[f[c]]
  BY DEF Moves
<1>. QED  BY <1>8, <1>9, <1>10, <1>11

-----------------------------------------------------------------------------
(* Counting up to each of them numbers the members of a finite set.        *)
LEMMA CountedUpTo ==
  ASSUME NEW S, S \subseteq Nat, IsFiniteSet(S)
  PROVE  /\ \A c \in S : Cardinality({d \in S : d <= c}) \in 1..Cardinality(S)
         /\ \A i \in 1..Cardinality(S) : \E c \in S : Cardinality({d \in S : d <= c}) = i
<1> DEFINE upTo(c) == {d \in S : d <= c}
           n == Cardinality(S)
           r == [c \in S |-> Cardinality(upTo(c))]
<1>1. n \in Nat
  BY FS_CardinalityType
<1>2. ASSUME NEW c \in S PROVE IsFiniteSet(upTo(c)) /\ Cardinality(upTo(c)) \in 1..n
  <2>1. upTo(c) \subseteq S /\ c \in upTo(c)
    OBVIOUS
  <2> DEFINE U == upTo(c)
  <2> HIDE DEF U
  <2>2. IsFiniteSet(U) /\ Cardinality(U) <= n
    BY <2>1, FS_Subset DEF U
  <2>3. Cardinality(U) \in Nat /\ Cardinality(U) # 0
    BY <2>1, <2>2, FS_CardinalityType, FS_EmptySet DEF U
  <2>. QED  BY <1>1, <2>2, <2>3 DEF U
<1>3. ASSUME NEW c \in S, NEW d \in S, c < d PROVE Cardinality(upTo(c)) # Cardinality(upTo(d))
  <2>1. \A e \in S : e \in Int /\ (e <= c => e <= d) /\ d <= d /\ ~(d <= c)
    BY <1>3
  <2>2. upTo(c) \subseteq upTo(d) /\ d \in upTo(d) /\ d \notin upTo(c)
    BY <2>1
  <2> DEFINE C == upTo(c)
             D == upTo(d)
  <2>3. IsFiniteSet(D)
    BY <1>2
  <2> HIDE DEF C, D
  <2>4. C \subseteq D /\ C # D
    BY <2>2 DEF C, D
  <2>5. Cardinality(C) # Cardinality(D)
    BY <2>3, <2>4, FS_Subset
  <2>. QED  BY <2>5 DEF C, D
<1> HIDE DEF upTo, n
<1>4. r \in [S -> 1..n] /\ DOMAIN r = S
  BY <1>2
<1>5. \A c, d \in S : r[c] = r[d] => c = d
  <2>1. \A c, d \in S : c < d \/ c = d \/ d < c
    OBVIOUS
  <2>. QED  BY <1>3, <2>1
<1> HIDE DEF r
<1>6. r \in Injection(S, 1..n)
  BY <1>4, <1>5 DEF Injection, IsInjective
<1>7. IsFiniteSet(1..n) /\ Cardinality(1..n) = n
  BY <1>1, FS_Interval
<1>8. r \in Surjection(S, 1..n)
  BY <1>6, <1>7, FS_Injection DEF n
<1>9. \A i \in 1..n : \E c \in S : r[c] = i
  BY <1>4, <1>8 DEF Surjection
<1>. QED  BY <1>2, <1>9 DEF r, upTo, n

(* The tokens of a zone are its keys, each with the numbers up to how many *)
(* channels have it: they do not depend on how the channels are numbered.  *)
LEMMA TokensAre ==
  ASSUME NEW key, DOMAIN key \subseteq Nat, IsFiniteSet(DOMAIN key), NEW t
  PROVE  t \in Tokens(key) <=>
           \E c \in DOMAIN key : \E i \in 1..Cardinality({d \in DOMAIN key : key[d] = key[c]}) :
             t = [key |-> key[c], nth |-> i]
<1> DEFINE D == DOMAIN key
           like(c) == {d \in D : key[d] = key[c]}
           place(c) == Cardinality({d \in D : key[d] = key[c] /\ d <= c})
<1>1. ASSUME NEW c \in D
      PROVE  /\ \A e \in like(c) : place(e) \in 1..Cardinality(like(c)) /\ key[e] = key[c]
             /\ \A i \in 1..Cardinality(like(c)) : \E e \in like(c) : place(e) = i /\ key[e] = key[c]
             /\ c \in like(c) /\ like(c) \subseteq D
  <2> DEFINE S == like(c)
  <2>1. S \subseteq Nat /\ S \subseteq D /\ c \in S /\ \A e \in S : key[e] = key[c]
    OBVIOUS
  <2>2. ASSUME NEW e \in S PROVE place(e) = Cardinality({d \in S : d <= e})
    <3>1. {d \in D : key[d] = key[e] /\ d <= e} = {d \in S : d <= e}
      OBVIOUS
    <3>. QED  BY <3>1
  <2> HIDE DEF S, place
  <2>3. IsFiniteSet(S)
    <3>1. IsFiniteSet(D) /\ S \in SUBSET D
      BY <2>1
    <3> HIDE DEF D
    <3>. QED  BY <3>1, FS_Subset
  <2>4. /\ \A e \in S : Cardinality({d \in S : d <= e}) \in 1..Cardinality(S)
        /\ \A i \in 1..Cardinality(S) : \E e \in S : Cardinality({d \in S : d <= e}) = i
    BY <2>1, <2>3, CountedUpTo
  <2>. QED  BY <2>1, <2>2, <2>4 DEF S
<1>2. Tokens(key) = {[key |-> key[c], nth |-> place(c)] : c \in D}
  BY DEF Tokens, Token
<1> HIDE DEF D, like, place
<1>3. t \in Tokens(key) <=>
        \E c \in D : \E i \in 1..Cardinality(like(c)) : t = [key |-> key[c], nth |-> i]
  <2>1. ASSUME t \in Tokens(key)
        PROVE  \E c \in D : \E i \in 1..Cardinality(like(c)) : t = [key |-> key[c], nth |-> i]
    <3>1. PICK c \in D : t = [key |-> key[c], nth |-> place(c)]
      BY <1>2, <2>1
    <3>2. place(c) \in 1..Cardinality(like(c))
      BY <1>1
    <3>. QED  BY <3>1, <3>2
  <2>2. ASSUME NEW c \in D, NEW i \in 1..Cardinality(like(c)), t = [key |-> key[c], nth |-> i]
        PROVE  t \in Tokens(key)
    <3>1. PICK e \in like(c) : place(e) = i /\ key[e] = key[c]
      BY <1>1
    <3>2. e \in D /\ t = [key |-> key[e], nth |-> place(e)]
      BY <1>1, <2>2, <3>1
    <3>. QED  BY <1>2, <3>2
  <2>. QED  BY <2>1, <2>2
<1>. QED  BY <1>3 DEF D, like

(* Renumbering the channels of a zone leaves its tokens as they are.       *)
LEMMA TokensMove ==
  ASSUME NEW key, DOMAIN key \subseteq Nat, IsFiniteSet(DOMAIN key),
         NEW image, DOMAIN image \subseteq Nat, IsFiniteSet(DOMAIN image),
         NEW f \in Bijection(DOMAIN key, DOMAIN image), \A c \in DOMAIN key : image[f[c]] = key[c]
  PROVE  Tokens(image) = Tokens(key)
<1> DEFINE A == DOMAIN key
           B == DOMAIN image
           likeA(c) == {d \in A : key[d] = key[c]}
           likeB(c) == {d \in B : image[d] = image[c]}
<1>1. /\ DOMAIN f = A /\ \A c \in A : f[c] \in B
      /\ \A c, d \in A : f[c] = f[d] => c = d
      /\ \A e \in B : \E c \in A : f[c] = e
  BY DEF Bijection, Injection, Surjection, IsInjective
<1>2. ASSUME NEW c \in A PROVE Cardinality(likeB(f[c])) = Cardinality(likeA(c))
  <2> DEFINE P == likeA(c)
             Q == likeB(f[c])
             m == [d \in P |-> f[d]]
  <2>1. P \subseteq A /\ (\A d \in P : f[d] \in Q) /\ \A e \in Q : \E d \in P : f[d] = e
    BY <1>1
  <2> HIDE DEF P, Q
  <2>2. IsFiniteSet(P)
    BY <2>1, FS_Subset
  <2>3. m \in [P -> Q] /\ DOMAIN m = P
    BY <2>1
  <2>4. (\A s, t \in P : m[s] = m[t] => s = t) /\ \A t \in Q : \E s \in P : m[s] = t
    BY <1>1, <2>1
  <2> HIDE DEF m
  <2>5. m \in Bijection(P, Q)
    BY <2>3, <2>4 DEF Bijection, Injection, Surjection, IsInjective
  <2>6. ExistsBijection(P, Q)
    BY <2>5 DEF ExistsBijection
  <2>7. Cardinality(Q) = Cardinality(P)
    BY <2>2, <2>6, FS_Bijection
  <2>. QED  BY <2>7 DEF P, Q
<1>3. \A t : t \in Tokens(key) <=>
               \E c \in A : \E i \in 1..Cardinality(likeA(c)) : t = [key |-> key[c], nth |-> i]
  BY TokensAre
<1>4. \A t : t \in Tokens(image) <=>
               \E c \in B : \E i \in 1..Cardinality(likeB(c)) : t = [key |-> image[c], nth |-> i]
  BY TokensAre
<1> HIDE DEF A, B, likeA, likeB
<1>5. \A c \in A : image[f[c]] = key[c]
  BY DEF A
<1>6. ASSUME NEW t PROVE t \in Tokens(image) <=> t \in Tokens(key)
  <2>1. ASSUME t \in Tokens(key) PROVE t \in Tokens(image)
    <3>1. PICK c \in A : \E i \in 1..Cardinality(likeA(c)) : t = [key |-> key[c], nth |-> i]
      BY <1>3, <2>1
    <3>2. f[c] \in B /\ Cardinality(likeB(f[c])) = Cardinality(likeA(c)) /\ image[f[c]] = key[c]
      BY <1>1, <1>2, <1>5
    <3>. QED  BY <1>4, <3>1, <3>2
  <2>2. ASSUME t \in Tokens(image) PROVE t \in Tokens(key)
    <3>1. PICK e \in B : \E i \in 1..Cardinality(likeB(e)) : t = [key |-> image[e], nth |-> i]
      BY <1>4, <2>2
    <3>2. PICK c \in A : f[c] = e
      BY <1>1
    <3>3. Cardinality(likeB(e)) = Cardinality(likeA(c)) /\ image[e] = key[c]
      BY <1>2, <1>5, <3>2
    <3>. QED  BY <1>3, <3>1, <3>3
  <2>. QED  BY <2>1, <2>2
<1>. QED  BY <1>6
-----------------------------------------------------------------------------
(* The channels of a zone are finitely many numbers.                       *)
LEMMA ChannelsOf ==
  ASSUME NEW z, IsZone(z)
  PROVE  Channels(z) \subseteq Nat /\ IsFiniteSet(Channels(z))
<1>1. Channels(z) \subseteq Nat
  BY DEF Channels, IsZone
<1>2. IsFiniteSet(Channels(z))
  <2> DEFINE P == z.ports
             C == Channels(z)
             ch == [p \in P |-> p.ch]
  <2>1. IsFiniteSet(P) /\ C = {p.ch : p \in P}
    BY DEF IsZone, Channels
  <2> HIDE DEF P, C
  <2>2. ch \in Surjection(P, C)
    BY <2>1 DEF Surjection
  <2> HIDE DEF ch
  <2>3. IsFiniteSet(C)
    BY <2>1, <2>2, FS_Surjection
  <2>. QED  BY <2>3 DEF C
<1>. QED  BY <1>1, <1>2

(* What is rendered of the image of a zone is what is rendered of the zone *)
(* itself in another orientation.                                          *)
LEMMA RenderingMoves ==
  ASSUME NEW a, IsZone(a), NEW b, IsZone(b), NEW o \in Orientations, NEW r \in Orientations,
         NEW f \in [Channels(a) -> Channels(b)], Moves(a, b, o, f)
  PROVE  Rendering(b, r) = Rendering(a, After(o, r))
<1> DEFINE key == ChannelKeys(a, After(o, r))
           image == ChannelKeys(b, r)
<1>1. a.w \in Int /\ a.h \in Int /\ b.w = Width(a.w, a.h, o) /\ b.h = Height(a.w, a.h, o)
  BY DEF IsZone, Moves
<1>2. /\ Width(b.w, b.h, r) = Width(a.w, a.h, After(o, r))
      /\ Height(b.w, b.h, r) = Height(a.w, a.h, After(o, r))
  <2>1. /\ o.rotation \in {0, 1, 2, 3} /\ r.rotation \in {0, 1, 2, 3} /\ After(o, r).rotation \in {0, 1, 2, 3}
        /\ o.rotation % 2 = 0 <=> o.rotation \in {0, 2}
        /\ r.rotation % 2 = 0 <=> r.rotation \in {0, 2}
        /\ After(o, r).rotation % 2 = 0 <=> After(o, r).rotation \in {0, 2}
    BY Followed, EightOrientations
  <2>2. After(o, r).rotation \in {0, 2} <=> (o.rotation \in {0, 2} <=> r.rotation \in {0, 2})
    <3>1. /\ ~r.reflect => After(o, r).rotation =
               IF o.rotation + r.rotation < 4 THEN o.rotation + r.rotation ELSE o.rotation + r.rotation - 4
          /\ r.reflect => After(o, r).rotation =
               IF r.rotation < o.rotation THEN 4 + r.rotation - o.rotation ELSE r.rotation - o.rotation
      BY Followed
    <3>2. r.reflect \in BOOLEAN
      BY EightOrientations
    <3>. QED  BY <2>1, <3>1, <3>2
  <2>3. b.w = (IF o.rotation \in {0, 2} THEN a.w ELSE a.h) /\ b.h = (IF o.rotation \in {0, 2} THEN a.h ELSE a.w)
    BY <1>1, <2>1 DEF Width, Height
  <2>. QED  BY <2>1, <2>2, <2>3 DEF Width, Height
<1>3. DOMAIN key = Channels(a) /\ DOMAIN image = Channels(b)
  BY DEF ChannelKeys
<1>4. ASSUME NEW c \in Channels(a) PROVE f[c] \in Channels(b) /\ image[f[c]] = key[c]
  <2>1. ChannelKey(b, f[c], r) = ChannelKey(a, c, After(o, r))
    BY KeyMoves
  <2>. QED  BY <2>1 DEF ChannelKeys
<1>5. f \in Bijection(Channels(a), Channels(b))
  <2>1. f \in Injection(Channels(a), Channels(b))
    BY DEF Moves, Injection
  <2>2. ASSUME NEW e \in Channels(b) PROVE \E c \in Channels(a) : f[c] = e
    <3>1. PICK q \in b.ports : q.ch = e
      BY DEF Channels
    <3>2. PICK p \in a.ports : q = PortImage(p, a, o, f)
      BY DEF Moves
    <3>3. q.ch = f[p.ch]
      BY <3>2, PortsApart DEF Moves
    <3>4. p.ch \in Channels(a)
      BY DEF Channels
    <3>. QED  BY <3>1, <3>3, <3>4
  <2>. QED  BY <2>1, <2>2 DEF Bijection, Surjection
<1>6. Tokens(image) = Tokens(key)
  <2> HIDE DEF key, image
  <2>1. DOMAIN key \subseteq Nat /\ IsFiniteSet(DOMAIN key) /\ DOMAIN image \subseteq Nat /\ IsFiniteSet(DOMAIN image)
    BY <1>3, ChannelsOf
  <2>2. f \in Bijection(DOMAIN key, DOMAIN image) /\ \A c \in DOMAIN key : image[f[c]] = key[c]
    BY <1>3, <1>4, <1>5
  <2>. QED  BY <2>1, <2>2, TokensMove
<1>7. {TransformTile(t, b.w, b.h, r) : t \in b.forbidden} =
        {TransformTile(t, a.w, a.h, After(o, r)) : t \in a.forbidden}
  <2>1. \A t \in a.forbidden : TransformTile(TransformTile(t, a.w, a.h, o), b.w, b.h, r)
                                 = TransformTile(t, a.w, a.h, After(o, r))
    BY <1>1, TileTwice DEF IsZone
  <2>2. b.forbidden = {TransformTile(t, a.w, a.h, o) : t \in a.forbidden}
    BY DEF Moves
  <2>. QED  BY <2>1, <2>2
<1>8. ASSUME NEW z, NEW u
      PROVE  Rendering(z, u) = [w |-> Width(z.w, z.h, u), h |-> Height(z.w, z.h, u),
                                channels |-> Tokens(ChannelKeys(z, u)),
                                forbidden |-> {TransformTile(t, z.w, z.h, u) : t \in z.forbidden}]
  BY DEF Rendering, Width, Height
<1>9. Rendering(b, r) = [w |-> Width(b.w, b.h, r), h |-> Height(b.w, b.h, r), channels |-> Tokens(image),
                         forbidden |-> {TransformTile(t, b.w, b.h, r) : t \in b.forbidden}]
  BY <1>8
<1>10. Rendering(a, After(o, r)) =
         [w |-> Width(a.w, a.h, After(o, r)), h |-> Height(a.w, a.h, After(o, r)), channels |-> Tokens(key),
          forbidden |-> {TransformTile(t, a.w, a.h, After(o, r)) : t \in a.forbidden}]
  BY <1>8
<1> HIDE DEF key, image
<1>. QED  BY <1>2, <1>6, <1>7, <1>9, <1>10

(* So all images of a zone have one signature.                             *)
LEMMA ImagesShareSignature ==
  ASSUME NEW a, IsZone(a), NEW b, IsZone(b), SameUpToSymmetry(a, b)
  PROVE  Canonicalise(a).signature = Canonicalise(b).signature
<1>1. PICK o \in Orientations, f \in [Channels(a) -> Channels(b)] : MovedBy(a, b, o, f)
  BY DEF SameUpToSymmetry
<1>2. Moves(a, b, o, f)
  BY <1>1 DEF MovedBy, Moves, Width, Height, PortImage
<1> DEFINE shown(z) == {Rendering(z, r) : r \in Orientations}
<1>3. shown(b) \subseteq shown(a)
  <2>1. ASSUME NEW r \in Orientations PROVE \E u \in Orientations : Rendering(b, r) = Rendering(a, u)
    BY <1>2, Followed, RenderingMoves
  <2>. QED  BY <2>1
<1>4. shown(a) \subseteq shown(b)
  <2>1. ASSUME NEW u \in Orientations PROVE \E r \in Orientations : Rendering(a, u) = Rendering(b, r)
    <3>1. PICK r \in Orientations : After(o, r) = u
      BY Reached
    <3>. QED  BY <1>2, <3>1, RenderingMoves
  <2>. QED  BY <2>1
<1>5. ASSUME NEW z PROVE Canonicalise(z).signature = CHOOSE s \in shown(z) : TRUE
  <2>1. Range([u \in Orientations |-> Rendering(z, u)]) = shown(z)
    BY DEF Range
  <2>. QED  BY <2>1 DEF Canonicalise
<1> HIDE DEF shown
<1>6. shown(a) = shown(b)
  BY <1>3, <1>4
<1>. QED  BY <1>5, <1>6
-----------------------------------------------------------------------------
(* The other way round: for zones whose ports cross the rim, the signature *)
(* leaves nothing out.                                                     *)

\* The edge over which the flow through p comes in or goes out.
Over(p) == IF p.input THEN (p.dir + 2) % 4 ELSE p.dir

(* Where a port that crosses the rim is seen: on its edge if its tile lies *)
(* on no other, and else on the edge that its flow heads for.              *)
LEMMA CrossingSeen ==
  ASSUME NEW z, NEW p, z.w \in Int, z.h \in Int, p.tile \in Int \X Int, p.dir \in 0..3, Crosses(z, p)
  PROVE  /\ Over(p) \in Edges(z, p.tile)
         /\ EdgeAndOffset(z, p).offset =
              IF EdgeAndOffset(z, p).edge \in {0, 2} THEN p.tile[1] ELSE p.tile[2]
         /\ \/ Edges(z, p.tile) = {Over(p)} /\ EdgeAndOffset(z, p).edge = Over(p)
            \/ /\ \E e \in Edges(z, p.tile) : e # Over(p)
               /\ EdgeAndOffset(z, p).edge = p.dir
<1> DEFINE on == Edges(z, p.tile)
           edge == EdgeAndOffset(z, p).edge
<1>1. Over(p) \in on
  BY DEF Crosses, Over
<1>2. on \subseteq 0..3
  BY DEF Edges
<1>3. CASE on = {Over(p)}
  <2>1. Cardinality(on) = 1
    BY <1>3, FS_Singleton
  <2>2. edge = CHOOSE e \in on : TRUE
    BY <2>1 DEF EdgeAndOffset
  <2>3. edge = Over(p) /\ edge \in 0..3
    BY <1>2, <1>3, <2>2
  <2>4. edge % 2 = 0 <=> edge \in {0, 2}
    <3> HIDE DEF edge
    <3>. QED  BY <2>3
  <2>5. EdgeAndOffset(z, p).offset = IF edge % 2 = 0 THEN p.tile[1] ELSE p.tile[2]
    BY DEF EdgeAndOffset
  <2>. QED  BY <1>1, <1>3, <2>3, <2>4, <2>5
<1>4. CASE on # {Over(p)}
  <2>1. \E e \in on : e # Over(p)
    BY <1>1, <1>4
  <2>2. Cardinality(on) # 1
    <3> SUFFICES ASSUME Cardinality(on) = 1 PROVE FALSE
      OBVIOUS
    <3>1. IsFiniteSet(0..3)
      <4>1. \A i, j \in Int : IsFiniteSet(i..j)
        BY FS_Interval
      <4>2. 0 \in Int /\ 3 \in Int
        OBVIOUS
      <4>. QED  BY <4>1, <4>2, Zenon
    <3> HIDE DEF on
    <3>2. IsFiniteSet(on)
      <4>1. on \in SUBSET (0..3)
        BY <1>2
      <4>. QED  BY <3>1, <4>1, FS_Subset
    <3>3. \E x : on = {x}
      BY <3>2, FS_Singleton
    <3>. QED  BY <1>1, <2>1, <3>3
  <2>3. edge = p.dir
    BY <2>2 DEF EdgeAndOffset
  <2>4. edge % 2 = 0 <=> edge \in {0, 2}
    <3> HIDE DEF edge
    <3>. QED  BY <2>3
  <2>5. EdgeAndOffset(z, p).offset = IF edge % 2 = 0 THEN p.tile[1] ELSE p.tile[2]
    BY DEF EdgeAndOffset
  <2>. QED  BY <1>1, <2>1, <2>3, <2>4, <2>5
<1>. QED  BY <1>3, <1>4

(* Two ports of one kind that are seen alike are on one tile and head one  *)
(* way: an input on a single edge is never seen like one in a corner.      *)
LEMMA CrossingApart ==
  ASSUME NEW a, NEW b, NEW p, NEW q, a.w \in Int, a.h \in Int, b.w = a.w, b.h = a.h,
         p.tile \in Int \X Int, p.dir \in 0..3, Crosses(a, p),
         q.tile \in Int \X Int, q.dir \in 0..3, Crosses(b, q),
         p.input \in BOOLEAN, q.input = p.input, EdgeAndOffset(a, p) = EdgeAndOffset(b, q)
  PROVE  p.tile = q.tile /\ p.dir = q.dir
<1> DEFINE edge == EdgeAndOffset(a, p).edge
           offset == EdgeAndOffset(a, p).offset
           At(t) == IF edge \in {0, 2} THEN t[1] ELSE t[2]
           OnRim(e, t) == \/ e = 0 /\ t[2] = 0
                          \/ e = 1 /\ t[1] = a.w - 1
                          \/ e = 2 /\ t[2] = a.h - 1
                          \/ e = 3 /\ t[1] = 0
<1>1. Edges(b, q.tile) = Edges(a, q.tile)
  BY DEF Edges
<1>2. /\ Over(p) \in Edges(a, p.tile) /\ offset = At(p.tile)
      /\ \/ Edges(a, p.tile) = {Over(p)} /\ edge = Over(p)
         \/ (\E e \in Edges(a, p.tile) : e # Over(p)) /\ edge = p.dir
  BY CrossingSeen
<1>3. /\ Over(q) \in Edges(a, q.tile) /\ offset = At(q.tile)
      /\ \/ Edges(a, q.tile) = {Over(q)} /\ edge = Over(q)
         \/ (\E e \in Edges(a, q.tile) : e # Over(q)) /\ edge = q.dir
  BY <1>1, CrossingSeen
<1>4. \A t : \A e \in 0..3 : e \in Edges(a, t) <=> OnRim(e, t)
  BY DEF Edges
<1>5. \A e, t : e \in Edges(a, t) => e \in 0..3
  BY DEF Edges
<1> HIDE DEF edge, offset
<1>6. PICK i \in Int, j \in Int : p.tile = <<i, j>>
  OBVIOUS
<1>7. PICK k \in Int, l \in Int : q.tile = <<k, l>>
  OBVIOUS
<1>8. CASE ~p.input
  <2>1. Over(p) = p.dir /\ Over(q) = q.dir /\ edge = p.dir /\ edge = q.dir
    BY <1>2, <1>3, <1>8 DEF Over
  <2>2. OnRim(p.dir, p.tile) /\ OnRim(p.dir, q.tile) /\ At(p.tile) = At(q.tile)
    BY <1>2, <1>3, <1>4, <2>1
  <2>. QED  BY <1>6, <1>7, <2>1, <2>2
<1>9. CASE p.input
  <2> DEFINE Opp(d) == IF d < 2 THEN d + 2 ELSE d - 2
  <2>1. Over(p) = Opp(p.dir) /\ Over(q) = Opp(q.dir)
    BY <1>9 DEF Over
  <2>2. Opp(p.dir) \in 0..3 /\ Opp(q.dir) \in 0..3
    OBVIOUS
  <2>3. CASE Edges(a, p.tile) = {Over(p)} /\ edge = Over(p)
    <3>1. \A e \in 0..3 : OnRim(e, p.tile) <=> e = edge
      BY <1>4, <2>3
    <3>2. CASE Edges(a, q.tile) = {Over(q)} /\ edge = Over(q)
      <4>1. p.dir = q.dir
        BY <2>1, <2>3, <3>2
      <4>2. OnRim(edge, p.tile) /\ OnRim(edge, q.tile) /\ edge \in 0..3
        BY <1>2, <1>3, <1>4, <2>1, <2>2, <2>3, <3>2
      <4>. QED  BY <1>2, <1>3, <1>6, <1>7, <4>1, <4>2
    <3>3. CASE (\E e \in Edges(a, q.tile) : e # Over(q)) /\ edge = q.dir
      <4>1. PICK e \in 0..3 : OnRim(e, q.tile) /\ e # Opp(edge)
        BY <1>4, <1>5, <2>1, <3>3
      <4>2. OnRim(Opp(edge), q.tile)
        BY <1>3, <1>4, <2>1, <2>2, <3>3
      <4>3. edge \in 0..3
        BY <3>3
      <4>. QED  BY <1>2, <1>3, <1>6, <1>7, <3>1, <4>1, <4>2, <4>3
    <3>. QED  BY <1>3, <3>2, <3>3
  <2>4. CASE (\E e \in Edges(a, p.tile) : e # Over(p)) /\ edge = p.dir
    <3>1. PICK e \in 0..3 : OnRim(e, p.tile) /\ e # Opp(edge)
      BY <1>4, <1>5, <2>1, <2>4
    <3>2. OnRim(Opp(edge), p.tile) /\ edge \in 0..3
      BY <1>2, <1>4, <2>1, <2>2, <2>4
    <3>3. CASE Edges(a, q.tile) = {Over(q)} /\ edge = Over(q)
      <4>1. \A u \in 0..3 : OnRim(u, q.tile) <=> u = edge
        BY <1>4, <3>3
      <4>. QED  BY <1>2, <1>3, <1>6, <1>7, <3>1, <3>2, <4>1
    <3>4. CASE (\E u \in Edges(a, q.tile) : u # Over(q)) /\ edge = q.dir
      <4>1. OnRim(Opp(edge), q.tile) /\ p.dir = q.dir
        BY <1>3, <1>4, <2>1, <2>2, <2>4, <3>4
      <4>. QED  BY <1>2, <1>3, <1>6, <1>7, <3>2, <4>1
    <3>. QED  BY <1>3, <3>3, <3>4
  <2>. QED  BY <1>2, <2>3, <2>4
<1>. QED  BY <1>8, <1>9

(* A symmetry takes two ports of the signature to two, and the sides of a  *)
(* zone are known from those of its image.                                 *)
LEMMA SeenApart ==
  ASSUME NEW o \in Orientations, NEW w \in Int, NEW h \in Int, NEW u \in Seen, NEW v \in Seen,
         TransformPort(u, w, h, o) = TransformPort(v, w, h, o)
  PROVE  u = v
<1> DEFINE none == [rotation |-> 0, reflect |-> FALSE]
<1>1. none \in Orientations
  BY DEF Orientations
<1>2. PICK p \in Orientations : After(o, p) = none
  BY <1>1, Reached
<1>3. TransformPort(u, w, h, none) = TransformPort(v, w, h, none)
  <2> DEFINE again(s) == TransformPort(s, Width(w, h, o), Height(w, h, o), p)
  <2>1. \A s \in Seen : again(TransformPort(s, w, h, o)) = TransformPort(s, w, h, After(o, p))
    BY PortTwice DEF Seen
  <2> HIDE DEF again
  <2>. QED  BY <1>2, <2>1
<1>4. ASSUME NEW s \in Seen PROVE TransformPort(s, w, h, none) = s
  <2>1. PICK e \in 0..3, k \in Int : s = [edge |-> e, offset |-> k]
    BY DEF Seen
  <2>2. IsSeen(TransformPort(s, w, h, none), e, k, w, h, none)
    BY <1>1, <2>1, PortSeen
  <2>. QED  BY <2>1, <2>2 DEF IsSeen
<1>. QED  BY <1>3, <1>4

(* A token belongs to one channel of a zone.                               *)
LEMMA OneChannel ==
  ASSUME NEW key, DOMAIN key \subseteq Nat, IsFiniteSet(DOMAIN key),
         NEW c \in DOMAIN key, NEW d \in DOMAIN key, Token(key, c) = Token(key, d)
  PROVE  c = d
<1> DEFINE upTo(e) == {x \in DOMAIN key : key[x] = key[e] /\ x <= e}
<1>1. key[c] = key[d] /\ Cardinality(upTo(c)) = Cardinality(upTo(d))
  BY DEF Token
<1>2. ASSUME NEW e \in DOMAIN key, NEW f \in DOMAIN key, key[e] = key[f], e < f
      PROVE  Cardinality(upTo(e)) # Cardinality(upTo(f))
  <2>1. \A x \in DOMAIN key : (x <= e => x <= f) /\ f <= f /\ ~(f <= e)
    BY <1>2
  <2>2. upTo(e) \subseteq upTo(f) /\ f \in upTo(f) /\ f \notin upTo(e)
    BY <1>2, <2>1
  <2>3. upTo(f) \in SUBSET DOMAIN key
    OBVIOUS
  <2> DEFINE E == upTo(e)
             F == upTo(f)
  <2> HIDE DEF E, F
  <2>4. IsFiniteSet(F)
    BY <2>3, FS_Subset DEF F
  <2>5. E \in SUBSET F /\ E # F
    BY <2>2 DEF E, F
  <2>6. Cardinality(E) # Cardinality(F)
    BY <2>4, <2>5, FS_Subset
  <2>. QED  BY <2>6 DEF E, F
<1> HIDE DEF upTo
<1>3. c < d \/ c = d \/ d < c
  OBVIOUS
<1>. QED  BY <1>1, <1>2, <1>3

(* Where two zones show the same tokens, their channels can be paired.     *)
LEMMA TokensPair ==
  ASSUME NEW key, DOMAIN key \subseteq Nat, IsFiniteSet(DOMAIN key),
         NEW image, DOMAIN image \subseteq Nat, IsFiniteSet(DOMAIN image),
         Tokens(key) = Tokens(image)
  PROVE  \E f \in Bijection(DOMAIN key, DOMAIN image) :
           \A c \in DOMAIN key : Token(image, f[c]) = Token(key, c) /\ image[f[c]] = key[c]
<1> DEFINE C == DOMAIN key
           D == DOMAIN image
           f == [c \in C |-> CHOOSE d \in D : Token(image, d) = Token(key, c)]
<1>1. \A c \in C : Token(key, c) \in Tokens(image)
  BY DEF Tokens
<1>2. \A d \in D : Token(image, d) \in Tokens(key)
  BY DEF Tokens
<1>3. ASSUME NEW c \in C PROVE f[c] \in D /\ Token(image, f[c]) = Token(key, c)
  <2>1. \E d \in D : Token(image, d) = Token(key, c)
    BY <1>1 DEF Tokens
  <2>. QED  BY <2>1
<1>4. ASSUME NEW d \in D PROVE \E c \in C : Token(key, c) = Token(image, d)
  BY <1>2 DEF Tokens
<1> HIDE DEF f
<1>5. f \in [C -> D] /\ DOMAIN f = C
  BY <1>3 DEF f
<1>6. \A c, e \in C : f[c] = f[e] => c = e
  <2> SUFFICES ASSUME NEW c \in C, NEW e \in C, f[c] = f[e] PROVE c = e
    OBVIOUS
  <2>1. Token(key, c) = Token(key, e)
    BY <1>3
  <2>. QED  BY <2>1, OneChannel
<1>7. \A d \in D : \E c \in C : f[c] = d
  <2> SUFFICES ASSUME NEW d \in D PROVE \E c \in C : f[c] = d
    OBVIOUS
  <2>1. PICK c \in C : Token(key, c) = Token(image, d)
    BY <1>4
  <2>2. f[c] \in D /\ Token(image, f[c]) = Token(image, d)
    BY <1>3, <2>1
  <2>3. f[c] = d
    BY <2>2, OneChannel
  <2>. QED  BY <2>3
<1>8. f \in Bijection(C, D)
  BY <1>5, <1>6, <1>7 DEF Bijection, Injection, Surjection, IsInjective
<1>9. \A c \in C : image[f[c]] = key[c]
  BY <1>3 DEF Token
<1>. QED  BY <1>3, <1>8, <1>9

(* Before any orientation there is a symmetry that leads to any other.     *)
LEMMA ReachedFrom ==
  ASSUME NEW p \in Orientations, NEW r \in Orientations
  PROVE  \E o \in Orientations : After(o, p) = r
<1> DEFINE b == p.rotation
           c == r.rotation
           turn == IF p.reflect THEN (IF b < c THEN b + 4 - c ELSE b - c)
                   ELSE (IF c < b THEN c + 4 - b ELSE c - b)
           o == [rotation |-> turn, reflect |-> p.reflect # r.reflect]
<1>1. b \in 0..3 /\ c \in 0..3 /\ p.reflect \in BOOLEAN /\ r.reflect \in BOOLEAN
  BY EightOrientations
<1>2. o \in Orientations
  <2>1. turn \in 0..3
    BY <1>1
  <2> HIDE DEF turn
  <2>. QED  BY <2>1 DEF Orientations
<1>3. o.rotation = turn /\ (o.reflect <=> ~(p.reflect <=> r.reflect))
  BY <1>1
<1> HIDE DEF o
<1>4. After(o, p) \in Orientations /\ (After(o, p).reflect <=> r.reflect)
  BY <1>1, <1>2, <1>3, Followed
<1>5. After(o, p).rotation = r.rotation
  <2>1. CASE ~p.reflect
    <3>1. After(o, p).rotation = IF o.rotation + b < 4 THEN o.rotation + b ELSE o.rotation + b - 4
      BY <1>2, <2>1, Followed
    <3>. QED  BY <1>1, <1>3, <2>1, <3>1
  <2>2. CASE p.reflect
    <3>1. After(o, p).rotation = IF b < o.rotation THEN 4 + b - o.rotation ELSE b - o.rotation
      BY <1>2, <2>2, Followed
    <3>. QED  BY <1>1, <1>3, <2>2, <3>1
  <2>. QED  BY <2>1, <2>2
<1>6. After(o, p).reflect = r.reflect
  <2> DEFINE x == After(o, p).reflect
             y == r.reflect
  <2>1. x \in BOOLEAN
    BY <1>4 DEF Orientations
  <2>2. x <=> y
    BY <1>4
  <2>3. y \in BOOLEAN
    BY <1>1
  <2> HIDE DEF x, y
  <2>4. x = y
    BY <2>1, <2>2, <2>3, SameTruth
  <2>. QED  BY <2>4 DEF x, y
<1>7. After(o, p) = r
  BY <1>4, <1>5, <1>6 DEF Orientations
<1>. QED  BY <1>2, <1>7

\* b is a with its channels renumbered by f, which keeps their tokens in the
\* orientation r.
Renumbers(a, b, r, f) ==
  /\ b.w = a.w /\ b.h = a.h /\ b.forbidden = a.forbidden
  /\ f \in Bijection(Channels(a), Channels(b))
  /\ \A c \in Channels(a) : /\ a.reach[c] = b.reach[f[c]]
                            /\ Token(ChannelKeys(b, r), f[c]) = Token(ChannelKeys(a, r), c)
  /\ b.ports = {[p EXCEPT !.ch = f[@]] : p \in a.ports}

AllCross(z) == \A p \in z.ports : Crosses(z, p)

(* A port of one of two channels with one key is seen on the other.        *)
LEMMA SeenOnBoth ==
  ASSUME NEW a, IsZone(a), AllCross(a), NEW b, IsZone(b), AllCross(b), b.w = a.w, b.h = a.h,
         NEW r \in Orientations, NEW c, NEW d, ChannelKey(a, c, r) = ChannelKey(b, d, r),
         NEW p \in a.ports, p.ch = c
  PROVE  \E q \in b.ports : q = [p EXCEPT !.ch = d]
<1> DEFINE key(z, q) == TransformPort(EdgeAndOffset(z, q), z.w, z.h, r)
           ends(z, e, in) == {q \in z.ports : q.ch = e /\ q.input = in}
           alike(z, e, in, q) == Cardinality({s \in ends(z, e, in) : key(z, s) = key(z, q)})
           bag(z, e, in) == {<<key(z, q), alike(z, e, in, q)>> : q \in ends(z, e, in)}
<1>1. p \in PortType /\ a.w \in Int /\ a.h \in Int /\ b.ports \subseteq PortType
  BY DEF IsZone, PortType
<1>2. p.input \in BOOLEAN
  BY <1>1 DEF PortType
<1>3. bag(a, c, p.input) = bag(b, d, p.input)
  <2> DEFINE ins(z, e) == bag(z, e, TRUE)
             outs(z, e) == bag(z, e, FALSE)
  <2>1. ASSUME NEW z, NEW e
        PROVE  ChannelKey(z, e, r).ins = ins(z, e) /\ ChannelKey(z, e, r).outs = outs(z, e)
    <3> HIDE DEF key, ends, alike, bag, ins, outs
    <3>1. ChannelKey(z, e, r) = [ins |-> ins(z, e), outs |-> outs(z, e), reach |-> z.reach[e]]
      BY DEF ChannelKey, ins, outs, bag, alike, ends, key
    <3>. QED  BY <3>1
  <2> HIDE DEF bag, ins, outs
  <2>2. ins(a, c) = ins(b, d) /\ outs(a, c) = outs(b, d)
    BY <2>1
  <2>. QED  BY <1>2, <2>2 DEF ins, outs
<1>4. \E q \in b.ports : q.ch = d /\ q.input = p.input /\ key(b, q) = key(a, p)
  <2> HIDE DEF key, alike
  <2>1. p \in ends(a, c, p.input)
    OBVIOUS
  <2>2. <<key(a, p), alike(a, c, p.input, p)>> \in bag(b, d, p.input)
    BY <1>3, <2>1
  <2>3. \E q \in ends(b, d, p.input) : key(b, q) = key(a, p)
    <3> HIDE DEF ends
    <3>. QED  BY <2>2
  <2>. QED  BY <2>3
<1>5. PICK q \in b.ports : q.ch = d /\ q.input = p.input /\ key(b, q) = key(a, p)
  BY <1>4
<1>6. q \in PortType /\ p.tile \in Int \X Int /\ p.dir \in 0..3 /\ q.tile \in Int \X Int /\ q.dir \in 0..3
  BY <1>1 DEF PortType
<1>7. Crosses(a, p) /\ Crosses(b, q)
  BY DEF AllCross
<1>8. EdgeAndOffset(a, p) \in Seen /\ EdgeAndOffset(b, q) \in Seen
  <2> DEFINE o == [rotation |-> 0, reflect |-> FALSE]
             image(z, s) == [tile |-> TransformTile(s.tile, z.w, z.h, o), dir |-> TransformDirection(s.dir, o)]
             turned(z) == [w |-> Width(z.w, z.h, o), h |-> Height(z.w, z.h, o)]
  <2>1. o \in Orientations
    BY DEF Orientations
  <2> HIDE DEF o
  <2>2. EdgeAndOffset(a, p) \in [edge : 0..3, offset : Int]
    <3> DEFINE t == turned(a)
               s == image(a, p)
    <3>1. t.w = Width(a.w, a.h, o) /\ t.h = Height(a.w, a.h, o)
          /\ s.tile = TransformTile(p.tile, a.w, a.h, o) /\ s.dir = TransformDirection(p.dir, o)
      OBVIOUS
    <3> HIDE DEF t, s
    <3>. QED  BY <1>1, <1>6, <2>1, <3>1, PortMoves
  <2>3. EdgeAndOffset(b, q) \in [edge : 0..3, offset : Int]
    <3> DEFINE t == turned(b)
               s == image(b, q)
    <3>1. t.w = Width(b.w, b.h, o) /\ t.h = Height(b.w, b.h, o)
          /\ s.tile = TransformTile(q.tile, b.w, b.h, o) /\ s.dir = TransformDirection(q.dir, o)
      OBVIOUS
    <3> HIDE DEF t, s
    <3>. QED  BY <1>1, <1>6, <2>1, <3>1, PortMoves
  <2>. QED  BY <2>2, <2>3 DEF Seen
<1>9. EdgeAndOffset(a, p) = EdgeAndOffset(b, q)
  BY <1>1, <1>5, <1>8, SeenApart
<1>10. p.tile = q.tile /\ p.dir = q.dir
  BY <1>1, <1>2, <1>5, <1>6, <1>7, <1>9, CrossingApart
<1>11. p.interior = FALSE /\ q.interior = FALSE
  BY <1>1, <1>6, <1>7 DEF Crosses, PortType
<1>12. q = [p EXCEPT !.ch = d]
  BY <1>1, <1>5, <1>6, <1>10, <1>11 DEF PortType
<1>. QED  BY <1>12

(* Zones that are rendered alike differ in the numbers of their channels.  *)
LEMMA RenderedAlike ==
  ASSUME NEW a, IsZone(a), AllCross(a), NEW b, IsZone(b), AllCross(b),
         NEW r \in Orientations, Rendering(a, r) = Rendering(b, r)
  PROVE  \E f \in Bijection(Channels(a), Channels(b)) : Renumbers(a, b, r, f)
<1> DEFINE key == ChannelKeys(a, r)
           image == ChannelKeys(b, r)
<1>1. /\ Tokens(key) = Tokens(image)
      /\ {TransformTile(t, a.w, a.h, r) : t \in a.forbidden} = {TransformTile(t, b.w, b.h, r) : t \in b.forbidden}
      /\ b.w = a.w /\ b.h = a.h
  <2> DEFINE F(z) == {TransformTile(t, z.w, z.h, r) : t \in z.forbidden}
             T(z) == Tokens(ChannelKeys(z, r))
             W(z) == IF r.rotation % 2 = 0 THEN z.w ELSE z.h
             H(z) == IF r.rotation % 2 = 0 THEN z.h ELSE z.w
  <2>1. ASSUME NEW z PROVE Rendering(z, r) = [w |-> W(z), h |-> H(z), channels |-> T(z), forbidden |-> F(z)]
    BY DEF Rendering
  <2>2. /\ Rendering(a, r) = [w |-> W(a), h |-> H(a), channels |-> T(a), forbidden |-> F(a)]
        /\ Rendering(b, r) = [w |-> W(b), h |-> H(b), channels |-> T(b), forbidden |-> F(b)]
    BY <2>1
  <2> HIDE DEF F, T, W, H
  <2>3. ASSUME NEW z \in {a, b}
        PROVE  /\ Rendering(z, r).w = W(z) /\ Rendering(z, r).h = H(z)
               /\ Rendering(z, r).channels = T(z) /\ Rendering(z, r).forbidden = F(z)
    BY <2>2
  <2>4. W(a) = W(b) /\ H(a) = H(b) /\ T(a) = T(b) /\ F(a) = F(b)
    BY <2>3
  <2>5. b.w = a.w /\ b.h = a.h
    BY <2>4 DEF W, H
  <2>. QED  BY <2>4, <2>5 DEF F, T
<1>2. DOMAIN key = Channels(a) /\ DOMAIN image = Channels(b)
  BY DEF ChannelKeys
<1>3. PICK f \in Bijection(Channels(a), Channels(b)) :
        \A c \in Channels(a) : Token(image, f[c]) = Token(key, c) /\ image[f[c]] = key[c]
  <2> HIDE DEF key, image
  <2>1. DOMAIN key \subseteq Nat /\ IsFiniteSet(DOMAIN key) /\ DOMAIN image \subseteq Nat /\ IsFiniteSet(DOMAIN image)
    BY <1>2, ChannelsOf
  <2>2. \E g \in Bijection(DOMAIN key, DOMAIN image) :
          \A c \in DOMAIN key : Token(image, g[c]) = Token(key, c) /\ image[g[c]] = key[c]
    BY <1>1, <2>1, TokensPair
  <2>. QED  BY <1>2, <2>2
<1>4. /\ \A c \in Channels(a) : f[c] \in Channels(b)
      /\ \A d \in Channels(b) : \E c \in Channels(a) : f[c] = d
  BY DEF Bijection, Injection, Surjection
<1>5. \A c \in Channels(a) : ChannelKey(a, c, r) = ChannelKey(b, f[c], r)
  BY <1>3, <1>4 DEF ChannelKeys
<1>6. \A c \in Channels(a) : a.reach[c] = b.reach[f[c]]
  <2> SUFFICES ASSUME NEW c \in Channels(a) PROVE a.reach[c] = b.reach[f[c]]
    OBVIOUS
  <2>1. ChannelKey(a, c, r).reach = a.reach[c] /\ ChannelKey(b, f[c], r).reach = b.reach[f[c]]
    BY DEF ChannelKey
  <2>. QED  BY <1>5, <2>1
<1>7. b.forbidden = a.forbidden
  <2>1. ASSUME NEW y, NEW z, IsZone(y), IsZone(z), y.w = z.w, y.h = z.h,
               {TransformTile(t, y.w, y.h, r) : t \in y.forbidden} =
                 {TransformTile(t, z.w, z.h, r) : t \in z.forbidden},
               NEW t \in y.forbidden
        PROVE  t \in z.forbidden
    <3>1. PICK s \in z.forbidden : TransformTile(t, y.w, y.h, r) = TransformTile(s, y.w, y.h, r)
      BY <2>1
    <3>2. t \in Int \X Int /\ s \in Int \X Int /\ y.w \in Int /\ y.h \in Int
      BY <2>1 DEF IsZone
    <3>3. t = s
      BY <3>1, <3>2, TilesApart
    <3>. QED  BY <3>3
  <2>2. a.forbidden \subseteq b.forbidden /\ b.forbidden \subseteq a.forbidden
    BY <1>1, <2>1
  <2>. QED  BY <2>2
<1>8. b.ports = {[p EXCEPT !.ch = f[@]] : p \in a.ports}
  <2>1. ASSUME NEW p \in a.ports PROVE [p EXCEPT !.ch = f[@]] \in b.ports
    <3>1. p.ch \in Channels(a)
      BY DEF Channels
    <3>2. \E q \in b.ports : q = [p EXCEPT !.ch = f[p.ch]]
      BY <1>1, <1>5, <3>1, SeenOnBoth
    <3>. QED  BY <3>2
  <2>2. ASSUME NEW q \in b.ports PROVE \E p \in a.ports : q = [p EXCEPT !.ch = f[@]]
    <3>1. q.ch \in Channels(b)
      BY DEF Channels
    <3>2. PICK c \in Channels(a) : f[c] = q.ch
      BY <1>4, <3>1
    <3>3. ChannelKey(b, q.ch, r) = ChannelKey(a, c, r)
      BY <1>5, <3>2
    <3>4. PICK p \in a.ports : p = [q EXCEPT !.ch = c]
      BY <1>1, <3>3, SeenOnBoth
    <3>5. q \in PortType
      BY DEF IsZone, PortType
    <3>6. p.ch = c /\ q = [p EXCEPT !.ch = q.ch]
      BY <3>4, <3>5 DEF PortType
    <3>. QED  BY <3>2, <3>6
  <2>. QED  BY <2>1, <2>2
<1>. QED  BY <1>1, <1>3, <1>6, <1>7, <1>8 DEF Renumbers

-----------------------------------------------------------------------------
(* Signatures lead back to the zones.                                      *)

\* Zone a after the symmetry o, in its own place and channels.
ImageOf(a, o) ==
  [at |-> a.at, w |-> Width(a.w, a.h, o), h |-> Height(a.w, a.h, o), reach |-> a.reach,
   forbidden |-> {TransformTile(t, a.w, a.h, o) : t \in a.forbidden},
   ports |-> {PortImage(p, a, o, [c \in Channels(a) |-> c]) : p \in a.ports}]

(* A tile stays one.                                                       *)
LEMMA TileMoves ==
  ASSUME NEW o \in Orientations, NEW w \in Int, NEW h \in Int, NEW t \in Int \X Int
  PROVE  TransformTile(t, w, h, o) \in Int \X Int
<1>1. PICK x \in Int, y \in Int : t = <<x, y>>
  OBVIOUS
<1>2. o.rotation \in {0, 1, 2, 3} /\ o.reflect \in BOOLEAN
  BY EightOrientations
<1>. QED  BY <1>1, <1>2 DEF TransformTile, Turn

(* The image of a zone whose ports cross the rim is such a zone.           *)
LEMMA ImageIsZone ==
  ASSUME NEW a, IsZone(a), AllCross(a), NEW o \in Orientations
  PROVE  /\ IsZone(ImageOf(a, o)) /\ AllCross(ImageOf(a, o))
         /\ Channels(ImageOf(a, o)) = Channels(a)
         /\ Moves(a, ImageOf(a, o), o, [c \in Channels(a) |-> c])
<1> DEFINE same == [c \in Channels(a) |-> c]
           b == ImageOf(a, o)
           M(p) == PortImage(p, a, o, same)
<1>1. /\ b.at = a.at /\ b.w = Width(a.w, a.h, o) /\ b.h = Height(a.w, a.h, o) /\ b.reach = a.reach
      /\ b.forbidden = {TransformTile(t, a.w, a.h, o) : t \in a.forbidden}
      /\ b.ports = {M(p) : p \in a.ports}
  BY DEF ImageOf
<1>2. same \in [Channels(a) -> Channels(a)] /\ IsInjective(same) /\ \A c \in Channels(a) : same[c] = c
  BY DEF IsInjective
<1> HIDE DEF b, same
<1>3. ASSUME NEW p \in a.ports
      PROVE  /\ M(p).tile = TransformTile(p.tile, a.w, a.h, o)
             /\ M(p).dir = TransformDirection(p.dir, o)
             /\ M(p).ch = p.ch /\ M(p).input = p.input /\ M(p).interior = p.interior
  <2>1. p.ch \in Channels(a)
    BY DEF Channels
  <2>. QED  BY <1>2, <2>1, PortsApart
<1>4. /\ a.at \in Int \X Int /\ a.w \in Nat /\ a.h \in Nat
      /\ a.ports \subseteq PortType /\ a.forbidden \subseteq Int \X Int
  BY DEF IsZone, PortType
<1>5. b.ports \subseteq PortType
  <2> SUFFICES ASSUME NEW p \in a.ports PROVE M(p) \in PortType
    BY <1>1
  <2>1. p \in PortType
    BY <1>4
  <2>2. TransformTile(p.tile, a.w, a.h, o) \in Int \X Int
    BY <1>4, <2>1, TileMoves DEF PortType
  <2>3. TransformDirection(p.dir, o) \in 0..3
    BY <2>1, DirectionsTurn DEF PortType
  <2>4. M(p) = [p EXCEPT !.tile = TransformTile(p.tile, a.w, a.h, o),
                         !.dir = TransformDirection(p.dir, o), !.ch = same[p.ch]]
    BY DEF PortImage
  <2>5. same[p.ch] \in Nat
    BY <1>2, <2>1 DEF Channels, PortType
  <2>. QED  BY <2>1, <2>2, <2>3, <2>4, <2>5 DEF PortType
<1>6. IsFiniteSet(b.ports)
  <2> DEFINE P == a.ports
             Q == b.ports
             m == [p \in P |-> M(p)]
  <2>1. IsFiniteSet(P)
    BY DEF IsZone
  <2>2. m \in Surjection(P, Q)
    <3> HIDE DEF M
    <3>. QED  BY <1>1 DEF Surjection
  <2> HIDE DEF P, Q, m
  <2>3. IsFiniteSet(Q)
    BY <2>1, <2>2, FS_Surjection
  <2>. QED  BY <2>3 DEF Q
<1>7. b.forbidden \subseteq Int \X Int
  BY <1>1, <1>4, TileMoves
<1>8. IsZone(b)
  <2>1. b.at \in Int \X Int /\ b.w \in Nat /\ b.h \in Nat
    BY <1>1, <1>4 DEF Width, Height
  <2>. QED  BY <1>5, <1>6, <1>7, <2>1 DEF IsZone, PortType
<1>9. AllCross(b)
  <2> SUFFICES ASSUME NEW p \in a.ports PROVE Crosses(b, M(p))
    BY <1>1 DEF AllCross
  <2> DEFINE q == M(p)
  <2>1. Crosses(a, p) /\ p \in PortType
    BY <1>4 DEF AllCross
  <2>2. Over(p) \in 0..3 /\ Over(p) \in Edges(a, p.tile) /\ ~p.interior
    BY <2>1 DEF Crosses, Over, PortType
  <2>3. TransformDirection(Over(p), o) \in Edges(b, q.tile)
    BY <1>1, <1>3, <1>4, <2>1, <2>2, EdgesTurn DEF PortType
  <2>4. Over(q) = TransformDirection(Over(p), o)
    <3>1. q.dir = TransformDirection(p.dir, o) /\ q.input = p.input
      BY <1>3
    <3>2. p.dir \in 0..3
      BY <2>1 DEF PortType
    <3> HIDE DEF q
    <3>3. CASE p.input
      <4> DEFINE d == p.dir
                 e == Over(p)
                 at(x) == IF o.reflect /\ x \in {1, 3} THEN 4 - x ELSE x
      <4>1. TransformDirection(d, o) = IF at(d) + o.rotation < 4 THEN at(d) + o.rotation ELSE at(d) + o.rotation - 4
        BY <3>2, DirectionsTurn
      <4>2. TransformDirection(e, o) = IF at(e) + o.rotation < 4 THEN at(e) + o.rotation ELSE at(e) + o.rotation - 4
        BY <2>2, DirectionsTurn
      <4>3. e = (d + 2) % 4
        BY <3>3 DEF Over
      <4>4. o.rotation \in {0, 1, 2, 3} /\ o.reflect \in BOOLEAN
        BY EightOrientations
      <4>5. Over(q) = (TransformDirection(d, o) + 2) % 4
        BY <3>1, <3>3 DEF Over
      <4> HIDE DEF d, e
      <4>6. d \in {0, 1, 2, 3}
        BY <3>2 DEF d
      <4>7. Over(q) = TransformDirection(e, o)
        BY <4>1, <4>2, <4>3, <4>4, <4>5, <4>6
      <4>. QED  BY <4>7 DEF e
    <3>4. CASE ~p.input
      BY <3>1, <3>4 DEF Over
    <3>. QED  BY <3>3, <3>4
  <2>5. ~q.interior
    BY <1>3, <2>2
  <2> HIDE DEF q
  <2>6. Crosses(b, q)
    BY <2>3, <2>4, <2>5 DEF Crosses, Over
  <2>. QED  BY <2>6 DEF q
<1>10. Channels(b) = Channels(a)
  BY <1>1, <1>3 DEF Channels
<1>11. Moves(a, b, o, same)
  BY <1>1, <1>2 DEF Moves
<1>. QED  BY <1>8, <1>9, <1>10, <1>11 DEF b, same

(* Which of the renderings is shown.                                       *)
LEMMA CanonicalShown ==
  ASSUME NEW z
  PROVE  LET form == Canonicalise(z)
         IN  /\ form.o \in Orientations
             /\ form.signature = Rendering(z, form.o)
             /\ form.key = ChannelKeys(z, form.o)
<1> DEFINE rendering == [o \in Orientations |-> Rendering(z, o)]
           least == CHOOSE s \in Range(rendering) : TRUE
           rank(o) == 2 * o.rotation + (IF o.reflect THEN 1 ELSE 0)
           shows == {o \in Orientations : rendering[o] = least}
           first == CHOOSE a \in shows : \A b \in shows : rank(a) <= rank(b)
           upright == [rotation |-> 0, reflect |-> FALSE]
<1>1. least \in Range(rendering)
  <2>1. upright \in Orientations
    BY DEF Orientations
  <2>2. rendering[upright] \in Range(rendering)
    BY <2>1 DEF Range
  <2> HIDE DEF rendering
  <2>. QED  BY <2>2
<1>2. shows # {}
  <2>1. \E o \in Orientations : rendering[o] = least
    <3> HIDE DEF least
    <3>. QED  BY <1>1 DEF Range
  <2>. QED  BY <2>1
<1>3. \A o \in Orientations : rank(o) \in Nat
  BY EightOrientations
<1>4. \E a \in shows : \A b \in shows : rank(a) <= rank(b)
  <2> DEFINE ranks == {rank(o) : o \in shows}
  <2> HIDE DEF rank
  <2>1. ranks \subseteq Nat /\ ranks # {}
    <3> HIDE DEF rendering, least
    <3>. QED  BY <1>2, <1>3
  <2> HIDE DEF shows
  <2>2. Min(ranks) \in ranks /\ \A r \in ranks : Min(ranks) <= r
    <3> HIDE DEF ranks
    <3>. QED  BY <2>1, Least
  <2>3. PICK a \in shows : rank(a) = Min(ranks)
    BY <2>2
  <2>. QED  BY <2>2, <2>3
<1>5. Canonicalise(z) = [signature |-> least, o |-> first, key |-> ChannelKeys(z, first)]
  BY DEF Canonicalise
<1>6. first \in shows
  <2> HIDE DEF shows, rank
  <2>. QED  BY <1>4
<1>7. first \in Orientations /\ rendering[first] = least
  <2> HIDE DEF rendering, least, first
  <2>. QED  BY <1>6
<1> HIDE DEF first, least
<1>8. Rendering(z, first) = least
  BY <1>7
<1>. QED  BY <1>5, <1>7, <1>8

(* Zones whose ports all cross the rim share a signature only if one is    *)
(* the other after a symmetry, with its channels renumbered, which are     *)
(* matched as their tokens are.                                            *)
LEMMA CarriedOver ==
  ASSUME NEW a, IsZone(a), AllCross(a), NEW b, IsZone(b), AllCross(b),
         Canonicalise(a).signature = Canonicalise(b).signature
  PROVE  \E o \in Orientations, f \in Bijection(Channels(a), Channels(b)) :
           /\ MovedBy(a, b, o, f)
           /\ After(o, Canonicalise(b).o) = Canonicalise(a).o
           /\ \A c \in Channels(a) : Token(Canonicalise(b).key, f[c]) = Token(Canonicalise(a).key, c)
<1> DEFINE u == Canonicalise(a).o
           v == Canonicalise(b).o
<1>1. /\ u \in Orientations /\ Canonicalise(a).key = ChannelKeys(a, u)
      /\ v \in Orientations /\ Canonicalise(b).key = ChannelKeys(b, v)
  BY CanonicalShown
<1>2. Rendering(a, u) = Rendering(b, v)
  BY CanonicalShown
<1> HIDE DEF u, v
<1>3. PICK o \in Orientations : After(o, v) = u
  BY <1>1, ReachedFrom
<1> DEFINE y == ImageOf(a, o)
           same == [c \in Channels(a) |-> c]
<1>4. IsZone(y) /\ AllCross(y) /\ Channels(y) = Channels(a) /\ Moves(a, y, o, same)
  BY ImageIsZone
<1>5. /\ y.w = Width(a.w, a.h, o) /\ y.h = Height(a.w, a.h, o) /\ y.reach = a.reach
      /\ y.forbidden = {TransformTile(t, a.w, a.h, o) : t \in a.forbidden}
      /\ y.ports = {PortImage(p, a, o, same) : p \in a.ports}
  BY DEF ImageOf
<1>6. same \in [Channels(a) -> Channels(y)] /\ \A c \in Channels(a) : same[c] = c
  BY <1>4
<1> HIDE DEF y, same
<1>7. Rendering(y, v) = Rendering(b, v)
  BY <1>1, <1>2, <1>3, <1>4, <1>6, RenderingMoves
<1>8. PICK f \in Bijection(Channels(y), Channels(b)) : Renumbers(y, b, v, f)
  BY <1>1, <1>4, <1>7, RenderedAlike
<1>9. /\ f \in [Channels(a) -> Channels(b)] /\ IsInjective(f)
      /\ Cardinality(Channels(a)) = Cardinality(Channels(b))
  <2>1. f \in [Channels(a) -> Channels(b)] /\ IsInjective(f)
    BY <1>4 DEF Bijection, Injection
  <2>2. Cardinality(Channels(y)) = Cardinality(Channels(b))
    <3> DEFINE C == Channels(y)
               D == Channels(b)
    <3>1. IsFiniteSet(C) /\ IsFiniteSet(D) /\ f \in Bijection(C, D)
      BY <1>4, ChannelsOf
    <3> HIDE DEF C, D
    <3>2. Cardinality(C) = Cardinality(D)
      BY <3>1, FS_Bijection DEF ExistsBijection
    <3>. QED  BY <3>2 DEF C, D
  <2>. QED  BY <1>4, <2>1, <2>2
<1>10. b.ports = {PortImage(p, a, o, f) : p \in a.ports}
  <2>1. b.ports = {[q EXCEPT !.ch = f[@]] : q \in y.ports}
    BY <1>8 DEF Renumbers
  <2>2. ASSUME NEW p \in a.ports
        PROVE  PortImage(p, a, o, f) = [PortImage(p, a, o, same) EXCEPT !.ch = f[@]]
    <3>1. p \in PortType /\ same[p.ch] = p.ch
      BY <1>6 DEF IsZone, PortType, Channels
    <3>. QED  BY <3>1 DEF PortImage, PortType
  <2> DEFINE A(p) == PortImage(p, a, o, same)
             B(p) == PortImage(p, a, o, f)
             G(q) == [q EXCEPT !.ch = f[@]]
  <2>3. b.ports = {G(q) : q \in y.ports} /\ y.ports = {A(p) : p \in a.ports} /\ \A p \in a.ports : B(p) = G(A(p))
    BY <1>5, <2>1, <2>2
  <2> HIDE DEF A, B, G
  <2>4. b.ports = {B(p) : p \in a.ports}
    BY <2>3
  <2>. QED  BY <2>4 DEF B
<1>11. MovedBy(a, b, o, f)
  <2>1. /\ b.w = y.w /\ b.h = y.h /\ b.forbidden = y.forbidden
        /\ \A c \in Channels(a) : a.reach[c] = b.reach[f[c]]
    BY <1>4, <1>5, <1>8 DEF Renumbers
  <2>. QED  BY <1>5, <1>9, <1>10, <2>1 DEF MovedBy, Width, Height, PortImage
<1>12. f \in Bijection(Channels(a), Channels(b))
  BY <1>4, <1>8
<1>13. ASSUME NEW c \in Channels(a)
       PROVE  Token(ChannelKeys(b, v), f[c]) = Token(ChannelKeys(a, u), c)
  <2>1. Token(ChannelKeys(b, v), f[c]) = Token(ChannelKeys(y, v), c)
    BY <1>4, <1>8 DEF Renumbers
  <2>2. ASSUME NEW d \in Channels(a) PROVE ChannelKey(y, d, v) = ChannelKey(a, d, u)
    BY <1>1, <1>3, <1>4, <1>6, <2>2, KeyMoves
  <2>3. ChannelKeys(y, v) = ChannelKeys(a, u)
    BY <1>4, <2>2 DEF ChannelKeys
  <2>. QED  BY <2>1, <2>3
<1>. QED  BY <1>1, <1>3, <1>11, <1>12, <1>13 DEF u, v

(* Zones whose ports all cross the rim share a signature only if one is    *)
(* the other turned, mirrored, moved, renumbered or with its items renamed *)
(* (the claim at the top of zone_cache.rs).                                *)
THEOREM SignatureShowsTheZone ==
  ASSUME NEW a, IsZone(a), AllCross(a), NEW b, IsZone(b), AllCross(b),
         Canonicalise(a).signature = Canonicalise(b).signature
  PROVE  SameUpToSymmetry(a, b)
<1>1. PICK o \in Orientations, f \in Bijection(Channels(a), Channels(b)) : MovedBy(a, b, o, f)
  BY CarriedOver
<1>2. f \in [Channels(a) -> Channels(b)]
  BY DEF Bijection, Injection
<1>. QED  BY <1>1, <1>2 DEF SameUpToSymmetry

(* What is led to, and that it is no more than any set that is closed.     *)
LEMMA LedToFacts ==
  ASSUME NEW ents, NEW start, start \subseteq ents, NEW next, next \subseteq ents \X ents
  PROVE  /\ start \subseteq LedTo(ents, start, next) /\ LedTo(ents, start, next) \subseteq ents
         /\ \A s \in next : s[1] \in LedTo(ents, start, next) => s[2] \in LedTo(ents, start, next)
         /\ \A S \in SUBSET ents :
              start \subseteq S /\ (\A s \in next : s[1] \in S => s[2] \in S)
                => LedTo(ents, start, next) \subseteq S
<1>1. ASSUME NEW s \in next PROVE s[1] \in ents /\ s[2] \in ents
  OBVIOUS
<1>. QED  BY <1>1 DEF LedTo

(* It is the same wherever the entities are carried.                       *)
LEMMA LedToMoves ==
  ASSUME NEW E, NEW F, NEW m \in Bijection(E, F), NEW start, start \subseteq E, NEW next, next \subseteq E \X E
  PROVE  LedTo(F, {m[e] : e \in start}, {<<m[s[1]], m[s[2]]>> : s \in next}) = {m[e] : e \in LedTo(E, start, next)}
<1> DEFINE L == LedTo(E, start, next)
           startF == {m[e] : e \in start}
           nextF == {<<m[s[1]], m[s[2]]>> : s \in next}
           G == LedTo(F, startF, nextF)
<1>1. /\ \A e \in E : m[e] \in F
      /\ \A d, e \in E : m[d] = m[e] => d = e
      /\ \A g \in F : \E e \in E : m[e] = g
  BY DEF Bijection, Injection, Surjection, IsInjective
<1>2. \A s \in next : s[1] \in E /\ s[2] \in E
  OBVIOUS
<1>3. startF \subseteq F /\ nextF \subseteq F \X F
  BY <1>1, <1>2
<1>4. /\ start \subseteq L /\ L \subseteq E
      /\ \A s \in next : s[1] \in L => s[2] \in L
      /\ \A S \in SUBSET E : start \subseteq S /\ (\A s \in next : s[1] \in S => s[2] \in S) => L \subseteq S
  BY LedToFacts
<1>5. /\ startF \subseteq G /\ G \subseteq F
      /\ \A s \in nextF : s[1] \in G => s[2] \in G
      /\ \A S \in SUBSET F : startF \subseteq S /\ (\A s \in nextF : s[1] \in S => s[2] \in S) => G \subseteq S
  <2> HIDE DEF startF, nextF
  <2>. QED  BY <1>3, LedToFacts
<1> HIDE DEF L, G
<1>6. G \subseteq {m[e] : e \in L}
  <2> DEFINE S == {m[e] : e \in L}
  <2>1. S \in SUBSET F /\ startF \subseteq S
    BY <1>1, <1>4
  <2>2. ASSUME NEW s \in next, m[s[1]] \in S PROVE m[s[2]] \in S
    <3>1. s[1] \in L
      BY <1>1, <1>2, <1>4, <2>2
    <3>. QED  BY <1>4, <3>1
  <2>3. \A t \in nextF : t[1] \in S => t[2] \in S
    BY <2>2
  <2> HIDE DEF S, startF, nextF
  <2>4. G \subseteq S
    BY <1>5, <2>1, <2>3
  <2>. QED  BY <2>4 DEF S
<1>7. \A e \in L : m[e] \in G
  <2> DEFINE U == {a \in E : m[a] \in G}
  <2>1. U \in SUBSET E /\ start \subseteq U
    BY <1>5
  <2>2. ASSUME NEW s \in next, s[1] \in U PROVE s[2] \in U
    <3>1. <<m[s[1]], m[s[2]]>> \in nextF
      OBVIOUS
    <3>2. m[s[2]] \in G
      <4> HIDE DEF nextF
      <4>. QED  BY <1>5, <2>2, <3>1
    <3>. QED  BY <1>2, <3>2
  <2> HIDE DEF U
  <2>3. L \subseteq U
    BY <1>4, <2>1, <2>2
  <2>. QED  BY <2>3 DEF U
<1>8. G = {m[e] : e \in L}
  BY <1>6, <1>7
<1>. QED  BY <1>8 DEF G, L

-----------------------------------------------------------------------------
(* What is taken back is what was there before.                            *)
LEMMA TileBack ==
  ASSUME NEW o \in Orientations, NEW w \in Int, NEW h \in Int, NEW t \in Int \X Int
  PROVE  TransformTileInverse(TransformTile(t, w, h, o), Width(w, h, o), Height(w, h, o), o) = t
<1>1. PICK x \in Int, y \in Int : t = <<x, y>>
  OBVIOUS
<1>2. o.rotation \in {0, 1, 2, 3} /\ o.reflect \in BOOLEAN
  BY EightOrientations
<1> SUFFICES ASSUME NEW r \in {0, 1, 2, 3}, o.rotation = r
             PROVE  TransformTileInverse(TransformTile(t, w, h, o), Width(w, h, o), Height(w, h, o), o) = t
  BY <1>2
<1>3. CASE r = 0
  BY <1>1, <1>2, <1>3 DEF TransformTileInverse, TransformTile, Turn, Width, Height
<1>4. CASE r = 1
  BY <1>1, <1>2, <1>4 DEF TransformTileInverse, TransformTile, Turn, Width, Height
<1>5. CASE r = 2
  BY <1>1, <1>2, <1>5 DEF TransformTileInverse, TransformTile, Turn, Width, Height
<1>6. CASE r = 3
  BY <1>1, <1>2, <1>6 DEF TransformTileInverse, TransformTile, Turn, Width, Height
<1>. QED  BY <1>3, <1>4, <1>5, <1>6

(* So is a direction that is taken back.                                   *)
LEMMA DirectionBack ==
  ASSUME NEW o \in Orientations, NEW d \in 0..3
  PROVE  TransformDirectionInverse(TransformDirection(d, o), o) = d
<1> DEFINE e == TransformDirection(d, o)
           back == (e + 4 - o.rotation) % 4
           at == IF o.reflect /\ d \in {1, 3} THEN 4 - d ELSE d
<1>1. o.rotation \in {0, 1, 2, 3} /\ o.reflect \in BOOLEAN /\ d \in {0, 1, 2, 3}
  BY EightOrientations
<1>2. e = IF at + o.rotation < 4 THEN at + o.rotation ELSE at + o.rotation - 4
  BY DirectionsTurn
<1> HIDE DEF e
<1>3. back = at
  BY <1>1, <1>2
<1>4. TransformDirectionInverse(e, o) = IF o.reflect /\ back % 2 = 1 THEN Mirrored(back) ELSE back
  BY DEF TransformDirectionInverse
<1> HIDE DEF back
<1>5. (at % 2 = 1 <=> at \in {1, 3}) /\ (at \in {1, 3} <=> d \in {1, 3})
  BY <1>1
<1>6. at \in {1, 3} => Mirrored(at) = 4 - at
  BY <1>1 DEF Mirrored
<1>7. TransformDirectionInverse(e, o) = d
  BY <1>1, <1>3, <1>4, <1>5, <1>6
<1>. QED  BY <1>7 DEF e

(* Two symmetries turn a direction as the one that they make together.     *)
LEMMA DirectionTwice ==
  ASSUME NEW o \in Orientations, NEW p \in Orientations, NEW d \in 0..3
  PROVE  TransformDirection(TransformDirection(d, o), p) = TransformDirection(d, After(o, p))
<1>1. After(o, p) \in Orientations /\ TransformDirection(d, o) \in 0..3
  BY Followed, DirectionsTurn
<1> DEFINE e == TransformDirection(d, o)
           at(x, q) == IF q.reflect /\ x \in {1, 3} THEN 4 - x ELSE x
           turn(x, q) == IF at(x, q) + q.rotation < 4 THEN at(x, q) + q.rotation ELSE at(x, q) + q.rotation - 4
<1>2. ASSUME NEW q \in Orientations, NEW x \in 0..3 PROVE TransformDirection(x, q) = turn(x, q)
  BY DirectionsTurn
<1>3. /\ e = turn(d, o) /\ TransformDirection(e, p) = turn(e, p)
      /\ TransformDirection(d, After(o, p)) = turn(d, After(o, p))
  BY <1>1, <1>2
<1>4. /\ o.rotation \in {0, 1, 2, 3} /\ o.reflect \in BOOLEAN
      /\ p.rotation \in {0, 1, 2, 3} /\ p.reflect \in BOOLEAN
  BY EightOrientations
<1>5. (o.reflect \/ ~o.reflect) /\ d \in {0, 1, 2, 3}
  OBVIOUS
<1> DEFINE q == After(o, p)
<1>6. /\ q.reflect <=> ~(o.reflect <=> p.reflect)
      /\ ~p.reflect => q.rotation = IF o.rotation + p.rotation < 4 THEN o.rotation + p.rotation
                                                               ELSE o.rotation + p.rotation - 4
      /\ p.reflect => q.rotation = IF p.rotation < o.rotation THEN 4 + p.rotation - o.rotation
                                                          ELSE p.rotation - o.rotation
  BY Followed
<1> SUFFICES turn(e, p) = turn(d, q)
  BY <1>3
<1>7. e = turn(d, o)
  BY <1>3
<1> HIDE DEF e, q
<1>8. ASSUME NEW r \in {0, 1, 2, 3}, o.rotation = r, NEW g \in {0, 1, 2, 3}, d = g PROVE turn(e, p) = turn(d, q)
  <2>1. CASE p.reflect /\ o.reflect
    BY <1>4, <1>6, <1>8, <1>7, <2>1
  <2>2. CASE p.reflect /\ ~o.reflect
    <3>1. q.reflect /\ q.rotation = IF p.rotation < r THEN 4 + p.rotation - r ELSE p.rotation - r
      BY <1>6, <1>8, <2>2
    <3>2. e = IF g + r < 4 THEN g + r ELSE g + r - 4
      BY <1>8, <1>7, <2>2
    <3>3. CASE r = 0
      BY <1>4, <1>8, <2>2, <3>1, <3>2, <3>3
    <3>4. CASE r = 1
      BY <1>4, <1>8, <2>2, <3>1, <3>2, <3>4
    <3>5. CASE r = 2
      BY <1>4, <1>8, <2>2, <3>1, <3>2, <3>5
    <3>6. CASE r = 3
      BY <1>4, <1>8, <2>2, <3>1, <3>2, <3>6
    <3>. QED  BY <3>3, <3>4, <3>5, <3>6
  <2>3. CASE ~p.reflect /\ o.reflect
    BY <1>4, <1>6, <1>8, <1>7, <2>3
  <2>4. CASE ~p.reflect /\ ~o.reflect
    BY <1>4, <1>6, <1>8, <1>7, <2>4
  <2>. QED  BY <2>1, <2>2, <2>3, <2>4
<1>. QED  BY <1>4, <1>5, <1>8

(* The tile ahead, by the direction.                                       *)
LEMMA AheadIs ==
  ASSUME NEW t \in Int \X Int, NEW d \in 0..3
  PROVE  /\ Ahead(t, d) \in Int \X Int
         /\ d = 0 => Ahead(t, d) = <<t[1], t[2] - 1>>
         /\ d = 1 => Ahead(t, d) = <<t[1] + 1, t[2]>>
         /\ d = 2 => Ahead(t, d) = <<t[1], t[2] + 1>>
         /\ d = 3 => Ahead(t, d) = <<t[1] - 1, t[2]>>
<1>1. d \in {0, 1, 2, 3}
  OBVIOUS
<1>. QED  BY <1>1 DEF Ahead

(* What lies ahead is turned with what it lies ahead of.                   *)
LEMMA AheadTurns ==
  ASSUME NEW o \in Orientations, NEW w \in Int, NEW h \in Int, NEW t \in Int \X Int, NEW d \in 0..3
  PROVE  TransformTile(Ahead(t, d), w, h, o) = Ahead(TransformTile(t, w, h, o), TransformDirection(d, o))
<1>1. PICK x \in Int, y \in Int : t = <<x, y>>
  OBVIOUS
<1> DEFINE u == TransformTile(t, w, h, o)
           e == TransformDirection(d, o)
           at == IF o.reflect /\ d \in {1, 3} THEN 4 - d ELSE d
           v == Ahead(u, e)
           s == Ahead(t, d)
<1>2. e \in 0..3 /\ e = IF at + o.rotation < 4 THEN at + o.rotation ELSE at + o.rotation - 4
  BY DirectionsTurn
<1>3. o.rotation \in {0, 1, 2, 3} /\ o.reflect \in BOOLEAN /\ d \in {0, 1, 2, 3}
  BY EightOrientations
<1>4. u \in Int \X Int
  BY TileMoves
<1> HIDE DEF e, u
<1>5. /\ e = 0 => v = <<u[1], u[2] - 1>>
      /\ e = 1 => v = <<u[1] + 1, u[2]>>
      /\ e = 2 => v = <<u[1], u[2] + 1>>
      /\ e = 3 => v = <<u[1] - 1, u[2]>>
  BY <1>2, <1>4, AheadIs
<1>6. /\ d = 0 => s = <<x, y - 1>>
      /\ d = 1 => s = <<x + 1, y>>
      /\ d = 2 => s = <<x, y + 1>>
      /\ d = 3 => s = <<x - 1, y>>
  BY <1>1, AheadIs
<1> HIDE DEF v, s
<1>7. TransformTile(s, w, h, o) = v
  <2>1. CASE o.rotation = 0
    BY <1>1, <1>2, <1>3, <1>5, <1>6, <2>1 DEF TransformTile, Turn, u
  <2>2. CASE o.rotation = 1
    BY <1>1, <1>2, <1>3, <1>5, <1>6, <2>2 DEF TransformTile, Turn, u
  <2>3. CASE o.rotation = 2
    BY <1>1, <1>2, <1>3, <1>5, <1>6, <2>3 DEF TransformTile, Turn, u
  <2>4. CASE o.rotation = 3
    BY <1>1, <1>2, <1>3, <1>5, <1>6, <2>4 DEF TransformTile, Turn, u
  <2>. QED  BY <1>3, <2>1, <2>2, <2>3, <2>4
<1>. QED  BY <1>7 DEF s, v, u, e

\* Where tile t of the world, in zone a, is carried when a solution of a is
\* replayed in b, which is a after the symmetry o.
WorldImage(a, b, o, t) ==
  LET u == TransformTile(<<t[1] - a.at[1], t[2] - a.at[2]>>, a.w, a.h, o)
  IN  <<u[1] + b.at[1], u[2] + b.at[2]>>

(* No two tiles are carried to one, and the tile ahead stays ahead.        *)
LEMMA TilesCarried ==
  ASSUME NEW a, IsZone(a), NEW b, IsZone(b), NEW o \in Orientations
  PROVE  /\ \A t \in Int \X Int : WorldImage(a, b, o, t) \in Int \X Int
         /\ \A s, t \in Int \X Int : WorldImage(a, b, o, s) = WorldImage(a, b, o, t) => s = t
         /\ \A t \in Int \X Int, d \in 0..3 :
              /\ Ahead(t, d) \in Int \X Int
              /\ WorldImage(a, b, o, Ahead(t, d)) = Ahead(WorldImage(a, b, o, t), TransformDirection(d, o))
<1>1. PICK i \in Int, j \in Int : a.at = <<i, j>>
  BY DEF IsZone
<1>2. PICK k \in Int, l \in Int : b.at = <<k, l>>
  BY DEF IsZone
<1>3. a.w \in Int /\ a.h \in Int
  BY DEF IsZone
<1>4. o.rotation \in {0, 1, 2, 3} /\ o.reflect \in BOOLEAN
  BY EightOrientations
<1> DEFINE img(t) == TransformTile(<<t[1] - i, t[2] - j>>, a.w, a.h, o)
<1>5. ASSUME NEW t \in Int \X Int
      PROVE  /\ <<t[1] - i, t[2] - j>> \in Int \X Int /\ img(t) \in Int \X Int
             /\ WorldImage(a, b, o, t) = <<img(t)[1] + k, img(t)[2] + l>>
  <2>1. <<t[1] - i, t[2] - j>> \in Int \X Int
    OBVIOUS
  <2>2. img(t) \in Int \X Int
    BY <1>3, <2>1, TileMoves
  <2>. QED  BY <1>1, <1>2, <2>1, <2>2 DEF WorldImage
<1>6. ASSUME NEW s \in Int \X Int, NEW t \in Int \X Int, WorldImage(a, b, o, s) = WorldImage(a, b, o, t) PROVE s = t
  <2>1. img(s) = img(t)
    <3>1. img(s) \in Int \X Int /\ img(t) \in Int \X Int
      BY <1>5
    <3>2. <<img(s)[1] + k, img(s)[2] + l>> = <<img(t)[1] + k, img(t)[2] + l>>
      BY <1>5, <1>6
    <3> DEFINE u == img(s)
               v == img(t)
    <3> HIDE DEF u, v
    <3>3. u = v
      <4>1. u \in Int \X Int /\ v \in Int \X Int /\ <<u[1] + k, u[2] + l>> = <<v[1] + k, v[2] + l>>
        BY <3>1, <3>2 DEF u, v
      <4>2. u[1] = v[1] /\ u[2] = v[2]
        BY <4>1
      <4>. QED  BY <4>1, <4>2
    <3>. QED  BY <3>3 DEF u, v
  <2>2. <<s[1] - i, s[2] - j>> = <<t[1] - i, t[2] - j>>
    BY <1>3, <1>5, <2>1, TilesApart
  <2>. QED  BY <2>2
<1>7. ASSUME NEW t \in Int \X Int, NEW d \in 0..3
      PROVE  /\ Ahead(t, d) \in Int \X Int
             /\ WorldImage(a, b, o, Ahead(t, d)) = Ahead(WorldImage(a, b, o, t), TransformDirection(d, o))
  <2> DEFINE u == <<t[1] - i, t[2] - j>>
             n == Ahead(t, d)
             e == TransformDirection(d, o)
  <2>1. d \in {0, 1, 2, 3} /\ u \in Int \X Int /\ e \in 0..3
    BY DirectionsTurn
  <2>2. n \in Int \X Int
    BY AheadIs
  <2>3. <<n[1] - i, n[2] - j>> = Ahead(u, d)
    <3> DEFINE s == Ahead(u, d)
    <3>1. /\ d = 0 => s = <<u[1], u[2] - 1>> /\ n = <<t[1], t[2] - 1>>
          /\ d = 1 => s = <<u[1] + 1, u[2]>> /\ n = <<t[1] + 1, t[2]>>
          /\ d = 2 => s = <<u[1], u[2] + 1>> /\ n = <<t[1], t[2] + 1>>
          /\ d = 3 => s = <<u[1] - 1, u[2]>> /\ n = <<t[1] - 1, t[2]>>
      BY <2>1, AheadIs
    <3> HIDE DEF s, n
    <3>2. PICK x \in Int, y \in Int : t = <<x, y>>
      OBVIOUS
    <3>3. <<n[1] - i, n[2] - j>> = s
      BY <2>1, <3>1, <3>2
    <3>. QED  BY <3>3 DEF s
  <2>4. img(n) = Ahead(img(t), e)
    BY <1>3, <2>1, <2>3, AheadTurns
  <2> DEFINE v == img(t)
  <2>5. v \in Int \X Int /\ WorldImage(a, b, o, t) = <<v[1] + k, v[2] + l>>
    BY <1>5
  <2>6. WorldImage(a, b, o, n) = <<Ahead(v, e)[1] + k, Ahead(v, e)[2] + l>>
    BY <1>5, <2>2, <2>4
  <2> HIDE DEF v, e, n
  <2>7. <<Ahead(v, e)[1] + k, Ahead(v, e)[2] + l>> = Ahead(<<v[1] + k, v[2] + l>>, e)
    <3>1. e \in {0, 1, 2, 3} /\ <<v[1] + k, v[2] + l>> \in Int \X Int
      BY <2>1, <2>5
    <3> DEFINE u1 == <<v[1] + k, v[2] + l>>
               s == Ahead(u1, e)
               q == Ahead(v, e)
    <3>2. /\ e = 0 => s = <<u1[1], u1[2] - 1>> /\ q = <<v[1], v[2] - 1>>
          /\ e = 1 => s = <<u1[1] + 1, u1[2]>> /\ q = <<v[1] + 1, v[2]>>
          /\ e = 2 => s = <<u1[1], u1[2] + 1>> /\ q = <<v[1], v[2] + 1>>
          /\ e = 3 => s = <<u1[1] - 1, u1[2]>> /\ q = <<v[1] - 1, v[2]>>
      BY <2>1, <2>5, <3>1, AheadIs
    <3> HIDE DEF s, q
    <3>3. PICK x \in Int, y \in Int : v = <<x, y>>
      BY <2>5
    <3>4. <<q[1] + k, q[2] + l>> = s
      BY <3>1, <3>2, <3>3
    <3>. QED  BY <3>4 DEF s, q
  <2>8. WorldImage(a, b, o, n) = Ahead(WorldImage(a, b, o, t), e)
    BY <2>5, <2>6, <2>7
  <2>. QED  BY <2>2, <2>8 DEF e, n
<1>8. ASSUME NEW t \in Int \X Int PROVE WorldImage(a, b, o, t) \in Int \X Int
  <2> DEFINE u == img(t)
  <2>1. u \in Int \X Int /\ WorldImage(a, b, o, t) = <<u[1] + k, u[2] + l>>
    BY <1>5
  <2> HIDE DEF u
  <2>. QED  BY <2>1
<1> HIDE DEF img
<1>. QED  BY <1>6, <1>7, <1>8

\* Entities have a place and a direction; m carries them from zone a to b.
Laid(ents) == \A e \in ents : e.tile \in Int \X Int /\ e.dir \in 0..3
Carries(m, ents, a, b, o) ==
  \A e \in ents : m[e].tile = WorldImage(a, b, o, e.tile) /\ m[e].dir = TransformDirection(e.dir, o)

(* What leads on in a zone leads on in its image.                          *)
LEMMA StepsMove ==
  ASSUME NEW a, IsZone(a), NEW b, IsZone(b), NEW o \in Orientations,
         NEW E, Laid(E), NEW F, NEW m \in Bijection(E, F), Carries(m, E, a, b, o)
  PROVE  /\ Steps(F) = {<<m[s[1]], m[s[2]]>> : s \in Steps(E)}
         /\ \A T \in SUBSET (Int \X Int) :
              On(F, {WorldImage(a, b, o, t) : t \in T}) = {m[e] : e \in On(E, T)}
<1> DEFINE img(t) == WorldImage(a, b, o, t)
<1>1. /\ \A e \in E : m[e] \in F
      /\ \A g \in F : \E e \in E : m[e] = g
  BY DEF Bijection, Injection, Surjection
<1>2. /\ \A t \in Int \X Int : img(t) \in Int \X Int
      /\ \A s, t \in Int \X Int : img(s) = img(t) => s = t
      /\ \A t \in Int \X Int, d \in 0..3 :
           Ahead(t, d) \in Int \X Int /\ img(Ahead(t, d)) = Ahead(img(t), TransformDirection(d, o))
  BY TilesCarried
<1>3. \A e \in E : /\ e.tile \in Int \X Int /\ e.dir \in 0..3
                   /\ m[e].tile = img(e.tile) /\ m[e].dir = TransformDirection(e.dir, o)
  BY DEF Laid, Carries
<1> HIDE DEF img
<1>4. ASSUME NEW c \in E, NEW e \in E
      PROVE  Ahead(m[c].tile, m[c].dir) = m[e].tile <=> Ahead(c.tile, c.dir) = e.tile
  <2> DEFINE n == Ahead(c.tile, c.dir)
  <2>1. n \in Int \X Int /\ img(n) = Ahead(img(c.tile), TransformDirection(c.dir, o))
    BY <1>2, <1>3
  <2>2. Ahead(m[c].tile, m[c].dir) = img(n) /\ m[e].tile = img(e.tile) /\ e.tile \in Int \X Int
    BY <1>3, <2>1
  <2> HIDE DEF n
  <2>3. img(n) = img(e.tile) <=> n = e.tile
    BY <1>2, <2>1, <2>2
  <2>. QED  BY <2>2, <2>3 DEF n
<1>5. Steps(F) = {<<m[s[1]], m[s[2]]>> : s \in Steps(E)}
  <2>1. ASSUME NEW s \in Steps(E) PROVE <<m[s[1]], m[s[2]]>> \in Steps(F)
    <3>1. s[1] \in E /\ s[2] \in E /\ Ahead(s[1].tile, s[1].dir) = s[2].tile
      BY DEF Steps
    <3>. QED  BY <1>1, <1>4, <3>1 DEF Steps
  <2>2. ASSUME NEW g \in Steps(F) PROVE \E s \in Steps(E) : g = <<m[s[1]], m[s[2]]>>
    <3>1. PICK c \in F, d \in F : g = <<c, d>> /\ Ahead(c.tile, c.dir) = d.tile
      BY DEF Steps
    <3>2. PICK x \in E, y \in E : m[x] = c /\ m[y] = d
      BY <1>1
    <3>3. <<x, y>> \in Steps(E)
      BY <1>4, <3>1, <3>2 DEF Steps
    <3>. QED  BY <3>1, <3>2, <3>3
  <2>. QED  BY <2>1, <2>2
<1>6. ASSUME NEW T \in SUBSET (Int \X Int)
      PROVE  On(F, {img(t) : t \in T}) = {m[e] : e \in On(E, T)}
  <2>1. ASSUME NEW e \in E PROVE m[e].tile \in {img(t) : t \in T} <=> e.tile \in T
    <3>1. m[e].tile = img(e.tile) /\ e.tile \in Int \X Int
      BY <1>3
    <3>2. \A t \in T : img(t) = img(e.tile) => t = e.tile
      BY <1>2, <3>1
    <3>. QED  BY <3>1, <3>2
  <2>. QED  BY <1>1, <2>1 DEF On
<1>. QED  BY <1>5, <1>6 DEF img

(* Where belts lead, and whence, is carried with them.                     *)
LEMMA WaysMove ==
  ASSUME NEW a, IsZone(a), NEW b, IsZone(b), NEW o \in Orientations,
         NEW E, Laid(E), NEW F, NEW m \in Bijection(E, F), Carries(m, E, a, b, o),
         NEW T \in SUBSET (Int \X Int)
  PROVE  /\ Downstream(F, {WorldImage(a, b, o, t) : t \in T}) = {m[e] : e \in Downstream(E, T)}
         /\ Upstream(F, {WorldImage(a, b, o, t) : t \in T}) = {m[e] : e \in Upstream(E, T)}
<1> DEFINE S == On(E, T)
           N == Steps(E)
           B == {<<s[2], s[1]>> : s \in N}
<1>1. S \subseteq E /\ N \subseteq E \X E
  BY DEF On, Steps
<1>2. /\ Steps(F) = {<<m[s[1]], m[s[2]]>> : s \in N}
      /\ On(F, {WorldImage(a, b, o, t) : t \in T}) = {m[e] : e \in S}
  BY StepsMove
<1> HIDE DEF S, N
<1>3. B \subseteq E \X E
  BY <1>1
<1>4. {<<s[2], s[1]>> : s \in Steps(F)} = {<<m[s[1]], m[s[2]]>> : s \in B}
  <2>1. ASSUME NEW s \in N PROVE <<m[s[2]], m[s[1]]>> \in {<<m[q[1]], m[q[2]]>> : q \in B}
    <3>1. <<s[2], s[1]>> \in B
      OBVIOUS
    <3> HIDE DEF B
    <3>. QED  BY <3>1
  <2>2. ASSUME NEW q \in B PROVE \E s \in N : <<m[q[1]], m[q[2]]>> = <<m[s[2]], m[s[1]]>>
    <3>1. PICK s \in N : q = <<s[2], s[1]>>
      OBVIOUS
    <3>2. q[1] = s[2] /\ q[2] = s[1]
      BY <3>1
    <3>. QED  BY <3>2
  <2>3. {<<s[2], s[1]>> : s \in Steps(F)} = {<<m[s[2]], m[s[1]]>> : s \in N}
    <3>1. \A s : <<m[s[1]], m[s[2]]>>[1] = m[s[1]] /\ <<m[s[1]], m[s[2]]>>[2] = m[s[2]]
      OBVIOUS
    <3>2. ASSUME NEW g \in Steps(F) PROVE \E s \in N : <<g[2], g[1]>> = <<m[s[2]], m[s[1]]>>
      BY <1>2
    <3>3. ASSUME NEW s \in N PROVE \E g \in Steps(F) : <<g[2], g[1]>> = <<m[s[2]], m[s[1]]>>
      <4>1. <<m[s[1]], m[s[2]]>> \in Steps(F)
        BY <1>2
      <4>. QED  BY <3>1, <4>1
    <3>. QED  BY <3>2, <3>3
  <2> HIDE DEF B
  <2>. QED  BY <2>1, <2>2, <2>3
<1>5. LedTo(F, {m[e] : e \in S}, {<<m[s[1]], m[s[2]]>> : s \in N}) = {m[e] : e \in LedTo(E, S, N)}
  BY <1>1, LedToMoves
<1>6. LedTo(F, {m[e] : e \in S}, {<<m[s[1]], m[s[2]]>> : s \in B}) = {m[e] : e \in LedTo(E, S, B)}
  <2> HIDE DEF B
  <2>. QED  BY <1>1, <1>3, LedToMoves
<1>. QED  BY <1>2, <1>4, <1>5, <1>6 DEF Downstream, Upstream, S, N

(* A port is carried with the tile that it constrains.                     *)
LEMMA PortTilesMove ==
  ASSUME NEW a, IsZone(a), AllCross(a), NEW b, IsZone(b), AllCross(b), NEW o \in Orientations,
         NEW f \in [Channels(a) -> Channels(b)], MovedBy(a, b, o, f)
  PROVE  /\ \A p \in a.ports : PortTile(a, p) \in Int \X Int
         /\ b.ports = {PortImage(p, a, o, f) : p \in a.ports}
         /\ \A p \in a.ports : LET q == PortImage(p, a, o, f)
                               IN  /\ PortTile(b, q) = WorldImage(a, b, o, PortTile(a, p))
                                   /\ q.dir = TransformDirection(p.dir, o)
                                   /\ q.ch = f[p.ch] /\ q.input = p.input /\ ~q.interior /\ ~p.interior
         /\ \A in \in BOOLEAN :
              /\ PortTiles(a, in) \in SUBSET (Int \X Int)
              /\ PortTiles(b, in) = {WorldImage(a, b, o, t) : t \in PortTiles(a, in)}
<1>1. IsZone(a) /\ IsInjective(f) /\ b.ports = {PortImage(p, a, o, f) : p \in a.ports}
  BY DEF MovedBy, PortImage
<1>2. PICK i \in Int, j \in Int : a.at = <<i, j>>
  BY DEF IsZone
<1>3. \A p \in a.ports : LET q == PortImage(p, a, o, f)
                         IN  /\ q.tile = TransformTile(p.tile, a.w, a.h, o)
                             /\ q.dir = TransformDirection(p.dir, o)
                             /\ q.ch = f[p.ch] /\ q.input = p.input /\ q.interior = p.interior
  BY <1>1, PortsApart
<1>4. ASSUME NEW p \in a.ports, NEW q, q = PortImage(p, a, o, f)
      PROVE  /\ PortTile(a, p) \in Int \X Int
             /\ PortTile(b, q) = WorldImage(a, b, o, PortTile(a, p))
             /\ q.dir = TransformDirection(p.dir, o)
             /\ q.ch = f[p.ch] /\ q.input = p.input /\ ~q.interior /\ ~p.interior
  <2>1. p \in PortType /\ ~p.interior
    BY <1>1 DEF IsZone, PortType, AllCross, Crosses
  <2>2. /\ q.tile = TransformTile(p.tile, a.w, a.h, o) /\ q.dir = TransformDirection(p.dir, o)
        /\ q.ch = f[p.ch] /\ q.input = p.input /\ q.interior = p.interior
    BY <1>3, <1>4
  <2>3. PICK x \in Int, y \in Int : p.tile = <<x, y>>
    BY <2>1 DEF PortType
  <2>4. PortTile(a, p) = <<x + i, y + j>>
    BY <1>2, <2>1, <2>3 DEF PortTile
  <2>5. PortTile(b, q) = <<q.tile[1] + b.at[1], q.tile[2] + b.at[2]>>
    BY <2>1, <2>2 DEF PortTile
  <2>6. <<PortTile(a, p)[1] - a.at[1], PortTile(a, p)[2] - a.at[2]>> = p.tile
    BY <1>2, <2>3, <2>4
  <2>. QED  BY <2>1, <2>2, <2>4, <2>5, <2>6 DEF WorldImage
<1>5. ASSUME NEW in \in BOOLEAN
      PROVE  /\ PortTiles(a, in) \in SUBSET (Int \X Int)
             /\ PortTiles(b, in) = {WorldImage(a, b, o, t) : t \in PortTiles(a, in)}
  <2> DEFINE M(p) == PortImage(p, a, o, f)
             img(t) == WorldImage(a, b, o, t)
  <2>1. \A p \in a.ports : /\ PortTile(a, p) \in Int \X Int
                           /\ PortTile(b, M(p)) = img(PortTile(a, p)) /\ M(p).input = p.input
    BY <1>4
  <2>2. b.ports = {M(p) : p \in a.ports}
    BY <1>1
  <2> HIDE DEF M, img
  <2>3. PortTiles(a, in) \in SUBSET (Int \X Int)
    BY <2>1 DEF PortTiles
  <2>4. PortTiles(b, in) = {img(t) : t \in PortTiles(a, in)}
    BY <2>1, <2>2 DEF PortTiles
  <2>. QED  BY <2>3, <2>4 DEF img
<1>. QED  BY <1>1, <1>4, <1>5

(* What is pruned in a zone is what is pruned in its image.                *)
LEMMA PruneMoves ==
  ASSUME NEW a, IsZone(a), AllCross(a), NEW b, IsZone(b), AllCross(b), NEW o \in Orientations,
         NEW f \in [Channels(a) -> Channels(b)], MovedBy(a, b, o, f),
         NEW E, Laid(E), NEW F, NEW m \in Bijection(E, F), Carries(m, E, a, b, o)
  PROVE  PruneDangling(b, F) = {m[e] : e \in PruneDangling(a, E)}
<1> DEFINE img(t) == WorldImage(a, b, o, t)
           M(p) == PortImage(p, a, o, f)
           lost(z, ents) == \E p \in z.ports : ~p.interior /\ On(ents, {PortTile(z, p)}) = {}
           kept(z, ents) == Downstream(ents, PortTiles(z, TRUE)) \intersect Upstream(ents, PortTiles(z, FALSE))
<1>1. /\ b.ports = {M(p) : p \in a.ports}
      /\ \A p \in a.ports : /\ PortTile(a, p) \in Int \X Int /\ PortTile(b, M(p)) = img(PortTile(a, p))
                            /\ ~M(p).interior /\ ~p.interior
      /\ \A in \in BOOLEAN : PortTiles(a, in) \in SUBSET (Int \X Int)
      /\ \A in \in BOOLEAN : PortTiles(b, in) = {img(t) : t \in PortTiles(a, in)}
  BY PortTilesMove
<1>2. \A d, e \in E : m[d] = m[e] => d = e
  BY DEF Bijection, Injection, IsInjective
<1>3. lost(b, F) <=> lost(a, E)
  <2>1. ASSUME NEW p \in a.ports
        PROVE  On(F, {PortTile(b, M(p))}) = {} <=> On(E, {PortTile(a, p)}) = {}
    <3> DEFINE t == PortTile(a, p)
               T == {t}
    <3>1. T \in SUBSET (Int \X Int)
      BY <1>1
    <3>2. {img(s) : s \in T} = {PortTile(b, M(p))}
      BY <1>1
    <3> HIDE DEF T, img, M
    <3>3. On(F, {img(s) : s \in T}) = {m[e] : e \in On(E, T)}
      BY <3>1, StepsMove DEF img
    <3>4. On(F, {PortTile(b, M(p))}) = {m[e] : e \in On(E, T)}
      BY <3>2, <3>3
    <3>. QED  BY <3>4 DEF T
  <2> HIDE DEF M
  <2>. QED  BY <1>1, <2>1
<1>4. kept(b, F) = {m[e] : e \in kept(a, E)}
  <2> DEFINE D == Downstream(E, PortTiles(a, TRUE))
             U == Upstream(E, PortTiles(a, FALSE))
  <2>1. Downstream(F, PortTiles(b, TRUE)) = {m[e] : e \in D}
    <3> DEFINE T == PortTiles(a, TRUE)
    <3>1. T \in SUBSET (Int \X Int)
      BY <1>1
    <3> HIDE DEF T
    <3>2. Downstream(F, {img(t) : t \in T}) = {m[e] : e \in Downstream(E, T)}
      BY <3>1, WaysMove
    <3>. QED  BY <1>1, <3>2 DEF T
  <2>2. Upstream(F, PortTiles(b, FALSE)) = {m[e] : e \in U}
    <3> DEFINE T == PortTiles(a, FALSE)
    <3>1. T \in SUBSET (Int \X Int)
      BY <1>1
    <3> HIDE DEF T
    <3>2. Upstream(F, {img(t) : t \in T}) = {m[e] : e \in Upstream(E, T)}
      BY <3>1, WaysMove
    <3>. QED  BY <1>1, <3>2 DEF T
  <2>3. D \subseteq E /\ U \subseteq E
    BY DEF Downstream, Upstream, LedTo
  <2> HIDE DEF D, U
  <2>4. {m[e] : e \in D} \intersect {m[e] : e \in U} = {m[e] : e \in D \intersect U}
    BY <1>2, <2>3
  <2>. QED  BY <2>1, <2>2, <2>4 DEF D, U
<1>5. /\ PruneDangling(a, E) = IF lost(a, E) THEN {} ELSE kept(a, E)
      /\ PruneDangling(b, F) = IF lost(b, F) THEN {} ELSE kept(b, F)
  BY DEF PruneDangling
<1> HIDE DEF lost, kept
<1>. QED  BY <1>3, <1>4, <1>5

(* Downstream and upstream, step by step.                                  *)
LEMMA Ways ==
  ASSUME NEW ents, NEW tiles
  PROVE  LET D == Downstream(ents, tiles)
             U == Upstream(ents, tiles)
         IN  /\ D \subseteq ents /\ U \subseteq ents
             /\ \A e \in ents : e.tile \in tiles => e \in D /\ e \in U
             /\ \A c, e \in ents : Ahead(c.tile, c.dir) = e.tile =>
                  (c \in D => e \in D) /\ (e \in U => c \in U)
             /\ \A S \in SUBSET ents :
                  /\ \A e \in ents : e.tile \in tiles => e \in S
                  /\ \A c \in S, e \in ents : Ahead(c.tile, c.dir) = e.tile => e \in S
                  => D \subseteq S
<1> DEFINE D == Downstream(ents, tiles)
           U == Upstream(ents, tiles)
           A == On(ents, tiles)
           N == Steps(ents)
           B == {<<s[2], s[1]>> : s \in N}
<1>1. A \subseteq ents /\ \A e \in ents : e \in A <=> e.tile \in tiles
  BY DEF On
<1>2. /\ N \subseteq ents \X ents
      /\ \A c, e \in ents : <<c, e>> \in N <=> Ahead(c.tile, c.dir) = e.tile
  BY DEF Steps
<1>3. B \subseteq ents \X ents
  <2> HIDE DEF N
  <2>. QED  BY <1>2
<1>4. \A c, e \in ents : <<c, e>> \in N => <<e, c>> \in B
  <2> SUFFICES ASSUME NEW c \in ents, NEW e \in ents, <<c, e>> \in N PROVE <<e, c>> \in B
    OBVIOUS
  <2>1. <<<<c, e>>[2], <<c, e>>[1]>> \in B
    <3> HIDE DEF N
    <3>. QED  OBVIOUS
  <2> HIDE DEF B, N
  <2>. QED  BY <2>1
<1>5. D = LedTo(ents, A, N) /\ U = LedTo(ents, A, B)
  BY DEF Downstream, Upstream
<1> HIDE DEF D, U, A, N, B
<1>6. /\ A \subseteq D /\ D \subseteq ents
      /\ \A s \in N : s[1] \in D => s[2] \in D
      /\ \A S \in SUBSET ents : A \subseteq S /\ (\A s \in N : s[1] \in S => s[2] \in S) => D \subseteq S
  BY <1>1, <1>2, <1>5, LedToFacts
<1>7. /\ A \subseteq U /\ U \subseteq ents
      /\ \A s \in B : s[1] \in U => s[2] \in U
  BY <1>1, <1>3, <1>5, LedToFacts
<1>8. ASSUME NEW c \in ents, NEW e \in ents, Ahead(c.tile, c.dir) = e.tile
      PROVE  (c \in D => e \in D) /\ (e \in U => c \in U)
  <2>1. <<c, e>> \in N /\ <<e, c>> \in B
    BY <1>2, <1>4, <1>8
  <2>2. /\ <<c, e>>[1] \in D => <<c, e>>[2] \in D
        /\ <<e, c>>[1] \in U => <<e, c>>[2] \in U
    BY <1>6, <1>7, <2>1
  <2>. QED  BY <2>2
<1>9. ASSUME NEW S \in SUBSET ents, \A e \in ents : e.tile \in tiles => e \in S,
             \A c \in S, e \in ents : Ahead(c.tile, c.dir) = e.tile => e \in S
      PROVE  D \subseteq S
  <2>1. ASSUME NEW s \in N, s[1] \in S PROVE s[2] \in S
    <3>1. s[1] \in ents /\ s[2] \in ents /\ s = <<s[1], s[2]>>
      BY <1>2
    <3>2. Ahead(s[1].tile, s[1].dir) = s[2].tile
      BY <1>2, <3>1
    <3>. QED  BY <1>9, <2>1, <3>1, <3>2
  <2>. QED  BY <1>1, <1>6, <1>9, <2>1
<1>. QED  BY <1>1, <1>6, <1>7, <1>8, <1>9 DEF D, U

\* The two halves of what is asked of a solution.
OverFreeTiles(z, ents) ==
  \A e \in ents : /\ e.tile \in {<<t[1] + z.at[1], t[2] + z.at[2]>> : t \in ZoneTiles(z) \ z.forbidden}
                  /\ On(ents, {e.tile}) = {e}
Fed(z, ents, p) ==
  /\ \A e \in Downstream(ents, {PortTile(z, p)}) : e.item = z.item[p.ch]
  /\ \E q \in z.ports : /\ ~q.input /\ q.ch = p.ch
                        /\ \E e \in Downstream(ents, {PortTile(z, p)}) : e.tile = PortTile(z, q) /\ e.dir = q.dir

(* These halves are the whole.                                             *)
LEMMA SolvesIs ==
  ASSUME NEW z, NEW ents
  PROVE  Solves(z, ents) <=> OverFreeTiles(z, ents) /\ \A p \in z.ports : p.input => Fed(z, ents, p)
BY DEF Solves, OverFreeTiles, Fed

(* What is left of a solution is a solution.                               *)
LEMMA PruneSolves ==
  ASSUME NEW z, NEW ents, Solves(z, ents), PruneDangling(z, ents) # {},
         \A p \in z.ports : p.input \in BOOLEAN
  PROVE  Solves(z, PruneDangling(z, ents))
<1> DEFINE D == Downstream(ents, PortTiles(z, TRUE))
           U == Upstream(ents, PortTiles(z, FALSE))
           Q == PruneDangling(z, ents)
<1>1. Q = D \intersect U
  <2> DEFINE lost == \E p \in z.ports : ~p.interior /\ On(ents, {PortTile(z, p)}) = {}
  <2>1. Q = IF lost THEN {} ELSE D \intersect U
    BY DEF PruneDangling
  <2>2. ~lost
    <3> HIDE DEF lost, D, U
    <3>1. lost => Q = {}
      BY <2>1
    <3>. QED  BY <3>1
  <2> HIDE DEF lost, D, U
  <2>. QED  BY <2>1, <2>2
<1>2. /\ D \subseteq ents /\ U \subseteq ents
      /\ \A e \in ents : e.tile \in PortTiles(z, TRUE) => e \in D
      /\ \A e \in ents : e.tile \in PortTiles(z, FALSE) => e \in U
      /\ \A c, e \in ents : Ahead(c.tile, c.dir) = e.tile => (c \in D => e \in D) /\ (e \in U => c \in U)
  BY Ways
<1>3. \A p \in z.ports : PortTile(z, p) \in PortTiles(z, p.input)
  BY DEF PortTiles
<1> HIDE DEF D, U, Q
<1>4. OverFreeTiles(z, ents) /\ \A p \in z.ports : p.input => Fed(z, ents, p)
  BY SolvesIs
<1>5. OverFreeTiles(z, Q)
  <2>1. \A e \in Q : e \in ents /\ On(Q, {e.tile}) \subseteq On(ents, {e.tile}) /\ e \in On(Q, {e.tile})
    BY <1>1, <1>2 DEF On
  <2> DEFINE free == {<<t[1] + z.at[1], t[2] + z.at[2]>> : t \in ZoneTiles(z) \ z.forbidden}
  <2>2. \A e \in ents : e.tile \in free /\ On(ents, {e.tile}) = {e}
    BY <1>4 DEF OverFreeTiles
  <2> HIDE DEF free
  <2>3. ASSUME NEW e \in Q PROVE e.tile \in free /\ On(Q, {e.tile}) = {e}
    <3> DEFINE S == On(Q, {e.tile})
               T == On(ents, {e.tile})
    <3>1. S \subseteq T /\ e \in S /\ T = {e} /\ e.tile \in free
      BY <2>1, <2>2
    <3> HIDE DEF S, T
    <3>2. S = {e}
      BY <3>1
    <3>. QED  BY <3>1, <3>2 DEF S
  <2>. QED  BY <2>3 DEF OverFreeTiles, free
<1>6. ASSUME NEW p \in z.ports, p.input PROVE Fed(z, Q, p)
  <2> DEFINE S == {PortTile(z, p)}
             big == Downstream(ents, S)
             small == Downstream(Q, S)
  <2>1. /\ big \subseteq ents
        /\ \A e \in ents : e.tile \in S => e \in big
        /\ \A c, e \in ents : Ahead(c.tile, c.dir) = e.tile => (c \in big => e \in big)
        /\ \A T \in SUBSET ents :
             /\ \A e \in ents : e.tile \in S => e \in T
             /\ \A c \in T, e \in ents : Ahead(c.tile, c.dir) = e.tile => e \in T
             => big \subseteq T
    BY Ways
  <2>2. /\ small \subseteq Q
        /\ \A e \in Q : e.tile \in S => e \in small
        /\ \A c, e \in Q : Ahead(c.tile, c.dir) = e.tile => (c \in small => e \in small)
        /\ \A T \in SUBSET Q :
             /\ \A e \in Q : e.tile \in S => e \in T
             /\ \A c \in T, e \in Q : Ahead(c.tile, c.dir) = e.tile => e \in T
             => small \subseteq T
    BY Ways
  <2>3. \A t \in S : t \in PortTiles(z, TRUE)
    BY <1>3, <1>6
  <2>4. PICK q \in z.ports, e \in big :
          ~q.input /\ q.ch = p.ch /\ e.tile = PortTile(z, q) /\ e.dir = q.dir
    BY <1>4, <1>6 DEF Fed
  <2>5. \A c \in big : c.item = z.item[p.ch]
    BY <1>4, <1>6 DEF Fed
  <2>6. e.tile \in PortTiles(z, FALSE)
    BY <1>3, <2>4
  <2> HIDE DEF S, big, small
  <2>7. small \subseteq big
    <3> DEFINE T == big \intersect Q
    <3>1. T \in SUBSET Q /\ \A c \in Q : c.tile \in S => c \in T
      BY <1>1, <1>2, <2>1
    <3>2. \A c \in T, d \in Q : Ahead(c.tile, c.dir) = d.tile => d \in T
      BY <1>1, <1>2, <2>1
    <3> HIDE DEF T
    <3>3. small \subseteq T
      BY <2>2, <3>1, <3>2
    <3>. QED  BY <3>3 DEF T
  <2>8. e \in small
    <3> DEFINE T == {c \in ents : c \in U => c \in small}
    <3>1. \A c \in ents : c.tile \in S => c \in T
      BY <1>1, <1>2, <2>2, <2>3
    <3>2. ASSUME NEW c \in T, NEW d \in ents, Ahead(c.tile, c.dir) = d.tile, d \in U PROVE d \in small
      <4>1. c \in ents /\ c \in U
        BY <1>2, <3>2
      <4>2. c \in small /\ c \in Q
        BY <2>2, <4>1
      <4>3. d \in Q
        BY <1>1, <1>2, <3>2, <4>1, <4>2
      <4>. QED  BY <2>2, <3>2, <4>2, <4>3
    <3>3. T \in SUBSET ents /\ \A c \in T, d \in ents : Ahead(c.tile, c.dir) = d.tile => d \in T
      BY <3>2
    <3>4. \A c \in T : c \in U => c \in small
      OBVIOUS
    <3> HIDE DEF T
    <3>5. big \subseteq T
      BY <2>1, <3>1, <3>3
    <3>6. e \in ents /\ e \in U
      BY <1>2, <2>1, <2>4, <2>6
    <3>. QED  BY <2>4, <3>4, <3>5, <3>6
  <2>9. (\A c \in small : c.item = z.item[p.ch]) /\ \E g \in small : g.tile = PortTile(z, q) /\ g.dir = q.dir
    BY <2>4, <2>5, <2>7, <2>8
  <2>. QED  BY <2>4, <2>9 DEF Fed, small, S
<1>7. Solves(z, Q)
  BY <1>5, <1>6, SolvesIs
<1>. QED  BY <1>7 DEF Q

(* The tiles of a zone are carried to those of its image.                  *)
LEMMA TileInside ==
  ASSUME NEW o \in Orientations, NEW w \in Nat, NEW h \in Nat, NEW t \in (0 .. w - 1) \X (0 .. h - 1)
  PROVE  TransformTile(t, w, h, o) \in (0 .. Width(w, h, o) - 1) \X (0 .. Height(w, h, o) - 1)
<1>1. PICK x \in 0 .. w - 1, y \in 0 .. h - 1 : t = <<x, y>>
  OBVIOUS
<1>2. o.rotation \in {0, 1, 2, 3} /\ o.reflect \in BOOLEAN
  BY EightOrientations
<1>3. CASE o.rotation = 0
  BY <1>1, <1>2, <1>3 DEF TransformTile, Turn, Width, Height
<1>4. CASE o.rotation = 1
  BY <1>1, <1>2, <1>4 DEF TransformTile, Turn, Width, Height
<1>5. CASE o.rotation = 2
  BY <1>1, <1>2, <1>5 DEF TransformTile, Turn, Width, Height
<1>6. CASE o.rotation = 3
  BY <1>1, <1>2, <1>6 DEF TransformTile, Turn, Width, Height
<1>. QED  BY <1>2, <1>3, <1>4, <1>5, <1>6

(* A solution that is carried over whole solves the image of its zone, when *)
(* what flows from each port gets the item of the port's image.            *)
LEMMA SolvesMoves ==
  ASSUME NEW a, IsZone(a), AllCross(a), NEW b, IsZone(b), AllCross(b), NEW o \in Orientations,
         NEW f \in [Channels(a) -> Channels(b)], MovedBy(a, b, o, f),
         NEW E, Laid(E), NEW F, NEW m \in Bijection(E, F), Carries(m, E, a, b, o),
         \A p \in a.ports, e \in E : e.item = a.item[p.ch] => m[e].item = b.item[f[p.ch]],
         Solves(a, E)
  PROVE  Solves(b, F)
<1> DEFINE img(t) == WorldImage(a, b, o, t)
           M(p) == PortImage(p, a, o, f)
<1>1. /\ b.ports = {M(p) : p \in a.ports}
      /\ \A p \in a.ports : /\ PortTile(a, p) \in Int \X Int /\ PortTile(b, M(p)) = img(PortTile(a, p))
                            /\ M(p).dir = TransformDirection(p.dir, o)
                            /\ M(p).ch = f[p.ch] /\ M(p).input = p.input
  BY PortTilesMove
<1>2. OverFreeTiles(a, E) /\ \A p \in a.ports : p.input => Fed(a, E, p)
  BY SolvesIs
<1>3. /\ \A e \in E : m[e] \in F
      /\ \A d, e \in E : m[d] = m[e] => d = e
      /\ \A g \in F : \E e \in E : m[e] = g
  BY DEF Bijection, Injection, Surjection, IsInjective
<1>4. \A e \in E : /\ e.tile \in Int \X Int /\ e.dir \in 0..3
                   /\ m[e].tile = img(e.tile) /\ m[e].dir = TransformDirection(e.dir, o)
  BY DEF Laid, Carries
<1>5. OverFreeTiles(b, F)
  <2> SUFFICES ASSUME NEW e \in E
               PROVE  /\ m[e].tile \in {<<t[1] + b.at[1], t[2] + b.at[2]>> : t \in ZoneTiles(b) \ b.forbidden}
                      /\ On(F, {m[e].tile}) = {m[e]}
    BY <1>3 DEF OverFreeTiles
  <2>1. PICK t \in ZoneTiles(a) \ a.forbidden : e.tile = <<t[1] + a.at[1], t[2] + a.at[2]>>
    BY <1>2 DEF OverFreeTiles
  <2>2. a.w \in Nat /\ a.h \in Nat /\ a.forbidden \subseteq Int \X Int /\ a.at \in Int \X Int
    BY DEF IsZone
  <2>3. t \in (0 .. a.w - 1) \X (0 .. a.h - 1) /\ t \in Int \X Int
    BY <2>2 DEF ZoneTiles
  <2> DEFINE u == TransformTile(t, a.w, a.h, o)
  <2>4. u \in ZoneTiles(b)
    <3>1. b.w = Width(a.w, a.h, o) /\ b.h = Height(a.w, a.h, o)
      BY DEF MovedBy, Width, Height
    <3>2. u \in (0 .. Width(a.w, a.h, o) - 1) \X (0 .. Height(a.w, a.h, o) - 1)
      BY <2>2, <2>3, TileInside
    <3>. QED  BY <3>1, <3>2 DEF ZoneTiles
  <2>5. u \notin b.forbidden
    <3> SUFFICES ASSUME u \in b.forbidden PROVE FALSE
      OBVIOUS
    <3>1. b.forbidden = {TransformTile(s, a.w, a.h, o) : s \in a.forbidden}
      BY DEF MovedBy
    <3>2. PICK s \in a.forbidden : TransformTile(t, a.w, a.h, o) = TransformTile(s, a.w, a.h, o)
      BY <3>1
    <3>3. s \in Int \X Int
      BY <2>2
    <3>4. t = s
      BY <2>2, <2>3, <3>2, <3>3, TilesApart
    <3>. QED  BY <2>1, <3>4
  <2>6. <<e.tile[1] - a.at[1], e.tile[2] - a.at[2]>> = t
    BY <2>1, <2>2, <2>3
  <2>7. m[e].tile = <<u[1] + b.at[1], u[2] + b.at[2]>>
    BY <1>4, <2>6 DEF WorldImage
  <2>8. On(F, {m[e].tile}) = {m[e]}
    <3> DEFINE T == {e.tile}
    <3>1. T \in SUBSET (Int \X Int) /\ On(E, T) = {e} /\ {img(s) : s \in T} = {m[e].tile}
      BY <1>2, <1>4 DEF OverFreeTiles
    <3> HIDE DEF T
    <3>2. On(F, {img(s) : s \in T}) = {m[d] : d \in On(E, T)}
      BY <3>1, StepsMove
    <3> HIDE DEF img
    <3>. QED  BY <3>1, <3>2
  <2> HIDE DEF u
  <2>. QED  BY <2>4, <2>5, <2>7, <2>8
<1>6. ASSUME NEW p \in a.ports, p.input PROVE Fed(b, F, M(p))
  <2> DEFINE T == {PortTile(a, p)}
             down == Downstream(E, T)
  <2>1. T \in SUBSET (Int \X Int) /\ {img(s) : s \in T} = {PortTile(b, M(p))}
    BY <1>1
  <2>2. PICK q \in a.ports, e \in down : ~q.input /\ q.ch = p.ch /\ e.tile = PortTile(a, q) /\ e.dir = q.dir
    BY <1>2, <1>6 DEF Fed
  <2>3. down \subseteq E /\ \A c \in down : c.item = a.item[p.ch]
    BY <1>2, <1>6, Ways DEF Fed
  <2> HIDE DEF T
  <2>4. Downstream(F, {img(s) : s \in T}) = {m[c] : c \in down}
    BY <2>1, WaysMove
  <2> HIDE DEF down, img, M
  <2>5. Downstream(F, {PortTile(b, M(p))}) = {m[c] : c \in down}
    BY <2>1, <2>4
  <2>6. \A c \in down : m[c].item = b.item[M(p).ch]
    BY <1>1, <2>3
  <2>7. /\ M(q) \in b.ports /\ ~M(q).input /\ M(q).ch = M(p).ch
        /\ m[e].tile = PortTile(b, M(q)) /\ m[e].dir = M(q).dir
    BY <1>1, <1>4, <2>2, <2>3
  <2>. QED  BY <2>2, <2>5, <2>6, <2>7 DEF Fed
<1>7. \A q \in b.ports : q.input => Fed(b, F, q)
  <2> HIDE DEF M
  <2>. QED  BY <1>1, <1>6
<1>. QED  BY <1>5, <1>7, SolvesIs

-----------------------------------------------------------------------------
\* What is stored of an entity, and what is made of that in a zone.
Kept(z, form, e) ==
  [tile |-> TransformTile(<<e.tile[1] - z.at[1], e.tile[2] - z.at[2]>>, z.w, z.h, form.o),
   dir  |-> TransformDirection(e.dir, form.o),
   token |-> CarriesToToken(z, form, e.item)]
Shown(z, form, s) ==
  LET t == TransformTileInverse(s.tile, form.signature.w, form.signature.h, form.o)
      item == CarriesFromToken(z, form, s.token)
  IN  [tile |-> <<t[1] + z.at[1], t[2] + z.at[2]>>,
       dir  |-> TransformDirectionInverse(s.dir, form.o),
       item |-> item, tier |-> ItemTier(z, item)]
CarriedTo(a, b, e) == Shown(b, Canonicalise(b), Kept(a, Canonicalise(a), e))

(* A replay carries each entity by itself.                                 *)
LEMMA ReplayedIs ==
  ASSUME NEW a, NEW b, NEW ents
  PROVE  Replayed(b, Canonicalise(b), Stored(a, Canonicalise(a), ents)) = {CarriedTo(a, b, e) : e \in ents}
<1> DEFINE fa == Canonicalise(a)
           fb == Canonicalise(b)
           K(e) == Kept(a, fa, e)
           R(s) == Shown(b, fb, s)
<1>1. Stored(a, fa, ents) = {K(e) : e \in ents}
  BY DEF Stored, Kept
<1>2. \A stored : Replayed(b, fb, stored) = {R(s) : s \in stored}
  BY DEF Replayed, Shown
<1>3. \A e \in ents : CarriedTo(a, b, e) = R(K(e))
  BY DEF CarriedTo
<1> HIDE DEF fa, fb, K, R
<1>4. Replayed(b, fb, Stored(a, fa, ents)) = {R(K(e)) : e \in ents}
  BY <1>1, <1>2
<1>. QED  BY <1>3, <1>4 DEF fa, fb

(* An entity is carried by the symmetry that leads from the one zone to    *)
(* the other.                                                              *)
LEMMA EntityCarried ==
  ASSUME NEW a, IsZone(a), NEW b, IsZone(b), NEW o \in Orientations,
         b.w = Width(a.w, a.h, o), b.h = Height(a.w, a.h, o),
         After(o, Canonicalise(b).o) = Canonicalise(a).o,
         NEW e, e.tile \in Int \X Int, e.dir \in 0..3
  PROVE  /\ CarriedTo(a, b, e).tile = WorldImage(a, b, o, e.tile)
         /\ CarriedTo(a, b, e).dir = TransformDirection(e.dir, o)
         /\ LET item == CarriesFromToken(b, Canonicalise(b), CarriesToToken(a, Canonicalise(a), e.item))
            IN  CarriedTo(a, b, e).item = item /\ CarriedTo(a, b, e).tier = ItemTier(b, item)
<1> DEFINE fa == Canonicalise(a)
           fb == Canonicalise(b)
           k == Kept(a, fa, e)
           u == <<e.tile[1] - a.at[1], e.tile[2] - a.at[2]>>
           v == TransformTile(u, a.w, a.h, o)
<1>1. /\ a.w \in Int /\ a.h \in Int /\ b.w \in Int /\ b.h \in Int /\ a.at \in Int \X Int
      /\ u \in Int \X Int
  BY DEF IsZone
<1>2. fa.o \in Orientations /\ fb.o \in Orientations /\ fb.signature = Rendering(b, fb.o)
  BY CanonicalShown
<1>3. fb.signature.w = Width(b.w, b.h, fb.o) /\ fb.signature.h = Height(b.w, b.h, fb.o)
  BY <1>2 DEF Rendering, Width, Height
<1>4. /\ k.tile = TransformTile(u, a.w, a.h, fa.o) /\ k.dir = TransformDirection(e.dir, fa.o)
      /\ k.token = CarriesToToken(a, fa, e.item)
  BY DEF Kept
<1>5. v \in Int \X Int /\ k.tile = TransformTile(v, b.w, b.h, fb.o)
  BY <1>1, <1>2, <1>4, TileMoves, TileTwice
<1>6. TransformTileInverse(k.tile, fb.signature.w, fb.signature.h, fb.o) = v
  BY <1>1, <1>2, <1>3, <1>5, TileBack
<1>7. TransformDirectionInverse(k.dir, fb.o) = TransformDirection(e.dir, o)
  <2>1. k.dir = TransformDirection(TransformDirection(e.dir, o), fb.o)
    BY <1>2, <1>4, DirectionTwice
  <2>2. TransformDirection(e.dir, o) \in 0..3
    BY DirectionsTurn
  <2>. QED  BY <1>2, <2>1, <2>2, DirectionBack
<1> DEFINE item == CarriesFromToken(b, fb, k.token)
<1> HIDE DEF fa, fb, k, v
<1>8. Shown(b, fb, k) = [tile |-> <<v[1] + b.at[1], v[2] + b.at[2]>>, dir |-> TransformDirection(e.dir, o),
                         item |-> item, tier |-> ItemTier(b, item)]
  BY <1>6, <1>7 DEF Shown
<1>9. CarriedTo(a, b, e) = Shown(b, fb, k)
  BY DEF CarriedTo, fa, fb, k
<1>10. WorldImage(a, b, o, e.tile) = <<v[1] + b.at[1], v[2] + b.at[2]>>
  BY DEF WorldImage, v
<1>. QED  BY <1>4, <1>8, <1>9, <1>10 DEF fa, fb

(* The item of a channel becomes the item of the channel's image.          *)
LEMMA ItemCarried ==
  ASSUME NEW a, IsZone(a), ItemsDiffer(a), NEW b, IsZone(b), ItemsDiffer(b),
         NEW f \in [Channels(a) -> Channels(b)],
         \A c \in Channels(a) : Token(Canonicalise(b).key, f[c]) = Token(Canonicalise(a).key, c),
         NEW c \in Channels(a)
  PROVE  CarriesFromToken(b, Canonicalise(b), CarriesToToken(a, Canonicalise(a), a.item[c])) = b.item[f[c]]
<1> DEFINE fa == Canonicalise(a)
           fb == Canonicalise(b)
           tok == Token(fa.key, c)
<1>1. /\ fa.o \in Orientations /\ fa.key = ChannelKeys(a, fa.o)
      /\ fb.o \in Orientations /\ fb.key = ChannelKeys(b, fb.o)
  BY CanonicalShown
<1>2. DOMAIN fa.key = Channels(a) /\ DOMAIN fb.key = Channels(b)
  BY <1>1 DEF ChannelKeys
<1> HIDE DEF fa, fb
<1>3. CarriesToToken(a, fa, a.item[c]) = tok
  <2>1. tok \in Tokens(fa.key)
    BY <1>2 DEF Tokens
  <2>2. \A t \in Tokens(fa.key) :
          (\E d \in Channels(a) : Token(fa.key, d) = t /\ a.item[d] = a.item[c]) => t = tok
    BY DEF ItemsDiffer
  <2> HIDE DEF tok
  <2>3. \E d \in Channels(a) : Token(fa.key, d) = tok /\ a.item[d] = a.item[c]
    BY DEF tok
  <2>. QED  BY <2>1, <2>2, <2>3 DEF CarriesToToken
<1>4. CarriesFromToken(b, fb, tok) = b.item[f[c]]
  <2> DEFINE d == CHOOSE x \in Channels(b) : Token(fb.key, x) = tok
  <2>1. Token(fb.key, f[c]) = tok /\ f[c] \in Channels(b)
    BY DEF fa, fb
  <2>2. d \in Channels(b) /\ Token(fb.key, d) = tok
    <3> HIDE DEF tok
    <3>. QED  BY <2>1
  <2> HIDE DEF d
  <2>3. d = f[c]
    <3>1. DOMAIN fb.key \subseteq Nat /\ IsFiniteSet(DOMAIN fb.key)
      BY <1>2, ChannelsOf
    <3>2. d \in DOMAIN fb.key /\ f[c] \in DOMAIN fb.key /\ Token(fb.key, d) = Token(fb.key, f[c])
      BY <1>2, <2>1, <2>2
    <3>. QED  BY <3>1, <3>2, OneChannel
  <2>. QED  BY <2>3 DEF CarriesFromToken, d
<1>. QED  BY <1>3, <1>4 DEF fa, fb

(* A solution has a place for each of its entities, and no two in one.     *)
LEMMA SolutionIsLaid ==
  ASSUME NEW z, IsZone(z), NEW ents, Solves(z, ents), \A e \in ents : e.dir \in 0..3
  PROVE  Laid(ents) /\ \A d, e \in ents : d.tile = e.tile => d = e
<1>1. OverFreeTiles(z, ents)
  BY SolvesIs
<1>2. z.at \in Int \X Int /\ z.w \in Nat /\ z.h \in Nat
  BY DEF IsZone
<1>3. ASSUME NEW e \in ents PROVE e.tile \in Int \X Int
  <2>1. PICK t \in ZoneTiles(z) : e.tile = <<t[1] + z.at[1], t[2] + z.at[2]>>
    BY <1>1 DEF OverFreeTiles
  <2>2. t \in Int \X Int
    BY <1>2 DEF ZoneTiles
  <2>. QED  BY <1>2, <2>1, <2>2
<1>4. ASSUME NEW d \in ents, NEW e \in ents, d.tile = e.tile PROVE d = e
  <2>1. On(ents, {e.tile}) = {e} /\ d \in On(ents, {e.tile})
    BY <1>1, <1>4 DEF OverFreeTiles, On
  <2>. QED  BY <2>1
<1>. QED  BY <1>3, <1>4 DEF Laid

(* What becomes of a solution that is replayed in a zone like its own.     *)
LEMMA ReplayMoves ==
  ASSUME NEW a, IsZone(a), AllCross(a), NEW b, IsZone(b), AllCross(b),
         Canonicalise(a).signature = Canonicalise(b).signature,
         NEW ents, Solves(a, ents), \A e \in ents : e.dir \in 0..3
  PROVE  LET form == Canonicalise(b)
             replayed == Replayed(b, form, Stored(a, Canonicalise(a), ents))
         IN  \E o \in Orientations, f \in [Channels(a) -> Channels(b)], m \in Bijection(ents, replayed) :
               /\ MovedBy(a, b, o, f)
               /\ \A c \in Channels(a) : Token(form.key, f[c]) = Token(Canonicalise(a).key, c)
               /\ Laid(ents) /\ Carries(m, ents, a, b, o)
               /\ \A e \in ents :
                    LET item == CarriesFromToken(b, form, CarriesToToken(a, Canonicalise(a), e.item))
                    IN  m[e].item = item /\ m[e].tier = ItemTier(b, item)
               /\ PruneDangling(b, replayed) = {m[e] : e \in PruneDangling(a, ents)}
<1> DEFINE F == Replayed(b, Canonicalise(b), Stored(a, Canonicalise(a), ents))
           m == [e \in ents |-> CarriedTo(a, b, e)]
<1>1. PICK o \in Orientations, f \in Bijection(Channels(a), Channels(b)) :
        /\ MovedBy(a, b, o, f)
        /\ After(o, Canonicalise(b).o) = Canonicalise(a).o
        /\ \A c \in Channels(a) : Token(Canonicalise(b).key, f[c]) = Token(Canonicalise(a).key, c)
  BY CarriedOver
<1>2. f \in [Channels(a) -> Channels(b)]
  BY DEF Bijection, Injection
<1>3. Laid(ents) /\ \A d, e \in ents : d.tile = e.tile => d = e
  BY SolutionIsLaid
<1>4. ASSUME NEW e \in ents
      PROVE  /\ m[e] = CarriedTo(a, b, e)
             /\ LET item == CarriesFromToken(b, Canonicalise(b), CarriesToToken(a, Canonicalise(a), e.item))
                IN  m[e].item = item /\ m[e].tier = ItemTier(b, item)
             /\ m[e].tile = WorldImage(a, b, o, e.tile) /\ m[e].dir = TransformDirection(e.dir, o)
  <2>1. b.w = Width(a.w, a.h, o) /\ b.h = Height(a.w, a.h, o)
    BY <1>1 DEF MovedBy, Width, Height
  <2>2. e.tile \in Int \X Int /\ e.dir \in 0..3
    BY <1>3 DEF Laid
  <2>. QED  BY <1>1, <2>1, <2>2, EntityCarried
<1>5. F = {m[e] : e \in ents}
  BY ReplayedIs
<1>6. DOMAIN m = ents
  OBVIOUS
<1> HIDE DEF F, m
<1>7. m \in Bijection(ents, F)
  <2>1. ASSUME NEW d \in ents, NEW e \in ents, m[d] = m[e] PROVE d = e
    <3>1. d.tile \in Int \X Int /\ e.tile \in Int \X Int
      BY <1>3 DEF Laid
    <3>2. WorldImage(a, b, o, d.tile) = WorldImage(a, b, o, e.tile)
      BY <1>4, <2>1
    <3>3. d.tile = e.tile
      BY <3>1, <3>2, TilesCarried
    <3>. QED  BY <1>3, <3>3
  <2>2. m \in [ents -> F]
    <3>1. m = [e \in ents |-> m[e]]
      BY DEF m
    <3>. QED  BY <1>5, <3>1
  <2>3. \A g \in F : \E e \in ents : m[e] = g
    BY <1>5
  <2>. QED  BY <1>6, <2>1, <2>2, <2>3 DEF Bijection, Injection, Surjection, IsInjective
<1>8. Carries(m, ents, a, b, o)
  BY <1>4 DEF Carries
<1>9. PruneDangling(b, F) = {m[e] : e \in PruneDangling(a, ents)}
  BY <1>1, <1>2, <1>3, <1>7, <1>8, PruneMoves
<1>. QED  BY <1>1, <1>2, <1>3, <1>4, <1>7, <1>8, <1>9 DEF F

(* A solution that something is left of solves any zone like its own.      *)
LEMMA ReplaySucceeds ==
  ASSUME NEW a, IsZone(a), AllCross(a), ItemsDiffer(a), NEW b, IsZone(b), AllCross(b), ItemsDiffer(b),
         Canonicalise(a).signature = Canonicalise(b).signature,
         NEW ents, Solves(a, ents), \A e \in ents : e.dir \in 0..3,
         NEW G, G = PruneDangling(b, Replayed(b, Canonicalise(b), Stored(a, Canonicalise(a), ents))), G # {}
  PROVE  Verdict(b, G) = "solves"
<1> DEFINE F == Replayed(b, Canonicalise(b), Stored(a, Canonicalise(a), ents))
           Q == PruneDangling(a, ents)
           I(e) == CarriesFromToken(b, Canonicalise(b), CarriesToToken(a, Canonicalise(a), e.item))
<1>1. PICK o \in Orientations, f \in [Channels(a) -> Channels(b)], m \in Bijection(ents, F) :
        /\ MovedBy(a, b, o, f)
        /\ \A c \in Channels(a) : Token(Canonicalise(b).key, f[c]) = Token(Canonicalise(a).key, c)
        /\ Laid(ents) /\ Carries(m, ents, a, b, o)
        /\ \A e \in ents : m[e].item = I(e) /\ m[e].tier = ItemTier(b, I(e))
        /\ G = {m[e] : e \in Q}
  BY ReplayMoves
<1>2. Q \subseteq ents
  <2> DEFINE D == Downstream(ents, PortTiles(a, TRUE)) \intersect Upstream(ents, PortTiles(a, FALSE))
  <2>1. D \subseteq ents
    BY Ways
  <2>2. Q = {} \/ Q = D
    BY DEF PruneDangling
  <2> HIDE DEF Q, D
  <2>. QED  BY <2>1, <2>2
<1>3. Q # {}
  <2> HIDE DEF Q
  <2>. QED  BY <1>1
<1>4. Solves(a, Q)
  <2>1. \A p \in a.ports : p.input \in BOOLEAN
    BY DEF IsZone
  <2>. QED  BY <1>3, <2>1, PruneSolves
<1> HIDE DEF Q, F
<1>5. ASSUME NEW p \in a.ports, NEW e \in Q, e.item = a.item[p.ch] PROVE m[e].item = b.item[f[p.ch]]
  <2>1. p.ch \in Channels(a)
    BY DEF Channels
  <2>2. CarriesFromToken(b, Canonicalise(b), CarriesToToken(a, Canonicalise(a), a.item[p.ch])) = b.item[f[p.ch]]
    BY <1>1, <2>1, ItemCarried
  <2>. QED  BY <1>1, <1>2, <1>5, <2>2
<1>6. Solves(b, G)
  <2> DEFINE mQ == [e \in Q |-> m[e]]
  <2>1. /\ \A e \in ents : m[e] \in F
        /\ \A d, e \in ents : m[d] = m[e] => d = e
    BY DEF Bijection, Injection, IsInjective
  <2>2. /\ \A e \in Q : mQ[e] = m[e] /\ mQ[e] \in G
        /\ \A d, e \in Q : mQ[d] = mQ[e] => d = e
        /\ \A g \in G : \E e \in Q : mQ[e] = g
    BY <1>1, <1>2, <2>1
  <2>3. mQ \in [Q -> G] /\ DOMAIN mQ = Q
    BY <2>2
  <2> HIDE DEF mQ
  <2>4. mQ \in Bijection(Q, G)
    BY <2>2, <2>3 DEF Bijection, Injection, Surjection, IsInjective
  <2>5. Laid(Q) /\ Carries(mQ, Q, a, b, o)
    BY <1>1, <1>2, <2>2 DEF Laid, Carries
  <2>6. \A p \in a.ports, e \in Q : e.item = a.item[p.ch] => mQ[e].item = b.item[f[p.ch]]
    BY <1>5, <2>2
  <2>. QED  BY <1>1, <1>4, <2>4, <2>5, <2>6, SolvesMoves
<1>7. ASSUME NEW g \in G, NEW c \in Channels(b), b.item[c] = g.item PROVE g.tier >= b.tier[c]
  <2>1. PICK e \in Q : g = m[e]
    BY <1>1
  <2>2. g.tier = ItemTier(b, b.item[c])
    BY <1>1, <1>2, <1>7, <2>1
  <2> DEFINE ranks == {b.tier[d] : d \in {d \in Channels(b) : b.item[d] = b.item[c]}}
  <2>3. ranks = {b.tier[c]} /\ b.tier[c] \in Nat
    BY DEF ItemsDiffer
  <2>4. ItemTier(b, b.item[c]) = CHOOSE r \in ranks : \A q \in ranks : q <= r
    BY DEF ItemTier
  <2> HIDE DEF ranks
  <2>5. ItemTier(b, b.item[c]) = b.tier[c]
    BY <2>3, <2>4
  <2>. QED  BY <2>2, <2>3, <2>5
<1>8. \A e \in G, c \in Channels(b) : b.item[c] = e.item => e.tier >= b.tier[c]
  BY <1>7
<1>. QED  BY <1>6, <1>8 DEF Verdict

-----------------------------------------------------------------------------
(* What is answered from the cache.                                        *)

(* Where the ports of all zones cross the rim and the solver treats the    *)
(* images of a zone alike, the current encoder refuses no solvable zone    *)
(* from a record that is not spoilt, whatever older builds have written    *)
(* of it, and of other zones.                                              *)
THEOREM RefusalsAreRight == PortsCross /\ ImagesSolveAlike => (Spec => []RefusalIsRight)
<1> SUFFICES ASSUME PortsCross, ImagesSolveAlike PROVE Spec => []RefusalIsRight
  OBVIOUS
<1>1. CacheInv /\ CanonIsComputed => RefusalIsRight
  <2> SUFFICES ASSUME CacheInv, CanonIsComputed,
                      NEW p \in Process, NEW z \in Zones, NEW b \in Budgets,
                      Refused(p, z, b), build[p] = EncoderVersion, canon[z].sig \notin disk.spoilt
               PROVE  Refusable(z)
    BY DEF RefusalIsRight
  <2> DEFINE e == Entry(p, z)
  <2>1. Usable(p, z) /\ e.outcome \in {"Unsat", "Timeout"}
    BY DEF Refused
  <2>2. PICK y \in Zones, c \in Budgets :
          SameSignature(y, z) /\ build[p] \in Versions /\ e \in Outcomes(build[p], y, c)
    BY <2>1, UsedIsLearnt
  <2>3. Refusable(y)
    <3>1. ~(build[p] < EncoderVersion)
      BY <2>2, ZoneCacheAssumption
    <3> HIDE DEF e
    <3>. QED  BY <2>1, <2>2, <3>1 DEF Outcomes, Refusable
  <2>4. SameUpToSymmetry(Shapes[y], Shapes[z])
    <3>1. IsZone(Shapes[y]) /\ IsZone(Shapes[z])
      BY <2>2, ShapeAssumption DEF Shapes
    <3>2. AllCross(Shapes[y]) /\ AllCross(Shapes[z])
      BY <2>2 DEF PortsCross, AllCross
    <3>3. Canonicalise(Shapes[y]).signature = Canonicalise(Shapes[z]).signature
      BY <2>2 DEF SameSignature, Forms
    <3>. QED  BY <3>1, <3>2, <3>3, SignatureShowsTheZone
  <2>. QED  BY <2>2, <2>3, <2>4 DEF ImagesSolveAlike
<1>. QED  BY <1>1, ZoneFacts, PTL

(* What a solution that is kept for two zones of one signature does in the *)
(* second.                                                                 *)
LEMMA Answered ==
  ASSUME PortsCross, SolverSolves, NEW y \in Zones, NEW z \in Zones, SameSignature(y, z), NEW f \in FoundIn(y)
  PROVE  LET a == Shapes[y]
             b == Shapes[z]
             ents == Answers[f[1]][f[2]]
         IN  /\ IsZone(a) /\ AllCross(a) /\ IsZone(b) /\ AllCross(b)
             /\ Canonicalise(a).signature = Canonicalise(b).signature
             /\ Solves(a, ents) /\ \A e \in ents : e.dir \in 0..3
             /\ InZone(z, Shapes, Forms, f) =
                  Verdict(b, PruneDangling(b, Replayed(b, Canonicalise(b), Stored(a, Canonicalise(a), ents))))
<1>1. f[1] = y /\ f[2] \in 1 .. Len(Answers[y])
  BY DEF FoundIn
<1>2. IsZone(Shapes[y]) /\ IsZone(Shapes[z])
  BY ShapeAssumption DEF Shapes
<1>3. AllCross(Shapes[y]) /\ AllCross(Shapes[z])
  BY DEF PortsCross, AllCross
<1>4. Forms[y] = Canonicalise(Shapes[y]) /\ Forms[z] = Canonicalise(Shapes[z])
  BY DEF Forms
<1>5. Canonicalise(Shapes[y]).signature = Canonicalise(Shapes[z]).signature
  BY <1>4 DEF SameSignature
<1>6. Solves(Shapes[y], Answers[f[1]][f[2]]) /\ \A e \in Answers[f[1]][f[2]] : e.dir \in 0..3
  BY <1>1 DEF SolverSolves
<1>. QED  BY <1>1, <1>2, <1>3, <1>4, <1>5, <1>6 DEF InZone

(* Where the ports cross the rim, no item shares a channel, and the        *)
(* solver's answers solve the zones they are given for: a zone that is     *)
(* answered from a record that is not spoilt is solved in its own place,   *)
(* whichever image of it the solution was found in and whoever kept it,    *)
(* because what is pruned and what flows where is carried along by the     *)
(* symmetry that leads from the one zone to the other                      *)
(* (record_zone_outcome, lookup_zone_result).                              *)
THEOREM ServedIsSolved ==
  PortsCross /\ ItemsHaveChannels /\ SolverSolves => (Spec => []ReplaySolves)
<1> SUFFICES ASSUME PortsCross, ItemsHaveChannels, SolverSolves PROVE Spec => []ReplaySolves
  OBVIOUS
<1>1. CacheInv /\ CanonIsComputed => ReplaySolves
  <2> SUFFICES ASSUME CacheInv, CanonIsComputed, NEW p \in Process, NEW z \in Zones,
                      Served(p, z), canon[z].sig \notin disk.spoilt
               PROVE  canon[z].replay[Entry(p, z).found] = "solves"
    BY DEF ReplaySolves
  <2> DEFINE e == Entry(p, z)
             b == Shapes[z]
  <2>1. Usable(p, z) /\ e.outcome = "Solved" /\ canon[z].replay[e.found] # "nothing"
    BY DEF Served
  <2>2. PICK y \in Zones, c \in Budgets : SameSignature(y, z) /\ e \in Outcomes(build[p], y, c)
    BY <2>1, UsedIsLearnt
  <2>3. e.found \in FoundIn(y)
    <3> HIDE DEF e
    <3>. QED  BY <2>1, <2>2 DEF Outcomes
  <2>4. canon[z].replay[e.found] = InZone(z, Shapes, Forms, e.found)
    BY <2>2, <2>3 DEF CanonIsComputed
  <2> DEFINE a == Shapes[y]
             ents == Answers[e.found[1]][e.found[2]]
             G == PruneDangling(b, Replayed(b, Canonicalise(b), Stored(a, Canonicalise(a), ents)))
  <2>5. /\ IsZone(a) /\ AllCross(a) /\ IsZone(b) /\ AllCross(b)
        /\ Canonicalise(a).signature = Canonicalise(b).signature
        /\ Solves(a, ents) /\ \A d \in ents : d.dir \in 0..3
        /\ InZone(z, Shapes, Forms, e.found) = Verdict(b, G)
    <3> HIDE DEF e
    <3>. QED  BY <2>2, <2>3, Answered
  <2>6. ItemsDiffer(a) /\ ItemsDiffer(b)
    BY <2>2 DEF ItemsHaveChannels
  <2> HIDE DEF e, a, b, ents
  <2>7. G # {}
    <3> HIDE DEF G
    <3>. QED  BY <2>1, <2>4, <2>5 DEF Verdict
  <2>8. Verdict(b, G) = "solves"
    BY <2>5, <2>6, <2>7, ReplaySucceeds
  <2>. QED  BY <2>4, <2>5, <2>8 DEF e
<1>. QED  BY <1>1, ZoneFacts, PTL

(* A solution that prunes to nothing in one zone of a signature does so in *)
(* all of them: it did in the zone that it was found in.                   *)
LEMMA PrunedAlike ==
  ASSUME PortsCross, SolverSolves, NEW y \in Zones, NEW z \in Zones, SameSignature(y, z), NEW f \in FoundIn(y)
  PROVE  InZone(z, Shapes, Forms, f) = "nothing" <=> PruneDangling(Shapes[y], Answers[f[1]][f[2]]) = {}
<1> DEFINE a == Shapes[y]
           b == Shapes[z]
           ents == Answers[f[1]][f[2]]
           F == Replayed(b, Canonicalise(b), Stored(a, Canonicalise(a), ents))
           G == PruneDangling(b, F)
           Q == PruneDangling(a, ents)
<1>1. /\ IsZone(a) /\ AllCross(a) /\ IsZone(b) /\ AllCross(b)
      /\ Canonicalise(a).signature = Canonicalise(b).signature
      /\ Solves(a, ents) /\ \A e \in ents : e.dir \in 0..3
      /\ InZone(z, Shapes, Forms, f) = Verdict(b, G)
  BY Answered
<1> HIDE DEF a, b, ents
<1>2. PICK m : G = {m[e] : e \in Q}
  BY <1>1, ReplayMoves
<1> HIDE DEF G, Q
<1>3. G = {} <=> Q = {}
  BY <1>2
<1>4. Verdict(b, G) = "nothing" <=> G = {}
  BY DEF Verdict
<1>. QED  BY <1>1, <1>3, <1>4 DEF Q, a, ents

-----------------------------------------------------------------------------
\* The images of a zone that were computed share its name in the table.
ImagesAreNamed ==
  \A z \in Zones : \A y \in canon[z].images :
    y \in Zones /\ SameUpToSymmetry(Shapes[z], Shapes[y]) /\ canon[y].sig = canon[z].sig

(* Init computes the images, and shares the name of a signature among      *)
(* them.                                                                   *)
LEMMA ImagesStart == Init => ImagesAreNamed
<1> SUFFICES ASSUME Init, NEW z \in Zones, NEW y \in canon[z].images
             PROVE  y \in Zones /\ SameUpToSymmetry(Shapes[z], Shapes[y]) /\ canon[y].sig = canon[z].sig
  BY DEF ImagesAreNamed
<1>1. canon = [x \in Zones |-> Computed(x, Shapes, Forms)]
  BY DEF Init
<1>2. y \in Zones /\ SameUpToSymmetry(Shapes[z], Shapes[y])
  BY <1>1 DEF Computed
<1>3. Shapes[y] = Shape[y] /\ Shapes[z] = Shape[z] /\ IsZone(Shape[y]) /\ IsZone(Shape[z])
  BY <1>2, ShapeAssumption DEF Shapes
<1>4. Canonicalise(Shapes[z]).signature = Canonicalise(Shapes[y]).signature
  BY <1>2, <1>3, ImagesShareSignature
<1>5. Forms[y].signature = Forms[z].signature
  BY <1>2, <1>4 DEF Forms
<1>6. \A x \in Zones : canon[x].sig = Min({u \in Zones : Forms[u].signature = Forms[x].signature})
  BY <1>1 DEF Computed
<1>. QED  BY <1>2, <1>5, <1>6

(* No step changes what was computed.                                      *)
LEMMA ImagesNext == ImagesAreNamed /\ [Next]_vars => ImagesAreNamed'
BY DEF Next, vars, AnswerFromCache, SolveAfresh, Restart, Flush, WriteRecord, DeferFlush,
       DiscardPending, InstallPrebaked, ImagesAreNamed

(* Whatever a process knows of a zone it knows of the zone turned,         *)
(* mirrored, moved, with its channels renumbered or its items renamed: all *)
(* of them are rendered alike, so they share one record (canonicalise), of *)
(* which it makes the same, where the ports cross the rim and the solver's *)
(* answers are solutions.                                                  *)
THEOREM ImagesAreKnown == PortsCross /\ SolverSolves => (Spec => []KnownInAllImages)
<1> SUFFICES ASSUME PortsCross, SolverSolves PROVE Spec => []KnownInAllImages
  OBVIOUS
<1>1. CacheInv /\ CanonIsComputed /\ ImagesAreNamed => KnownInAllImages
  <2> SUFFICES ASSUME CacheInv, CanonIsComputed, ImagesAreNamed,
                      NEW p \in Process, NEW z \in Zones, NEW y \in canon[z].images
               PROVE  (Usable(p, z) => Usable(p, y)) /\ (Served(p, z) => Served(p, y))
    BY DEF KnownInAllImages
  <2>1. y \in Zones /\ SameUpToSymmetry(Shapes[z], Shapes[y]) /\ canon[y].sig = canon[z].sig
    BY DEF ImagesAreNamed
  <2>2. (Usable(p, z) <=> Usable(p, y)) /\ Entry(p, y) = Entry(p, z)
    BY <2>1 DEF Usable, Entry
  <2>3. ASSUME Served(p, z) PROVE Served(p, y)
    <3> DEFINE e == Entry(p, z)
    <3>1. Usable(p, z) /\ e.outcome = "Solved" /\ canon[z].replay[e.found] # "nothing"
      BY <2>3 DEF Served
    <3> HIDE DEF e
    <3>2. CASE e.found = Remnant
      BY <2>1, <2>2, <3>1, <3>2 DEF Served, CanonIsComputed, e
    <3> SUFFICES ASSUME e.found # Remnant PROVE Served(p, y)
      BY <3>2
    <3>3. PICK x \in Zones, b \in Budgets :
            SameSignature(x, z) /\ e \in Outcomes(build[p], x, b)
      BY <3>1, UsedIsLearnt DEF e
    <3>4. e.found \in FoundIn(x)
      BY <3>1, <3>3 DEF Outcomes
    <3>5. SameSignature(x, y)
      BY <2>1, <3>3 DEF CanonIsComputed, SameSignature
    <3>6. /\ canon[z].replay[e.found] = InZone(z, Shapes, Forms, e.found)
          /\ canon[y].replay[e.found] = InZone(y, Shapes, Forms, e.found)
      BY <2>1, <3>3, <3>4, <3>5 DEF CanonIsComputed
    <3>7. InZone(y, Shapes, Forms, e.found) # "nothing"
      BY <2>1, <3>1, <3>3, <3>4, <3>5, <3>6, PrunedAlike
    <3>. QED  BY <2>2, <3>1, <3>6, <3>7 DEF Served, e
  <2>. QED  BY <2>2, <2>3
<1>. QED  BY <1>1, ZoneFacts, ImagesStart, ImagesNext, PTL DEF Spec
=============================================================================
