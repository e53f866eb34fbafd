----------------------------- MODULE ZoneCache -----------------------------
(***************************************************************************)
(* The zone cache at work: processes that answer crossing zones from their *)
(* table, ask the solver for the rest, and share what they learnt through  *)
(* one append-only file (crates/core/src/zone_cache.rs, and the part of    *)
(* SatStrategy::try_solve in bus/junction_sat_strategy.rs from the lookup  *)
(* on). A process may crash or be replaced by one of another build at any  *)
(* time, in the middle of a write too.                                     *)
(***************************************************************************)
EXTENDS ZoneCanonical

CONSTANTS Process,      \* processes that share the cache file
          Zones,        \* the zones they may be asked for, by number,
          Shape,        \* and what they look like
          Answers,      \* for each zone, in a sequence, the solutions the
                        \* solver may return
          Budgets,      \* effective_budget_ms of a call
          Versions,     \* encoder versions of the builds in use
          Oversized,    \* the zones over MAX_ZONE_SAT_VARS
          MaxSolves     \* bound on the calls that reach the solver

ASSUME ZoneCacheAssumption == Zones \subseteq Nat /\ Versions \subseteq Nat /\ MaxSolves \in Nat

ASSUME ShapeAssumption == \A z \in Zones : IsZone(Shape[z])

NotLoaded == <<>>       \* otherwise the table is <<its map>>
EmptyFile == [records |-> <<>>, cut |-> <<>>, astray |-> FALSE, spoilt |-> {}]
Garbled == -1           \* an encoder_version that no build has
Remnant == <<0, 0>>     \* a solution that has lost belts

EncoderVersion == CHOOSE v \in Versions : \A u \in Versions : u <= v

VARIABLES canon,     \* for each zone what canonicalise and the replay compute of it
          disk,      \* sat-zones.bin, as a reader takes it
          table,     \* LOOKUP of each process
          buffer,    \* BUFFER of each process
          writing,   \* what a flush has taken from the buffer and not yet written
          deferred,  \* FLUSH_DEFERRED
          build,     \* the encoder version of the running process
          solves     \* calls that reached the solver so far

vars == <<canon, disk, table, buffer, writing, deferred, build, solves>>

-----------------------------------------------------------------------------
(* What is computed of the zones, once: pure functions of their shapes.     *)

\* A solution is named by the zone it was found in and its number there.
FoundIn(z) == {z} \X (1 .. Len(Answers[z]))

\* b is a after the symmetry o, with its channels renumbered by f.
MovedBy(a, b, o, f) ==
  /\ IsInjective(f) /\ Cardinality(Channels(a)) = Cardinality(Channels(b))
  /\ b.w = (IF o.rotation % 2 = 0 THEN a.w ELSE a.h)
  /\ b.h = (IF o.rotation % 2 = 0 THEN a.h ELSE a.w)
  /\ \A c \in Channels(a) : a.reach[c] = b.reach[f[c]]
  /\ b.forbidden = {TransformTile(t, a.w, a.h, o) : t \in a.forbidden}
  /\ b.ports = {[p EXCEPT !.tile = TransformTile(@, a.w, a.h, o),
                          !.dir = TransformDirection(@, o), !.ch = f[@]] : p \in a.ports}

\* b is a where the rectangle has been turned or mirrored, moved, its
\* channels renumbered or its items renamed.
SameUpToSymmetry(a, b) ==
  \E o \in Orientations, f \in [Channels(a) -> Channels(b)] : MovedBy(a, b, o, f)

\* What becomes of a stored solution in zone z: nothing is left when it is
\* pruned, or it does what z asks, with belts that are fast enough, or not.
Verdict(z, ents) ==
  IF ents = {} THEN "nothing"
  ELSE IF /\ Solves(z, ents)
          /\ \A e \in ents, c \in Channels(z) : z.item[c] = e.item => e.tier >= z.tier[c]
       THEN "solves" ELSE "wrong"

\* What solution f, kept under the signature that it shares with z, does in z.
InZone(z, shape, form, f) ==
  LET kept == Stored(shape[f[1]], form[f[1]], Answers[f[1]][f[2]])
  IN  Verdict(shape[z], PruneDangling(shape[z], Replayed(shape[z], form[z], kept)))

\* A signature is named by the least zone that has it.
Computed(z, shape, form) ==
  [sig    |-> Min({y \in Zones : form[y].signature = form[z].signature}),
   images |-> {y \in Zones : SameUpToSymmetry(shape[z], shape[y])},
   replay |-> [f \in {Remnant} \union
                       UNION {FoundIn(y) : y \in {x \in Zones : form[x].signature = form[z].signature}} |->
                 IF f = Remnant THEN "wrong" ELSE InZone(z, shape, form, f)]]

Shapes == [z \in Zones |-> Shape[z]]
Forms == [z \in Zones |-> Canonicalise(Shapes[z])]
SameSignature(y, z) == Forms[y].signature = Forms[z].signature

\* What the design of the cache relies on. Ports lie on the rim, and the flow
\* of each comes in, or goes out, over the rim (Crosses: an edge in the
\* signature is then the edge that the belt leads over).
PortsCross == \A z \in Zones : \A p \in Shapes[z].ports : Crosses(Shapes[z], p)

\* Each item of a zone has a channel of its own, and its belts a rank.
ItemsDiffer(z) ==
  \A c \in Channels(z) : z.tier[c] \in Nat /\ \A d \in Channels(z) : z.item[d] = z.item[c] => d = c
ItemsHaveChannels == \A z \in Zones : ItemsDiffer(Shapes[z])

\* The solver's answer to a zone solves that zone.
SolverSolves ==
  \A z \in Zones : \A i \in 1 .. Len(Answers[z]) :
    /\ Solves(Shapes[z], Answers[z][i])
    /\ \A e \in Answers[z][i] : e.dir \in 0..3

\* It refuses a zone when it refuses an image of it: a turn, a mirror, other
\* names and other numbers change neither what can be solved nor the size of
\* the encoding.
Refusable(z) == FoundIn(z) = {} \/ z \in Oversized
ImagesSolveAlike ==
  \A y, z \in Zones : SameUpToSymmetry(Shapes[y], Shapes[z]) => (Refusable(y) <=> Refusable(z))

-----------------------------------------------------------------------------

(* The file. disk.records is what a reader takes from it, oldest first. A   *)
(* record is its length and so many bytes: when a write ends early, a reader *)
(* of the file drops the cut record, disk.cut, but once something follows,   *)
(* the bytes that are missing are taken from there. disk.astray says that    *)
(* the reader has lost the boundaries of the records, disk.spoilt keeps the  *)
(* signatures of the cut records that something was written behind.          *)

\* What a cut record may be taken for when it is made up with other bytes: up
\* to the cut it is itself. An entity that does not decode is left out, the
\* outcome and the budget may be any. When the cut is before the version, no
\* build has that version, and the signature may have another last character.
Misread(r) ==
  LET as(o, b, f) == [r EXCEPT !.entry.outcome = o, !.entry.budget = b, !.entry.found = f]
  IN  {as("Solved", 0, Remnant), as("Unsat", 0, <<>>)} \union {as("Timeout", b, <<>>) : b \in Budgets}
      \union {[sig |-> canon[z].sig, entry |-> [r.entry EXCEPT !.version = Garbled, !.found = Remnant]] : z \in Zones}

\* A reader inside a record may still miss some of its bytes, or it takes the
\* record for another one, for one of no zone, or for none. It then stands at
\* the start of a record, or it does not.
ReadOn(file, got, lost) == [file EXCEPT !.records = @ \o got, !.cut = <<>>, !.astray = lost]
Readings(file) ==
  {file} \union {ReadOn(file, got, lost) :
                   got \in {<<>>} \union {<<m>> : m \in UNION {Misread(r) : r \in Range(file.cut)}},
                   lost \in BOOLEAN}

\* What the file may be to a reader once r, or a part of it, is written.
Appended(file, r, whole) ==
  IF file.cut = <<>> /\ ~file.astray
  THEN {IF whole THEN [file EXCEPT !.records = Append(@, r)] ELSE [file EXCEPT !.cut = <<r>>]}
  ELSE {[f EXCEPT !.spoilt = @ \union {c.sig : c \in Range(file.cut)}] : f \in Readings(file)}

\* Mutant: a body that ends before its length is read as far as it goes.
ParseRecordsShort(file) ==
  file.records \o [i \in DOMAIN file.cut |-> [file.cut[i] EXCEPT !.entry.outcome = "Solved",
                                                              !.entry.found = Remnant]]

\* A cut record at the end is dropped.
ParseRecords(file) == file.records

\* Later records win.
Installed(map, file) ==
  LET recs == ParseRecords(file)
      sigs == {recs[i].sig : i \in 1 .. Len(recs)}
      newest(s) == recs[Max({i \in 1 .. Len(recs) : recs[i].sig = s})].entry
  IN  [s \in DOMAIN map \union sigs |-> IF s \in sigs THEN newest(s) ELSE map[s]]

\* The outcome of a call replaces what the table says of its signature.
Recorded(map, sig, entry) ==
  [s \in DOMAIN map \union {sig} |-> IF s = sig THEN entry ELSE map[s]]

\* The table, read from the file when it is first needed.
LookupTable(p) == IF table[p] = NotLoaded THEN Installed(<<>>, disk) ELSE table[p][1]

\* Mutant: the encoder version of an entry is not compared.
UsableOfAnyVersion(p, z) == canon[z].sig \in DOMAIN LookupTable(p)

\* An entry that the running encoder may use.
Usable(p, z) == /\ canon[z].sig \in DOMAIN LookupTable(p)
                /\ LookupTable(p)[canon[z].sig].version = build[p]
Entry(p, z) == LookupTable(p)[canon[z].sig]

Refused(p, z, budget) == /\ Usable(p, z)
                         /\ \/ Entry(p, z).outcome = "Unsat"
                            \/ Entry(p, z).outcome = "Timeout" /\ Entry(p, z).budget >= budget
Served(p, z) == /\ Usable(p, z)
                /\ Entry(p, z).outcome = "Solved"
                /\ canon[z].replay[Entry(p, z).found] # "nothing"

\* What the solver makes of a zone. Over the ceiling it is not asked. The
\* proof that there is no solution may take longer than the budget. Encoders
\* before the current one had rules that refuse solvable zones.
Outcomes(v, z, budget) ==
  LET entry(o, b, f) == [outcome |-> o, budget |-> b, found |-> f, version |-> v]
      refusals == {entry("Unsat", 0, <<>>), entry("Timeout", budget, <<>>)}
  IN  IF z \in Oversized THEN {entry("Timeout", budget, <<>>)}
      ELSE {entry("Solved", 0, f) : f \in FoundIn(z)}
           \union (IF FoundIn(z) = {} \/ v < EncoderVersion THEN refusals ELSE {})

-----------------------------------------------------------------------------

Init ==
  /\ \E shape \in {Shapes}, form \in {Forms} :
       canon = [z \in Zones |-> Computed(z, shape, form)]
  /\ disk = EmptyFile
  /\ table = [p \in Process |-> NotLoaded]
  /\ buffer = [p \in Process |-> <<>>]
  /\ writing = [p \in Process |-> <<>>]
  /\ deferred = [p \in Process |-> FALSE]
  /\ build \in [Process -> Versions]
  /\ solves = 0

\* A lookup that spares the solver: refused, or served.
AnswerFromCache(p, z, budget) ==
  /\ Refused(p, z, budget) \/ Served(p, z)
  /\ table' = [table EXCEPT ![p] = <<LookupTable(p)>>]
  /\ UNCHANGED <<canon, disk, buffer, writing, deferred, build, solves>>

\* A miss, a stale entry, a timeout under a smaller budget or a hit that
\* prunes to nothing: the solver decides, and its outcome is recorded.
SolveAfresh(p, z, budget) ==
  /\ ~Refused(p, z, budget) /\ ~Served(p, z)
  /\ solves < MaxSolves /\ solves' = solves + 1
  /\ \E entry \in Outcomes(build[p], z, budget) :
       /\ table' = [table EXCEPT ![p] = <<Recorded(LookupTable(p), canon[z].sig, entry)>>]
       /\ buffer' = [buffer EXCEPT ![p] = Append(@, [sig |-> canon[z].sig, entry |-> entry])]
  /\ UNCHANGED <<canon, disk, writing, deferred, build>>

\* The buffer is emptied whether or not the file opens.
Flush(p) ==
  /\ ~deferred[p] /\ writing[p] = <<>> /\ buffer[p] # <<>>
  /\ buffer' = [buffer EXCEPT ![p] = <<>>]
  /\ writing' \in {writing, [writing EXCEPT ![p] = buffer[p]]}
  /\ UNCHANGED <<canon, disk, table, deferred, build, solves>>

\* One write per record; other processes write in between. It may fail, or
\* end early, and the next record is written all the same.
WriteRecord(p) ==
  /\ writing[p] # <<>>
  /\ disk' \in {disk} \union UNION {Appended(disk, Head(writing[p]), whole) : whole \in BOOLEAN}
  /\ writing' = [writing EXCEPT ![p] = Tail(@)]
  /\ UNCHANGED <<canon, table, buffer, deferred, build, solves>>

DeferFlush(p) ==
  /\ deferred' = [deferred EXCEPT ![p] = ~@]
  /\ UNCHANGED <<canon, disk, table, buffer, writing, build, solves>>

DiscardPending(p) ==
  /\ buffer[p] # <<>>
  /\ buffer' = [buffer EXCEPT ![p] = <<>>]
  /\ UNCHANGED <<canon, disk, table, writing, deferred, build, solves>>

\* The web page seeds a running worker with the records it kept.
InstallPrebaked(p) ==
  /\ disk # EmptyFile
  /\ table' = [table EXCEPT ![p] = <<Installed(LookupTable(p), disk)>>]
  /\ UNCHANGED <<canon, disk, buffer, writing, deferred, build, solves>>

\* The process ends, perhaps right after a write that ended early, and one of
\* any build follows.
Restart(p, v) ==
  /\ table' = [table EXCEPT ![p] = NotLoaded]
  /\ buffer' = [buffer EXCEPT ![p] = <<>>]
  /\ writing' = [writing EXCEPT ![p] = <<>>]
  /\ deferred' = [deferred EXCEPT ![p] = FALSE]
  /\ build' = [build EXCEPT ![p] = v]
  /\ UNCHANGED <<canon, disk, solves>>

Next ==
  \E p \in Process :
    \/ \E z \in Zones, b \in Budgets : AnswerFromCache(p, z, b) \/ SolveAfresh(p, z, b)
    \/ \E v \in Versions : Restart(p, v)
    \/ Flush(p) \/ WriteRecord(p) \/ DeferFlush(p) \/ DiscardPending(p) \/ InstallPrebaked(p)

Spec == Init /\ [][Next]_vars

-----------------------------------------------------------------------------

\* Unless a cut record of its signature had something written behind it, a zone
\* that is answered from the cache is solved in its own place: belts of its own
\* items lead from its inputs to its outputs, none slower than the belts they
\* meet, whichever image of the zone the solution was found in and whichever
\* process found it (lookup_zone_result).
ReplaySolves ==
  \A p \in Process, z \in Zones :
    Served(p, z) /\ canon[z].sig \notin disk.spoilt => canon[z].replay[Entry(p, z).found] = "solves"

\* The current encoder refuses a zone from the cache only when the solver
\* would refuse it too: verdicts of older encoders and of other zones do not
\* count, but those of a spoilt signature may (try_solve, encoder_version).
RefusalIsRight ==
  \A p \in Process, z \in Zones, b \in Budgets :
    Refused(p, z, b) /\ build[p] = EncoderVersion /\ canon[z].sig \notin disk.spoilt
      => Refusable(z)

\* What a process knows of a zone it knows of every image of the zone, and
\* with the same verdict (canonicalise).
KnownInAllImages ==
  \A p \in Process, z \in Zones : \A y \in canon[z].images :
    /\ Usable(p, z) => Usable(p, y)
    /\ Served(p, z) => Served(p, y)

\* A write that ends early harms nothing while its record is the last in the
\* file, and later no signature but its own: of any other, what a process may
\* use is what the solver once made of a zone with that signature, whoever
\* wrote what behind it (parse_records, encode_record, flush).
KnowsWhatWasLearnt ==
  \A p \in Process : table[p] # NotLoaded =>
    \A s \in DOMAIN table[p][1] \ disk.spoilt :
      LET entry == table[p][1][s]
      IN  entry.version \in Versions =>
            \E z \in Zones, b \in Budgets :
              canon[z].sig = s /\ entry \in Outcomes(entry.version, z, b)
=============================================================================
