---------------------------- MODULE CatalogProofs ----------------------------
(***************************************************************************)
(* Theorems about Catalog for every set of spaces and files, however their *)
(* transactions interleave.  What an open transaction takes for true of a  *)
(* file it writes holds until somebody who was to write it too commits; a  *)
(* file written by one at a time has its node as long as a live document,  *)
(* and a removal of it is honoured.                                        *)
(*                                                                         *)
(* And theorems about Connections: every copy of a source's row that some  *)
(* request has read is, as the row itself, of the drive the source was     *)
(* made for, so it is after any write; and a callback at work is the only  *)
(* one on its state, which nothing consumes meanwhile.                     *)
(*                                                                         *)
(* And theorems about Spaces: at most one acceptance is past its count of  *)
(* the seats, and the one it lets in has a seat and a space or lost it to  *)
(* an administrator.  The places rest on one administrator at a time.      *)
(*                                                                         *)
(* And theorems about ReadingRights: a loss is in the rows the daily job   *)
(* selects by, and since its grace no job was due but those missed.        *)
(*                                                                         *)
(* And theorems about RobotPool: a worker that makes a robot alone has its *)
(* name, which no robot ever had, and its project, which has room.         *)
(***************************************************************************)
EXTENDS Catalog, Connections, Spaces, ReadingRights, RobotPool, FiniteSetTheorems, SequenceTheorems, TLAPS

RunRecord == [stage : Stage, full : BOOLEAN, found : SUBSET Files, good : SUBSET Files, gone : SUBSET Files,
              todo : SUBSET Files, since : SUBSET Files, write : SUBSET Files, insert : SUBSET Files,
              drop : SUBSET Files]

Typed == TypeOK /\ run \in [Spaces -> RunRecord \cup {NoRun}] /\ crossed \subseteq Files

\* A file keeps a live document when the run of space s marks its losses.
Stays(s, r, f) == \E t \in Spaces : IsLive(doc[t][f]) /\ (t = s => f \notin r.write)

\* What a run is about, whatever others write: what it has read, and not left for later, is honoured as
\* removed, about to be written, or in the index; a removal is of one indexed document.
Shape(s, r) ==
    /\ r.stage = "run" => r.write = {}
    /\ r.stage = "projected" => r.insert \subseteq r.write
    /\ r.stage = "removing" => \E f \in Files : r.write = {f} /\ r.insert = {} /\ r.drop \subseteq {f}
                                          /\ doc[s][f] = "indexed"
    /\ r.stage \in {"run", "indexing", "projected"} =>
         \A f \in r.found \ r.todo : Honoured(s, f) \/ f \in r.write \/ IsLive(doc[s][f])

\* What the transaction of space s takes for true of a file it writes: no removal binds it; a node is
\* inserted where there is none; the last commit drops the node of a file without a live document then;
\* of a removed document the node goes unless another space has it indexed.
Claim(s, r, f) ==
    /\ r.stage \in {"indexing", "projected"} /\ f \in r.write => ~Honoured(s, f)
    /\ r.stage = "projected" /\ f \in r.write /\ f \notin node => f \in r.insert
    /\ r.stage = "last" /\ f \in r.insert => IsLive(doc[s][f]) /\ f \notin r.write /\ f \notin r.drop
    /\ r.stage = "last" /\ f \in node => (f \in r.drop <=> ~Stays(s, r, f))
    /\ r.stage = "removing" /\ f \in r.write =>
         (f \in r.drop <=> ~ \E t \in Spaces \ {s} : doc[t][f] = "indexed")

\* A node is of a file with a live document, an indexed document has its node, a removal is honoured.
Sound(f) ==
    /\ f \in node => \E s \in Spaces : IsLive(doc[s][f])
    /\ \A s \in Spaces : doc[s][f] = "indexed" => f \in node
    /\ \A s \in Spaces : <<s, f>> \in banned => Honoured(s, f) /\ doc[s][f] # "indexed"

CatalogInv ==
    /\ Typed
    /\ \A f \in Files \ crossed : Sound(f)
    /\ \A s \in Spaces : run[s] # NoRun => /\ Shape(s, run[s])
                                           /\ \A f \in Written(s) \ crossed : Claim(s, run[s], f)

-----------------------------------------------------------------------------

LEMMA UnderWay ==
    ASSUME CatalogInv, NEW s \in Spaces, run[s] # NoRun
    PROVE  /\ Typed /\ run[s] \in RunRecord /\ Shape(s, run[s])
           /\ \A f \in Written(s) \ crossed : Claim(s, run[s], f)
           /\ Written(s) = run[s].write \cup run[s].insert \cup run[s].drop /\ Written(s) \subseteq Files
<1>1. Typed /\ run[s] \in RunRecord /\ Shape(s, run[s]) /\ \A f \in Written(s) \ crossed : Claim(s, run[s], f)
  BY DEF CatalogInv, Typed
<1>2. Written(s) = run[s].write \cup run[s].insert \cup run[s].drop
  BY DEF Written
<1> QED BY <1>1, <1>2 DEF RunRecord

\* A step of a run that writes neither documents nor the catalog.
LEMMA ReadingStep ==
    ASSUME CatalogInv, NEW s \in Spaces, NEW r \in RunRecord, run' = [run EXCEPT ![s] = r],
           UNCHANGED <<crossed, doc, catalogVars>>, TypeOK', Shape(s, r),
           \A f \in (r.write \cup r.insert \cup r.drop) \ crossed : Claim(s, r, f)
    PROVE  CatalogInv'
<1>1. UNCHANGED <<crossed, doc, node, excluded, bound, banned>> /\ run \in [Spaces -> RunRecord \cup {NoRun}]
  BY DEF catalogVars, CatalogInv, Typed
<1>2. run'[s] = r /\ (\A t \in Spaces \ {s} : run'[t] = run[t]) /\ run' \in [Spaces -> RunRecord \cup {NoRun}]
  BY <1>1
<1>3. Typed'
  BY <1>1, <1>2 DEF Typed, CatalogInv
<1>4. \A f \in (Files \ crossed)' : Sound(f)'
  BY <1>1 DEF CatalogInv, Sound, Honoured, IsLive
<1>5. ASSUME NEW t \in Spaces, run'[t] # NoRun
      PROVE  Shape(t, run[t])' /\ \A f \in (Written(t) \ crossed)' : Claim(t, run[t], f)'
  <2>1. \A f \in Files : (Honoured(t, f)' <=> Honoured(t, f)) /\ doc' = doc /\ node' = node
    BY <1>1 DEF Honoured
  <2>2. CASE t = s
    <3>1. Written(t)' = r.write \cup r.insert \cup r.drop
      BY <1>2, <1>5, <2>2 DEF Written
    <3>2. r.found \subseteq Files /\ r.write \subseteq Files /\ r.insert \subseteq Files /\ r.drop \subseteq Files
      BY DEF RunRecord
    <3>3. Shape(t, run[t])'
      BY <1>2, <2>1, <2>2, <3>2 DEF Shape, IsLive
    <3>4. ASSUME NEW f \in (Written(t) \ crossed)' PROVE Claim(t, run[t], f)'
      <4>1. Claim(s, r, f) /\ f \in Files
        BY <1>1, <3>1, <3>2, <3>4
      <4> QED BY <1>2, <2>1, <2>2, <4>1 DEF Claim, Stays, IsLive
    <3> QED BY <3>3, <3>4
  <2>3. CASE t # s
    <3>1. run'[t] = run[t] /\ run[t] # NoRun
      BY <1>2, <1>5, <2>3
    <3>2. run[t] \in RunRecord /\ Shape(t, run[t]) /\ (\A f \in Written(t) \ crossed : Claim(t, run[t], f))
          /\ Written(t) \subseteq Files
      BY <3>1, UnderWay
    <3>3. Written(t)' = Written(t)
      BY <3>1 DEF Written
    <3>4. Shape(t, run[t])'
      BY <2>1, <3>1, <3>2 DEF Shape, IsLive, RunRecord
    <3>5. ASSUME NEW f \in (Written(t) \ crossed)' PROVE Claim(t, run[t], f)'
      <4>1. Claim(t, run[t], f) /\ f \in Files
        BY <1>1, <3>2, <3>3, <3>5
      <4> QED BY <2>1, <3>1, <4>1 DEF Claim, Stays, IsLive
    <3> QED BY <3>4, <3>5
  <2> QED BY <2>2, <2>3
<1> QED BY <1>3, <1>4, <1>5 DEF CatalogInv

\* A step of space s that writes the rows of some files W: files that others were to write are theirs no
\* more, and of other files nothing changes.
Writes(s, W) ==
    /\ \A t \in Spaces \ {s} : run'[t] = run[t]
    /\ crossed' = crossed \cup {f \in W : \E t \in Spaces \ {s} : f \in Written(t)}
    /\ \A f \in Files \ W : f \in node' <=> f \in node
    /\ \A t \in Spaces, f \in Files \ W : doc'[t][f] = doc[t][f]
    /\ \A t \in Spaces \ {s}, f \in Files : doc'[t][f] = doc[t][f]
    /\ \A t \in Spaces \ {s}, f \in Files : Honoured(t, f) => Honoured(t, f)'
    /\ \A t \in Spaces \ {s}, f \in Files \ W : Honoured(t, f)' => Honoured(t, f)
    /\ \A t \in Spaces, f \in Files \ W : <<t, f>> \in banned' =>
         <<t, f>> \in banned /\ (Honoured(t, f) => Honoured(t, f)')

\* It ends the run of the space, or leaves it between two transactions.
Rests(s) ==
    run'[s] # NoRun => /\ run'[s].stage = "run" /\ run'[s].write = {}
                       /\ \A f \in run'[s].found \ run'[s].todo : Honoured(s, f)' \/ IsLive(doc'[s][f])

LEMMA WritingStep ==
    ASSUME CatalogInv, Typed', NEW s \in Spaces, NEW W \in SUBSET Files, Writes(s, W), Rests(s),
           \A f \in W : f \in crossed' \/ Sound(f)'
    PROVE  CatalogInv'
<1>1. ASSUME NEW f \in (Files \ crossed)' PROVE Sound(f)'
  <2>1. CASE f \in W
    BY <1>1, <2>1
  <2>2. CASE f \notin W
    <3>1. Sound(f) /\ f \in Files
      BY <1>1 DEF CatalogInv, Writes
    <3> QED BY <2>2, <3>1 DEF Sound, IsLive, Writes
  <2> QED BY <2>1, <2>2
<1>2. ASSUME NEW t \in Spaces \ {s}, run'[t] # NoRun
      PROVE  Shape(t, run[t])' /\ \A f \in (Written(t) \ crossed)' : Claim(t, run[t], f)'
  <2>1. run'[t] = run[t] /\ run[t] # NoRun
    BY <1>2 DEF Writes
  <2>2. run[t] \in RunRecord /\ Shape(t, run[t]) /\ (\A f \in Written(t) \ crossed : Claim(t, run[t], f))
        /\ Written(t) \subseteq Files
    BY <2>1, UnderWay
  <2>3. Written(t)' = Written(t)
    BY <2>1 DEF Written
  <2>4. Shape(t, run[t])'
    BY <2>1, <2>2 DEF Shape, IsLive, RunRecord, Writes
  <2>5. ASSUME NEW f \in (Written(t) \ crossed)' PROVE Claim(t, run[t], f)'
    <3>1. f \in Written(t) /\ f \notin crossed /\ f \notin W /\ f \in Files
      BY <2>2, <2>3, <2>5 DEF Writes
    <3>2. Claim(t, run[t], f)
      BY <2>2, <3>1
    <3>3. (Honoured(t, f)' <=> Honoured(t, f)) /\ (f \in node' <=> f \in node) /\ \A u \in Spaces : doc'[u][f] = doc[u][f]
      BY <3>1 DEF Writes
    <3>4. Stays(t, run[t], f)' <=> Stays(t, run[t], f)
      BY <2>1, <3>3 DEF Stays, IsLive
    <3> QED BY <2>1, <3>2, <3>3, <3>4 DEF Claim, IsLive
  <2> QED BY <2>4, <2>5
<1>3. ASSUME run'[s] # NoRun PROVE Shape(s, run[s])' /\ \A f \in (Written(s) \ crossed)' : Claim(s, run[s], f)'
  <2>1. Shape(s, run[s])'
    BY <1>3 DEF Shape, IsLive, Rests
  <2>2. \A f \in (Written(s) \ crossed)' : Claim(s, run[s], f)'
    BY <1>3 DEF Claim, Rests
  <2> QED BY <2>1, <2>2
<1>4. ASSUME NEW t \in Spaces, run'[t] # NoRun
      PROVE  Shape(t, run[t])' /\ \A f \in (Written(t) \ crossed)' : Claim(t, run[t], f)'
  <2>1. CASE t = s
    BY <1>3, <1>4, <2>1
  <2>2. CASE t # s
    BY <1>2, <1>4, <2>2
  <2> QED BY <2>1, <2>2
<1> QED BY <1>1, <1>4 DEF CatalogInv

LEMMA ChangeStep == ASSUME CatalogInv, NEW f \in Files, Change(f) PROVE CatalogInv'
<1>1. /\ UNCHANGED <<crossed, space, hasCursor, doc, ready, catalogVars>>
      /\ run' = [s \in Spaces |-> IF run[s] = NoRun THEN NoRun ELSE [run[s] EXCEPT !.since = run[s].since \cup {f}]]
      /\ pending' = [s \in Spaces |-> pending[s] \cup {f}]
      /\ \E having \in SUBSET Spaces :
            inScope' = [s \in Spaces |-> IF s \in having THEN inScope[s] \cup {f} ELSE inScope[s] \ {f}]
  BY DEF Change
<1>2. Typed /\ UNCHANGED <<node, excluded, bound, banned>>
  BY <1>1 DEF CatalogInv, catalogVars
<1>3. inScope' \in [Spaces -> SUBSET Files] /\ pending' \in [Spaces -> SUBSET Files]
  BY <1>1, <1>2 DEF Typed, TypeOK
<1>4. ASSUME NEW s \in Spaces, run[s] = NoRun PROVE run'[s] = NoRun
  BY <1>1, <1>4
<1>5. ASSUME NEW s \in Spaces, run[s] # NoRun
      PROVE  /\ run[s] \in RunRecord /\ run'[s] \in RunRecord /\ run'[s].stage = run[s].stage
             /\ run'[s].found = run[s].found /\ run'[s].todo = run[s].todo /\ run'[s].write = run[s].write
             /\ run'[s].insert = run[s].insert /\ run'[s].drop = run[s].drop
  <2>1. run'[s] = [run[s] EXCEPT !.since = run[s].since \cup {f}] /\ run[s] \in RunRecord
    BY <1>1, <1>5, UnderWay
  <2> QED BY <2>1 DEF RunRecord
<1>6. run' \in [Spaces -> RunRecord \cup {NoRun}]
  <2>1. \A s \in Spaces : run'[s] \in RunRecord \cup {NoRun}
    BY <1>4, <1>5
  <2> QED BY <1>1, <2>1
<1>7. Typed'
  BY <1>1, <1>2, <1>3, <1>6 DEF Typed, TypeOK, RunRecord
<1>8. \A h \in (Files \ crossed)' : Sound(h)'
  BY <1>1, <1>2 DEF CatalogInv, Sound, Honoured, IsLive
<1>9. ASSUME NEW s \in Spaces, run'[s] # NoRun
      PROVE  Shape(s, run[s])' /\ \A h \in (Written(s) \ crossed)' : Claim(s, run[s], h)'
  <2>1. run[s] # NoRun
    BY <1>4, <1>9
  <2>2. Shape(s, run[s]) /\ (\A h \in Written(s) \ crossed : Claim(s, run[s], h)) /\ Written(s) \subseteq Files
    BY <2>1, UnderWay
  <2>3. \A h \in Files : (Honoured(s, h)' <=> Honoured(s, h)) /\ doc' = doc /\ node' = node /\ crossed' = crossed
    BY <1>1, <1>2 DEF Honoured
  <2>4. Written(s)' = Written(s)
    BY <1>5, <1>9, <2>1 DEF Written
  <2>5. Shape(s, run[s])'
    BY <1>5, <2>1, <2>2, <2>3 DEF Shape, IsLive, RunRecord
  <2>6. ASSUME NEW h \in (Written(s) \ crossed)' PROVE Claim(s, run[s], h)'
    <3>1. Claim(s, run[s], h) /\ h \in Files
      BY <2>2, <2>3, <2>4, <2>6
    <3> QED BY <1>5, <2>1, <2>3, <3>1 DEF Claim, Stays, IsLive
  <2> QED BY <2>5, <2>6
<1> QED BY <1>7, <1>8, <1>9 DEF CatalogInv

LEMMA DiscoverStep ==
    ASSUME CatalogInv, NEW s \in Spaces, NEW any \in BOOLEAN, Discover(s, any) PROVE CatalogInv'
<1>1. Typed
  BY DEF CatalogInv
<1>2. PICK full \in BOOLEAN, found \in SUBSET Files, good \in SUBSET Files, gone \in SUBSET Files :
        run' = [run EXCEPT ![s] = [Idle EXCEPT !.full = full, !.found = found, !.good = good, !.todo = found, !.gone = gone]]
  <2> DEFINE full == any \/ ~hasCursor[s] \/ ~HasData(s)
             wanted == pending[s] \cup {f \in Files : doc[s][f] = "failed"} \cup (node \cap Orphans(doc))
             found == {f \in inScope[s] : (full \/ f \in wanted) /\ ~Honoured(s, f)}
  <2>1. full \in BOOLEAN /\ found \in SUBSET Files /\ wanted \in SUBSET Files
    BY <1>1 DEF Typed, TypeOK, HasData
  <2>2. PICK good \in SUBSET found :
          run' = [run EXCEPT ![s] = [Idle EXCEPT !.full = full, !.found = found, !.good = good, !.todo = found,
                                                 !.gone = IF full THEN {} ELSE wanted \ inScope[s]]]
    BY DEF Discover
  <2>3. (IF full THEN {} ELSE wanted \ inScope[s]) \in SUBSET Files /\ good \in SUBSET Files
    BY <2>1
  <2> HIDE DEF full, wanted, found
  <2> QED BY <2>1, <2>2, <2>3
<1> DEFINE r == [Idle EXCEPT !.full = full, !.found = found, !.good = good, !.todo = found, !.gone = gone]
<1>3. r \in RunRecord /\ r.stage = "run" /\ r.write = {} /\ r.insert = {} /\ r.drop = {} /\ r.found = r.todo
  BY DEF RunRecord, Idle, Stage
<1>4. run' = [run EXCEPT ![s] = r]
  BY <1>2
<1> HIDE DEF r
<1>5. Shape(s, r)
  BY <1>3 DEF Shape
<1>6. UNCHANGED <<crossed, space, sourceVars, doc, catalogVars>> /\ ready' = [ready EXCEPT ![s] = FALSE]
  BY DEF Discover
<1>7. TypeOK'
  BY <1>1, <1>3, <1>4, <1>6 DEF Typed, TypeOK, sourceVars, catalogVars, RunRecord
<1> QED BY <1>3, <1>4, <1>5, <1>6, <1>7, ReadingStep

LEMMA OpenBatchStep ==
    ASSUME CatalogInv, NEW s \in Spaces, NEW batch \in SUBSET Files, OpenBatch(s, batch) PROVE CatalogInv'
<1>1. /\ run[s].stage = "run" /\ run[s] # NoRun /\ batch \subseteq run[s].todo
      /\ UNCHANGED <<crossed, space, sourceVars, doc, ready, catalogVars>>
  BY DEF OpenBatch, At
<1>2. Typed /\ run[s] \in RunRecord /\ Shape(s, run[s])
  BY <1>1, UnderWay
<1> DEFINE write == {f \in batch : ~Honoured(s, f)}
           r == [run[s] EXCEPT !.stage = "indexing", !.todo = run[s].todo \ batch, !.write = write]
<1>3. run' = [run EXCEPT ![s] = r]
  BY <1>2 DEF OpenBatch, Typed
<1>4. write \subseteq Files /\ (\A f \in batch : f \in write \/ Honoured(s, f)) /\ \A f \in write : ~Honoured(s, f)
  OBVIOUS
<1> HIDE DEF write
<1>5. r \in RunRecord /\ r.stage = "indexing" /\ r.todo = run[s].todo \ batch /\ r.write = write /\ r.found = run[s].found
  BY <1>2, <1>4 DEF RunRecord, Stage
<1> HIDE DEF r
<1>6. Shape(s, r)
  BY <1>1, <1>2, <1>4, <1>5 DEF Shape
<1>7. \A f \in (r.write \cup r.insert \cup r.drop) \ crossed : Claim(s, r, f)
  BY <1>4, <1>5 DEF Claim
<1>8. TypeOK'
  BY <1>1, <1>2, <1>3, <1>5 DEF Typed, TypeOK, sourceVars, catalogVars, RunRecord
<1> QED BY <1>1, <1>3, <1>5, <1>6, <1>7, <1>8, ReadingStep

LEMMA ProjectBatchStep == ASSUME CatalogInv, NEW s \in Spaces, ProjectBatch(s) PROVE CatalogInv'
<1>1. run[s].stage = "indexing" /\ run[s] # NoRun /\ UNCHANGED <<crossed, space, sourceVars, doc, ready, catalogVars>>
  BY DEF ProjectBatch, At
<1>2. /\ Typed /\ run[s] \in RunRecord /\ Shape(s, run[s])
      /\ (\A f \in Written(s) \ crossed : Claim(s, run[s], f))
      /\ Written(s) = run[s].write \cup run[s].insert \cup run[s].drop
  BY <1>1, UnderWay
<1> DEFINE insert == {f \in run[s].write : ~Honoured(s, f)} \ node
           r == [run[s] EXCEPT !.stage = "projected", !.insert = insert]
<1>3. run' = [run EXCEPT ![s] = r]
  BY <1>2 DEF ProjectBatch, Typed
<1>4. insert \subseteq run[s].write /\ \A f \in run[s].write : ~Honoured(s, f) /\ f \notin node => f \in insert
  OBVIOUS
<1> HIDE DEF insert
<1>5. r \in RunRecord /\ r.stage = "projected" /\ r.todo = run[s].todo /\ r.write = run[s].write
      /\ r.found = run[s].found /\ r.insert = insert /\ r.drop = run[s].drop
  BY <1>2, <1>4 DEF RunRecord, Stage
<1> HIDE DEF r
<1>6. Shape(s, r)
  BY <1>1, <1>2, <1>4, <1>5 DEF Shape
<1>7. \A f \in (r.write \cup r.insert \cup r.drop) \ crossed : Claim(s, r, f)
  BY <1>1, <1>2, <1>4, <1>5 DEF Claim
<1>8. TypeOK'
  BY <1>1, <1>2, <1>3, <1>5 DEF Typed, TypeOK, sourceVars, catalogVars, RunRecord
<1> QED BY <1>1, <1>3, <1>5, <1>6, <1>7, <1>8, ReadingStep

LEMMA CommitBatchStep == ASSUME CatalogInv, NEW s \in Spaces, CommitBatch(s) PROVE CatalogInv'
<1>1. /\ run[s].stage = "projected" /\ run[s] # NoRun /\ UNCHANGED <<space, sourceVars, ready, excluded, bound, banned>>
      /\ doc' = [doc EXCEPT ![s] = [f \in Files |-> IF f \in run[s].write THEN Indexed(s, f) ELSE doc[s][f]]]
      /\ node' = node \cup run[s].insert /\ Cross(s, Written(s))
  BY DEF CommitBatch, At
<1>2. /\ Typed /\ run[s] \in RunRecord /\ Shape(s, run[s])
      /\ (\A f \in Written(s) \ crossed : Claim(s, run[s], f))
      /\ Written(s) = run[s].write \cup run[s].insert \cup run[s].drop /\ Written(s) \subseteq Files
  BY <1>1, UnderWay
<1>3. doc \in [Spaces -> [Files -> DocStatus]] /\ run[s].write \subseteq Files /\ node \subseteq Files
  BY <1>2 DEF Typed, TypeOK, RunRecord
<1>4. \A f \in Files : Indexed(s, f) \in DocStatus /\ IsLive(Indexed(s, f))
  BY DEF Indexed, DocStatus, IsLive
<1>5. /\ doc' \in [Spaces -> [Files -> DocStatus]]
      /\ \A t \in Spaces \ {s}, f \in Files : doc'[t][f] = doc[t][f]
      /\ \A f \in Files : doc'[s][f] = IF f \in run[s].write THEN Indexed(s, f) ELSE doc[s][f]
  BY <1>1, <1>3, <1>4
<1>r. PICK r : r = [run[s] EXCEPT !.stage = "run", !.write = {}, !.insert = {}]
  OBVIOUS
<1>6. run' = [run EXCEPT ![s] = r]
  BY <1>2, <1>r DEF CommitBatch, Typed
<1>7. r \in RunRecord /\ r.stage = "run" /\ r.todo = run[s].todo /\ r.write = {} /\ r.found = run[s].found /\ r.insert = {}
  BY <1>2, <1>r DEF RunRecord, Stage
<1>8. run'[s] = r /\ (\A t \in Spaces \ {s} : run'[t] = run[t]) /\ run' \in [Spaces -> RunRecord \cup {NoRun}]
  BY <1>2, <1>6, <1>7 DEF Typed
<1>9. crossed' = crossed \cup {f \in Written(s) : \E t \in Spaces \ {s} : f \in Written(t)}
  BY <1>1 DEF Cross
<1>10. Typed'
  <2>1. TypeOK'
    BY <1>1, <1>2, <1>3, <1>5, <1>8 DEF Typed, TypeOK, sourceVars, RunRecord
  <2> QED BY <1>2, <1>8, <1>9, <2>1 DEF Typed
<1>11. ASSUME NEW f \in Written(s) \ crossed' PROVE Sound(f)'
  <2>1. f \in Files /\ f \notin crossed /\ Sound(f) /\ Claim(s, run[s], f)
    BY <1>2, <1>9, <1>11 DEF CatalogInv
  <2>2. CASE f \in run[s].write
    <3>1. ~Honoured(s, f) /\ f \in node'
      BY <1>1, <2>1, <2>2 DEF Claim
    <3>2. IsLive(doc'[s][f])
      BY <1>4, <1>5, <2>1, <2>2
    <3>3. \A t \in Spaces : <<t, f>> \in banned' => t # s
      BY <1>1, <2>1, <3>1 DEF Sound
    <3> QED BY <1>1, <1>5, <2>1, <3>1, <3>2, <3>3 DEF Sound, Honoured, IsLive
  <2>3. CASE f \notin run[s].write
    <3>1. f \notin run[s].insert /\ \A t \in Spaces : doc'[t][f] = doc[t][f]
      BY <1>1, <1>2, <1>5, <2>1, <2>3 DEF Shape
    <3> QED BY <1>1, <2>1, <3>1 DEF Sound, Honoured, IsLive
  <2> QED BY <2>2, <2>3
<1>12. \A f \in run'[s].found \ run'[s].todo : Honoured(s, f)' \/ IsLive(doc'[s][f])
  <2>1. \A f \in run[s].found \ run[s].todo : Honoured(s, f)' \/ IsLive(doc'[s][f])
    BY <1>1, <1>2, <1>4, <1>5 DEF Shape, Honoured, RunRecord, IsLive
  <2> QED BY <1>7, <1>8, <2>1
<1>13. run'[s].stage = "run" /\ run'[s].write = {}
  BY <1>7, <1>8
<1>14. \A t \in Spaces, f \in Files : (Honoured(t, f)' <=> Honoured(t, f))
  BY <1>1 DEF Honoured
<1>15. \A f \in Files \ Written(s) : (f \in node' <=> f \in node) /\ \A t \in Spaces : doc'[t][f] = doc[t][f]
  BY <1>1, <1>2, <1>5
<1>16. \A t \in Spaces, f \in Files \ Written(s) : <<t, f>> \in banned' =>
            <<t, f>> \in banned /\ (Honoured(t, f) => Honoured(t, f)')
  BY <1>1, <1>14
<1>17. \A f \in Written(s) : f \in crossed' \/ Sound(f)'
  BY <1>11
<1>18. Written(s) \in SUBSET Files
  BY <1>2
<1>19. Writes(s, Written(s))
  BY <1>5, <1>8, <1>9, <1>14, <1>15, <1>16 DEF Writes
<1>20. Rests(s)
  BY <1>12, <1>13 DEF Rests
<1> QED BY <1>10, <1>17, <1>18, <1>19, <1>20, WritingStep

LEMMA OpenLastStep == ASSUME CatalogInv, NEW s \in Spaces, OpenLast(s) PROVE CatalogInv'
<1> DEFINE current == {f \in run[s].found : ~Honoured(s, f)}
           lost == Lost(s, current)
           after == [doc EXCEPT ![s] = [f \in Files |-> IF f \in lost THEN "removed" ELSE doc[s][f]]]
           insert == current \ node
           drop == Pruned(s, after, current)
<1>1. /\ run[s].stage = "run" /\ run[s] # NoRun /\ run[s].todo = {}
      /\ UNCHANGED <<crossed, space, sourceVars, doc, ready, catalogVars>>
  BY DEF OpenLast, At
<1>2. Typed /\ run[s] \in RunRecord /\ Shape(s, run[s])
  BY <1>1, UnderWay
<1>3. ASSUME NEW f \in insert PROVE IsLive(doc[s][f]) /\ f \notin lost /\ f \notin drop /\ f \in Files
  BY <1>1, <1>2 DEF Shape, Lost, Pruned, RunRecord
<1>4. lost \subseteq Files /\ drop \subseteq node
  BY <1>2 DEF Lost, Pruned, RunRecord, Typed, TypeOK
<1>5. doc \in [Spaces -> [Files -> DocStatus]] /\ node \subseteq Files
  BY <1>2 DEF Typed, TypeOK
<1> DEFINE r == [run[s] EXCEPT !.stage = "last", !.write = lost, !.insert = insert, !.drop = drop]
<1>6. run' = [run EXCEPT ![s] = r]
  <2>1. run' = [run EXCEPT ![s].stage = "last", ![s].write = lost, ![s].insert = insert, ![s].drop = drop]
    BY DEF OpenLast
  <2> HIDE DEF drop, lost, insert
  <2> QED BY <1>2, <2>1 DEF Typed
<1>7. \A t \in Spaces, f \in Files : after[t][f] = IF t = s /\ f \in lost THEN "removed" ELSE doc[t][f]
  <2> HIDE DEF lost
  <2> QED BY <1>5
<1>8. ASSUME NEW f \in node \ crossed
      PROVE  f \in drop <=> ~ \E t \in Spaces : IsLive(doc[t][f]) /\ (t = s => f \notin lost)
  <2>1. f \in Files
    BY <1>5
  <2>2. PICK t \in Spaces : IsLive(doc[t][f])
    BY <2>1 DEF CatalogInv, Sound
  <2>3. f \in Orphans(after) <=> ~ \E u \in Spaces : IsLive(doc[u][f]) /\ (u = s => f \notin lost)
    <3> HIDE DEF lost, after
    <3> QED BY <1>7, <2>1 DEF Orphans, IsLive
  <2>4. f \in drop => f \in Orphans(after)
    BY DEF Pruned
  <2>5. f \in Orphans(after) => after[s][f] = "removed"
    <3> HIDE DEF lost, after
    <3> QED BY <1>7, <2>1, <2>2, <2>3
  <2>6. f \in Orphans(after) => f \in drop
    BY <2>5 DEF Pruned
  <2> QED BY <2>3, <2>4, <2>6
<1> HIDE DEF drop, lost, insert
<1>9. r \in RunRecord /\ r.stage = "last" /\ r.write = lost /\ r.insert = insert /\ r.drop = drop
  BY <1>2, <1>3, <1>4, <1>5 DEF RunRecord, Stage
<1> HIDE DEF r
<1>10. Shape(s, r)
  BY <1>9 DEF Shape
<1>11. \A f \in (r.write \cup r.insert \cup r.drop) \ crossed : Claim(s, r, f)
  BY <1>3, <1>8, <1>9 DEF Claim, Stays
<1>12. TypeOK'
  BY <1>1, <1>2, <1>6, <1>9 DEF Typed, TypeOK, sourceVars, catalogVars, RunRecord
<1> QED BY <1>1, <1>6, <1>9, <1>10, <1>11, <1>12, ReadingStep

LEMMA CommitLastStep == ASSUME CatalogInv, NEW s \in Spaces, CommitLast(s) PROVE CatalogInv'
<1>1. /\ run[s].stage = "last" /\ run[s] # NoRun /\ UNCHANGED <<space, inScope, excluded, bound, banned>>
      /\ doc' = [doc EXCEPT ![s] = [f \in Files |-> IF f \in run[s].write THEN "removed" ELSE doc[s][f]]]
      /\ node' = (node \cup run[s].insert) \ run[s].drop /\ run' = [run EXCEPT ![s] = NoRun]
      /\ pending' = [pending EXCEPT ![s] = run[s].since] /\ hasCursor' = [hasCursor EXCEPT ![s] = TRUE]
      /\ ready' = [ready EXCEPT ![s] = TRUE] /\ Cross(s, Written(s)) /\ run[s].insert \cap node = {}
  BY DEF CommitLast, At
<1>2. /\ Typed /\ run[s] \in RunRecord
      /\ (\A f \in Written(s) \ crossed : Claim(s, run[s], f))
      /\ Written(s) = run[s].write \cup run[s].insert \cup run[s].drop /\ Written(s) \subseteq Files
  BY <1>1, UnderWay
<1>3. doc \in [Spaces -> [Files -> DocStatus]] /\ node \subseteq Files
  BY <1>2 DEF Typed, TypeOK
<1>4. /\ doc' \in [Spaces -> [Files -> DocStatus]]
      /\ \A t \in Spaces, f \in Files : doc'[t][f] = IF t = s /\ f \in run[s].write THEN "removed" ELSE doc[t][f]
  BY <1>1, <1>3 DEF DocStatus
<1>5. run'[s] = NoRun /\ (\A t \in Spaces \ {s} : run'[t] = run[t]) /\ run' \in [Spaces -> RunRecord \cup {NoRun}]
  BY <1>1, <1>2 DEF Typed
<1>6. crossed' = crossed \cup {f \in Written(s) : \E t \in Spaces \ {s} : f \in Written(t)}
  BY <1>1 DEF Cross
<1>7. Typed'
  <2>1. TypeOK'
    BY <1>1, <1>2, <1>3, <1>4, <1>5 DEF Typed, TypeOK, RunRecord
  <2> QED BY <1>2, <1>5, <1>6, <2>1 DEF Typed
<1>8. ASSUME NEW f \in Written(s) \ crossed' PROVE Sound(f)'
  <2>1. f \in Files /\ f \notin crossed /\ Sound(f) /\ Claim(s, run[s], f)
    BY <1>2, <1>6, <1>8 DEF CatalogInv
  <2>2. f \in node' => \E t \in Spaces : IsLive(doc'[t][f])
    <3>1. CASE f \in run[s].insert
      BY <1>1, <1>4, <2>1, <3>1 DEF Claim
    <3>2. CASE f \in node /\ f \notin run[s].drop
      <4>1. PICK t \in Spaces : IsLive(doc[t][f]) /\ (t = s => f \notin run[s].write)
        BY <1>1, <2>1, <3>2 DEF Claim, Stays
      <4> QED BY <1>4, <2>1, <4>1
    <3> QED BY <1>1, <3>1, <3>2
  <2>3. ASSUME NEW t \in Spaces, doc'[t][f] = "indexed" PROVE f \in node'
    <3>1. doc[t][f] = "indexed" /\ (t = s => f \notin run[s].write)
      BY <1>4, <2>1, <2>3
    <3>2. f \in node /\ Stays(s, run[s], f)
      BY <2>1, <3>1 DEF Sound, Stays, IsLive
    <3> QED BY <1>1, <2>1, <3>2 DEF Claim
  <2>4. \A t \in Spaces : <<t, f>> \in banned' => Honoured(t, f)' /\ doc'[t][f] # "indexed"
    BY <1>1, <1>4, <2>1 DEF Sound, Honoured
  <2> QED BY <2>2, <2>3, <2>4 DEF Sound, IsLive
<1>9. \A t \in Spaces, f \in Files : (Honoured(t, f)' <=> Honoured(t, f))
  BY <1>1 DEF Honoured
<1>10. \A f \in Files \ Written(s) : (f \in node' <=> f \in node) /\ \A t \in Spaces : doc'[t][f] = doc[t][f]
  BY <1>1, <1>2, <1>4
<1>11. (\A t \in Spaces \ {s}, f \in Files : doc'[t][f] = doc[t][f]) /\ banned' = banned
  BY <1>1, <1>4
<1>12. Writes(s, Written(s))
  BY <1>5, <1>6, <1>9, <1>10, <1>11 DEF Writes
<1>13. Rests(s)
  BY <1>5 DEF Rests
<1>14. \A f \in Written(s) : f \in crossed' \/ Sound(f)'
  BY <1>8
<1> QED BY <1>2, <1>7, <1>12, <1>13, <1>14, WritingStep

LEMMA AbortStep == ASSUME CatalogInv, NEW s \in Spaces, Abort(s) PROVE CatalogInv'
<1>1. run[s] # NoRun /\ run' = [run EXCEPT ![s] = NoRun] /\ UNCHANGED <<crossed, space, sourceVars, doc, ready, catalogVars>>
  BY DEF Abort
<1>2. Typed
  BY DEF CatalogInv
<1>3. run'[s] = NoRun /\ (\A t \in Spaces \ {s} : run'[t] = run[t]) /\ run' \in [Spaces -> RunRecord \cup {NoRun}]
  BY <1>1, <1>2 DEF Typed
<1>4. Typed'
  BY <1>1, <1>2, <1>3 DEF Typed, TypeOK, sourceVars, catalogVars, RunRecord
<1>5. \A t \in Spaces, f \in Files : (Honoured(t, f)' <=> Honoured(t, f))
  BY <1>1 DEF Honoured, catalogVars
<1>6. UNCHANGED <<doc, node, banned, crossed>>
  BY <1>1 DEF catalogVars
<1>7. Writes(s, {}) /\ Rests(s)
  BY <1>3, <1>5, <1>6 DEF Writes, Rests
<1>8. {} \in SUBSET Files /\ \A f \in {} : f \in crossed' \/ Sound(f)'
  OBVIOUS
<1> QED BY <1>4, <1>7, <1>8, WritingStep

LEMMA OpenRemoveStep == ASSUME CatalogInv, NEW s \in Spaces, NEW f \in Files, OpenRemove(s, f) PROVE CatalogInv'
<1>1. Typed /\ doc[s][f] = "indexed" /\ UNCHANGED <<crossed, space, sourceVars, doc, ready, catalogVars>>
  BY DEF OpenRemove, CatalogInv
<1> DEFINE drop == IF \E t \in Spaces \ {s} : doc[t][f] = "indexed" THEN {} ELSE {f}
           r == [Idle EXCEPT !.stage = "removing", !.write = {f}, !.drop = drop]
<1>2. run' = [run EXCEPT ![s] = r] /\ drop \subseteq {f}
  BY DEF OpenRemove
<1>3. f \in drop <=> ~ \E t \in Spaces \ {s} : doc[t][f] = "indexed"
  OBVIOUS
<1> HIDE DEF drop
<1>4. r \in RunRecord /\ r.stage = "removing" /\ r.write = {f} /\ r.insert = {} /\ r.drop = drop
  BY <1>2 DEF RunRecord, Idle, Stage
<1> HIDE DEF r
<1>5. Shape(s, r)
  BY <1>1, <1>2, <1>4 DEF Shape
<1>6. \A h \in (r.write \cup r.insert \cup r.drop) \ crossed : Claim(s, r, h)
  BY <1>2, <1>3, <1>4 DEF Claim
<1>7. TypeOK'
  BY <1>1, <1>2, <1>4 DEF Typed, TypeOK, sourceVars, catalogVars, RunRecord
<1> QED BY <1>1, <1>2, <1>4, <1>5, <1>6, <1>7, ReadingStep

LEMMA CommitRemoveStep == ASSUME CatalogInv, NEW s \in Spaces, CommitRemove(s) PROVE CatalogInv'
<1>1. run[s].stage = "removing" /\ run[s] # NoRun /\ UNCHANGED <<space, sourceVars, ready>> /\ Cross(s, Written(s))
  BY DEF CommitRemove, At
<1>2. /\ Typed /\ run[s] \in RunRecord /\ Shape(s, run[s])
      /\ (\A f \in Written(s) \ crossed : Claim(s, run[s], f))
      /\ Written(s) = run[s].write \cup run[s].insert \cup run[s].drop /\ Written(s) \subseteq Files
  BY <1>1, UnderWay
<1>3. PICK f \in Files : run[s].write = {f} /\ run[s].drop \subseteq {f} /\ doc[s][f] = "indexed"
  BY <1>1, <1>2 DEF Shape
<1> DEFINE left == \E t \in Spaces \ {s} : doc[t][f] = "indexed"
<1>4. (CHOOSE x \in run[s].write : TRUE) = f
  BY <1>3
<1>5. /\ doc' = [doc EXCEPT ![s][f] = "none"] /\ node' = node \ run[s].drop /\ excluded' = excluded \cup run[s].drop
      /\ bound' = IF run[s].drop # {} /\ f \notin excluded THEN [bound EXCEPT ![f] = space] ELSE bound
      /\ banned' = IF left \/ f \in excluded THEN banned ELSE banned \cup (space \X {f})
      /\ run' = [run EXCEPT ![s] = NoRun]
  BY <1>4 DEF CommitRemove, Bind
<1>6. /\ doc \in [Spaces -> [Files -> DocStatus]] /\ node \subseteq Files /\ excluded \subseteq Files /\ space \subseteq Spaces
      /\ bound \in [Files -> SUBSET Spaces] /\ banned \subseteq Spaces \X Files
  BY <1>2 DEF Typed, TypeOK
<1>7. /\ doc' \in [Spaces -> [Files -> DocStatus]]
      /\ \A t \in Spaces, h \in Files : doc'[t][h] = IF t = s /\ h = f THEN "none" ELSE doc[t][h]
  BY <1>5, <1>6 DEF DocStatus
<1>8. /\ bound' \in [Files -> SUBSET Spaces]
      /\ \A h \in Files : bound'[h] = IF h = f /\ run[s].drop # {} /\ f \notin excluded THEN space ELSE bound[h]
  BY <1>5, <1>6
<1>9. /\ banned' \subseteq Spaces \X Files
      /\ \A t \in Spaces, h \in Files : <<t, h>> \in banned' =>
            <<t, h>> \in banned \/ (h = f /\ t \in space /\ f \notin excluded /\ ~left)
  <2> HIDE DEF left
  <2> QED BY <1>5, <1>6
<1>10. run'[s] = NoRun /\ (\A t \in Spaces \ {s} : run'[t] = run[t]) /\ run' \in [Spaces -> RunRecord \cup {NoRun}]
  BY <1>2, <1>5 DEF Typed
<1>11. Written(s) \in SUBSET Files /\ f \in Written(s) /\ \A h \in Written(s) : h = f
  BY <1>2, <1>3, <1>1 DEF Shape, RunRecord
<1>12. crossed' = crossed \cup {h \in Written(s) : \E t \in Spaces \ {s} : h \in Written(t)}
  BY <1>1 DEF Cross
<1>13. Typed'
  <2>1. TypeOK'
    BY <1>1, <1>3, <1>5, <1>6, <1>7, <1>8, <1>9, <1>10, <1>2 DEF Typed, TypeOK, sourceVars, RunRecord
  <2> QED BY <1>2, <1>10, <1>12, <2>1 DEF Typed
<1>14. ASSUME f \notin crossed' PROVE Sound(f)'
  <2>1. Sound(f) /\ (f \in run[s].drop <=> ~left)
    BY <1>1, <1>2, <1>3, <1>11, <1>12, <1>14 DEF CatalogInv, Claim
  <2>2. CASE left
    <3>1. (f \in node' <=> f \in node) /\ (f \in excluded' <=> f \in excluded) /\ bound'[f] = bound[f]
      BY <1>3, <1>5, <1>8, <2>1, <2>2
    <3>2. PICK u \in Spaces \ {s} : doc[u][f] = "indexed"
      BY <2>2
    <3>3. doc'[u][f] = "indexed" /\ IsLive(doc'[u][f])
      BY <1>7, <3>2 DEF IsLive
    <3>4. \A t \in Spaces : <<t, f>> \in banned' => <<t, f>> \in banned
      BY <1>9, <2>2
    <3> QED BY <1>7, <2>1, <3>1, <3>2, <3>3, <3>4 DEF Sound, Honoured, IsLive
  <2>3. CASE ~left
    <3>1. f \notin node' /\ f \in excluded' /\ \A t \in Spaces : doc'[t][f] # "indexed"
      BY <1>5, <1>7, <2>1, <2>3
    <3>2. ASSUME NEW t \in Spaces, <<t, f>> \in banned' PROVE t \in bound'[f]
      <4>1. CASE f \in excluded
        BY <1>8, <1>9, <2>1, <3>2, <4>1 DEF Sound, Honoured
      <4>2. CASE f \notin excluded
        BY <1>8, <1>9, <2>1, <2>3, <3>2, <4>2 DEF Sound, Honoured
      <4> QED BY <4>1, <4>2
    <3> QED BY <3>1, <3>2 DEF Sound, Honoured
  <2> QED BY <2>2, <2>3
<1>15. \A h \in Written(s) : h \in crossed' \/ Sound(h)'
  <2> SUFFICES ASSUME NEW h \in Written(s), h \notin crossed' PROVE Sound(h)'
    OBVIOUS
  <2>1. h = f
    BY <1>11
  <2> QED BY <1>14, <2>1
<1>16. \A t \in Spaces, h \in Files : Honoured(t, h) => Honoured(t, h)'
  BY <1>3, <1>5, <1>8 DEF Honoured
<1>17. \A h \in Files \ Written(s) :
          /\ h \in node' <=> h \in node
          /\ \A t \in Spaces : doc'[t][h] = doc[t][h]
          /\ \A t \in Spaces : Honoured(t, h)' => Honoured(t, h)
          /\ \A t \in Spaces : <<t, h>> \in banned' => <<t, h>> \in banned
  BY <1>3, <1>5, <1>7, <1>8, <1>9, <1>11 DEF Honoured
<1>18. \A t \in Spaces \ {s}, h \in Files : doc'[t][h] = doc[t][h]
  BY <1>7
<1>19. Writes(s, Written(s))
  BY <1>10, <1>12, <1>16, <1>17, <1>18 DEF Writes
<1>20. Rests(s)
  BY <1>10 DEF Rests
<1> QED BY <1>11, <1>13, <1>15, <1>19, <1>20, WritingStep

LEMMA AddSpaceStep == ASSUME CatalogInv, NEW s \in Spaces, AddSpace(s) PROVE CatalogInv'
<1>1. /\ UNCHANGED <<crossed, inScope, hasCursor, doc, ready, node, excluded, bound, banned, run>>
      /\ space' = space \cup {s} /\ pending' = [pending EXCEPT ![s] = {}]
  BY DEF AddSpace, catalogVars
<1>2. Typed'
  BY <1>1 DEF CatalogInv, Typed, TypeOK
<1>3. \A f \in (Files \ crossed)' : Sound(f)'
  BY <1>1 DEF CatalogInv, Sound, Honoured, IsLive
<1>4. ASSUME NEW t \in Spaces
      PROVE  /\ Shape(t, run[t])' <=> Shape(t, run[t])
             /\ \A f \in Files : Claim(t, run[t], f)' <=> Claim(t, run[t], f)
  BY <1>1 DEF Shape, Claim, Honoured, Stays, IsLive
<1>5. ASSUME NEW t \in Spaces, run[t] # NoRun
      PROVE  Shape(t, run[t])' /\ \A f \in (Written(t) \ crossed)' : Claim(t, run[t], f)'
  <2>1. Shape(t, run[t]) /\ (\A f \in Written(t) \ crossed : Claim(t, run[t], f)) /\ Written(t) \subseteq Files
    BY <1>5, UnderWay
  <2>2. Written(t)' = Written(t)
    BY <1>1 DEF Written
  <2>3. ASSUME NEW f \in (Written(t) \ crossed)' PROVE Claim(t, run[t], f)'
    <3>1. f \in Files /\ Claim(t, run[t], f)
      BY <1>1, <2>1, <2>2, <2>3
    <3> QED BY <1>4, <3>1
  <2> QED BY <1>4, <2>1, <2>3
<1> QED BY <1>1, <1>2, <1>3, <1>5 DEF CatalogInv

LEMMA RemoveSpaceStep == ASSUME CatalogInv, NEW s \in Spaces, RemoveSpace(s) PROVE CatalogInv'
<1> DEFINE W == {f \in Files : doc[s][f] # "none"} \cup (node \ node') \cup (excluded \ excluded')
<1>1. /\ Typed /\ run[s] = NoRun /\ UNCHANGED <<inScope, pending, run>> /\ space' = space \ {s}
      /\ doc' = [doc EXCEPT ![s] = [f \in Files |-> "none"]]
      /\ hasCursor' = [hasCursor EXCEPT ![s] = FALSE] /\ ready' = [ready EXCEPT ![s] = FALSE]
      /\ bound' = [f \in Files |-> bound[f] \ {s}] /\ excluded' = {f \in excluded : bound'[f] # {}}
      /\ node' = node \ Orphans(doc') /\ banned' = {p \in banned : p[1] # s}
      /\ crossed' = crossed \cup {f \in W : \E t \in Spaces \ {s} : f \in Written(t)}
  BY DEF RemoveSpace, CatalogInv, Cross
<1>2. /\ doc \in [Spaces -> [Files -> DocStatus]] /\ node \subseteq Files /\ banned \subseteq Spaces \X Files
      /\ bound \in [Files -> SUBSET Spaces] /\ excluded \subseteq Files /\ crossed \subseteq Files
  BY <1>1 DEF Typed, TypeOK
<1>3. /\ doc' \in [Spaces -> [Files -> DocStatus]]
      /\ \A t \in Spaces, f \in Files : doc'[t][f] = IF t = s THEN "none" ELSE doc[t][f]
  BY <1>1, <1>2 DEF DocStatus
<1>4. Typed' /\ W \in SUBSET Files
  <2>1. W \in SUBSET Files
    BY <1>2
  <2>2. TypeOK'
    BY <1>1, <1>2, <1>3 DEF Typed, TypeOK
  <2> HIDE DEF W
  <2> QED BY <1>1, <1>2, <2>1, <2>2 DEF Typed
<1>5. \A t \in Spaces, f \in Files : <<t, f>> \in banned' => <<t, f>> \in banned /\ t # s
  BY <1>1
<1>6. ASSUME NEW t \in Spaces \ {s}, NEW f \in Files PROVE Honoured(t, f)' <=> Honoured(t, f)
  BY <1>1, <1>2 DEF Honoured
<1>7. ASSUME NEW f \in W \ crossed' PROVE Sound(f)'
  <2>1. f \in Files /\ Sound(f)
    BY <1>1, <1>4, <1>7 DEF CatalogInv
  <2>2. f \in node' => \E t \in Spaces : IsLive(doc'[t][f])
    BY <1>1, <2>1 DEF Orphans
  <2>3. ASSUME NEW t \in Spaces, doc'[t][f] = "indexed" PROVE f \in node'
    <3>1. f \in node
      BY <1>3, <2>1, <2>3 DEF Sound
    <3>2. f \notin Orphans(doc')
      BY <2>3 DEF Orphans, IsLive
    <3> QED BY <1>1, <3>1, <3>2
  <2>4. \A t \in Spaces : <<t, f>> \in banned' => Honoured(t, f)' /\ doc'[t][f] # "indexed"
    BY <1>3, <1>5, <1>6, <2>1 DEF Sound
  <2> QED BY <2>2, <2>3, <2>4 DEF Sound, IsLive
<1>8. \A f \in Files \ W : (f \in node' <=> f \in node) /\ \A t \in Spaces : doc'[t][f] = doc[t][f]
  BY <1>1, <1>3
<1>9. \A t \in Spaces \ {s}, f \in Files : doc'[t][f] = doc[t][f]
  BY <1>3
<1>10. run'[s] = NoRun /\ \A t \in Spaces \ {s} : run'[t] = run[t]
  BY <1>1
<1>11. \A t \in Spaces, f \in Files \ W : <<t, f>> \in banned' =>
            <<t, f>> \in banned /\ (Honoured(t, f) => Honoured(t, f)')
  BY <1>5, <1>6
<1>12. crossed' = crossed \cup {f \in W : \E t \in Spaces \ {s} : f \in Written(t)}
  BY <1>1
<1> HIDE DEF W
<1>13. Writes(s, W)
  BY <1>6, <1>8, <1>9, <1>10, <1>11, <1>12 DEF Writes
<1>14. Rests(s)
  BY <1>10 DEF Rests
<1>15. \A f \in W : f \in crossed' \/ Sound(f)'
  BY <1>7
<1> QED BY <1>4, <1>13, <1>14, <1>15, WritingStep

LEMMA CatalogInvInit == Init => CatalogInv
<1> SUFFICES ASSUME Init PROVE CatalogInv
  OBVIOUS
<1>1. Typed
  BY DEF Init, Typed, TypeOK, DocStatus
<1>2. \A f \in Files : Sound(f)
  BY DEF Init, Sound
<1> QED BY <1>1, <1>2 DEF CatalogInv, Init

LEMMA CatalogInvStep == ASSUME CatalogInv, [Next]_vars PROVE CatalogInv'
<1>1. CASE \E f \in Files : Change(f)
  BY <1>1, ChangeStep
<1>2. CASE \E s \in Spaces, any \in BOOLEAN : Discover(s, any)
  BY <1>2, DiscoverStep
<1>3. CASE \E s \in Spaces : RunStep(s) \/ Abort(s)
  BY <1>3, OpenBatchStep, ProjectBatchStep, CommitBatchStep, OpenLastStep, CommitLastStep, AbortStep DEF RunStep
<1>4. CASE \E s \in Spaces, f \in Files : OpenRemove(s, f)
  BY <1>4, OpenRemoveStep
<1>5. CASE \E s \in Spaces : CommitRemove(s) \/ AddSpace(s) \/ RemoveSpace(s)
  BY <1>5, CommitRemoveStep, AddSpaceStep, RemoveSpaceStep
<1>6. CASE UNCHANGED vars
  <2>1. UNCHANGED <<crossed, space, inScope, pending, hasCursor, doc, ready, node, excluded, bound, banned, run>>
    BY <1>6 DEF vars, sourceVars, catalogVars
  <2>2. Typed' /\ \A f \in (Files \ crossed)' : Sound(f)'
    BY <2>1 DEF CatalogInv, Typed, TypeOK, Sound, Honoured, IsLive
  <2>3. ASSUME NEW t \in Spaces, run[t] # NoRun
        PROVE  Shape(t, run[t])' /\ \A f \in (Written(t) \ crossed)' : Claim(t, run[t], f)'
    <3>1. Shape(t, run[t]) /\ \A f \in Written(t) \ crossed : Claim(t, run[t], f)
      BY <2>3, UnderWay
    <3>2. Shape(t, run[t])'
      BY <2>1, <3>1 DEF Shape, Honoured, IsLive
    <3>3. Written(t)' = Written(t)
      BY <2>1 DEF Written
    <3>4. \A f \in (Written(t) \ crossed)' : Claim(t, run[t], f)'
      BY <2>1, <3>1, <3>3 DEF Claim, Honoured, Stays, IsLive
    <3> QED BY <3>2, <3>4
  <2> QED BY <2>1, <2>2, <2>3 DEF CatalogInv
<1> QED BY <1>1, <1>2, <1>3, <1>4, <1>5, <1>6 DEF Next

\* The invariant, for any number of spaces that share the catalog and of transactions open at once.
THEOREM CatalogInvAlways == Spec => []CatalogInv
<1>1. CatalogInv /\ [Next]_vars => CatalogInv'
  BY CatalogInvStep
<1> QED BY CatalogInvInit, <1>1, PTL DEF Spec

\* However the transactions of several spaces' runs and the requests of an admin interleave, of a file
\* that no two of them open at once wrote: what a finished run indexed can be browsed, no node is left
\* without a live document, and a removed file does not come back to a space that existed
\* (project_successful_sync, filter_excluded_content).
THEOREM CatalogKeptAlways == Spec => []CatalogKept
<1>1. CatalogInv => CatalogKept
  <2> SUFFICES ASSUME CatalogInv, NEW f \in Files \ crossed PROVE Browsable(f) /\ StaysRemoved(f) /\ NoOrphan(f)
    BY DEF CatalogKept
  <2>1. Sound(f) /\ space \subseteq Spaces
    BY DEF CatalogInv, Typed, TypeOK
  <2> QED BY <2>1 DEF Sound, Browsable, StaysRemoved, NoOrphan
<1> QED BY <1>1, CatalogInvAlways, PTL

-----------------------------------------------------------------------------
(* Connections.                                                            *)

\* A row of a source, and one that holds nothing but what is of the account the source was made for.
SourceRow == [status : {"connected", "reauth_required", "disconnected"}, credentials : Accounts \cup {None},
              account : Accounts \cup {None}, cursor : Accounts \cup {None}]
Own(s, row) ==
  /\ row \in SourceRow
  /\ provider \in Microsoft => /\ row.account = first[s] /\ row.credentials \in {None, first[s]}
                               /\ row.cursor \in {None, first[s]}

FlowRow == [state : {"unused", "valid", "consumed"}, source : Nat \cup {None}]
CallbackRow == [at : {"idle", "load", "write"}, id : Flows \cup {None}, kind : {"none"}, account : Accounts \cup {None},
                read : {None} \cup [id : Nat, row : SourceRow]]
UserRow == [at : {"idle", "write"}, id : Nat \cup {None}, kind : {"none", "list", "sync", "open"}, account : {None},
            read : {None} \cup SourceRow]

RequestsTyped ==
  /\ flow \in [Flows -> FlowRow] /\ callback \in [Callbacks -> CallbackRow]
  /\ disconnect \in [Disconnects -> UserRow] /\ reader \in [Readers -> UserRow]
  /\ completed \in [Flows -> Nat] /\ outdated \subseteq Flows

SourcesTyped == sources \in Seq(SourceRow) /\ first \in Seq(Accounts) /\ Len(first) = Len(sources)

SourcesOwn == \A s \in DOMAIN sources : Own(s, sources[s])

FlowsName == \A f \in Flows : flow[f].source \in {None} \cup DOMAIN sources

\* A callback at work holds a state that is still valid, and what it has read of a source.
CallbacksHold ==
  \A c \in Callbacks :
    /\ callback[c].at # "idle" =>
         callback[c].id \in Flows /\ flow[callback[c].id].state = "valid" /\ callback[c].account \in Accounts
    /\ callback[c].at = "write" /\ callback[c].read # None =>
         callback[c].read.id \in DOMAIN sources /\ Own(callback[c].read.id, callback[c].read.row)

OneCallback ==
  \A c, e \in Callbacks : callback[c].at # "idle" /\ callback[c].id = callback[e].id => c = e

UsersHold ==
  /\ \A d \in Disconnects : disconnect[d].at = "write" =>
       disconnect[d].id \in DOMAIN sources /\ Own(disconnect[d].id, disconnect[d].read)
  /\ \A r \in Readers : reader[r].at = "write" =>
       reader[r].id \in DOMAIN sources /\ Own(reader[r].id, reader[r].read)

\* A state connects once, and none that a disconnection has consumed.
StatesOnce ==
  \A f \in Flows : /\ flow[f].state # "consumed" => completed[f] = 0 /\ f \notin outdated
                   /\ f \in outdated => completed[f] = 0

ConnectionInv ==
  /\ RequestsTyped /\ SourcesTyped /\ SourcesOwn /\ FlowsName /\ CallbacksHold /\ OneCallback /\ UsersHold /\ StatesOnce

LEMMA MergedRow ==
  ASSUME NEW row \in SourceRow, NEW read \in SourceRow, NEW new \in SourceRow
  PROVE  /\ Merge(row, read, new) \in SourceRow
         /\ Merge(row, read, new).account \in {row.account, new.account}
         /\ Merge(row, read, new).credentials \in {row.credentials, new.credentials}
         /\ Merge(row, read, new).cursor \in {row.cursor, new.cursor}
<1>1. PICK m : m = Merge(row, read, new) OBVIOUS
<1>2. DOMAIN row = {"status", "credentials", "account", "cursor"} BY DEF SourceRow
<1>3. m = [column \in {"status", "credentials", "account", "cursor"} |->
             IF new[column] = read[column] THEN row[column] ELSE new[column]]
  BY <1>1, <1>2 DEF Merge
<1>4. /\ m.account \in {row.account, new.account} /\ m.credentials \in {row.credentials, new.credentials}
      /\ m.cursor \in {row.cursor, new.cursor} /\ m.status \in {row.status, new.status}
  BY <1>3
<1>5. m \in SourceRow BY <1>3, <1>4 DEF SourceRow
<1>6. QED BY <1>1, <1>4, <1>5

LEMMA MergedOwn ==
  ASSUME NEW s, NEW row, NEW read, NEW new, Own(s, row), Own(s, read), Own(s, new)
  PROVE  Own(s, Merge(row, read, new))
BY MergedRow DEF Own

LEMMA SourceFacts ==
  ASSUME SourcesTyped
  PROVE  /\ Len(sources) \in Nat /\ DOMAIN sources = 1..Len(sources) /\ DOMAIN first = DOMAIN sources
         /\ \A s \in DOMAIN sources : sources[s] \in SourceRow /\ first[s] \in Accounts
<1>1. /\ sources \in Seq(SourceRow) /\ first \in Seq(Accounts) /\ Len(first) = Len(sources) BY DEF SourcesTyped
<1>2. /\ Len(sources) \in Nat /\ sources \in [1..Len(sources) -> SourceRow] /\ DOMAIN sources = 1..Len(sources)
      /\ first \in [1..Len(sources) -> Accounts] /\ DOMAIN first = 1..Len(sources)
  BY <1>1, LenProperties
<1>3. QED BY <1>2

\* The row of a source is written again.
LEMMA SourceWritten ==
  ASSUME ConnectionInv, NEW s \in DOMAIN sources, NEW row, Own(s, row),
         sources' = [sources EXCEPT ![s] = row], UNCHANGED <<provider, first>>
  PROVE  /\ SourcesTyped' /\ SourcesOwn' /\ DOMAIN sources' = DOMAIN sources
         /\ \A t, r : Own(t, r)' <=> Own(t, r)
<1>0. SourcesTyped /\ SourcesOwn BY DEF ConnectionInv
<1>1. PICK n \in Nat : n = Len(sources) /\ DOMAIN sources = 1..n /\ \A t \in 1..n : sources[t] \in SourceRow
  BY <1>0, SourceFacts
<1>2. row \in SourceRow BY DEF Own
<1>3. PICK rows : rows = sources' OBVIOUS
<1>4. /\ rows = [t \in 1..n |-> IF t = s THEN row ELSE sources[t]]
  <2>1. sources \in Seq(SourceRow) BY <1>0 DEF SourcesTyped
  <2>2. sources \in [1..n -> SourceRow] BY <1>1, <2>1, LenProperties
  <2>3. QED BY <1>1, <1>3, <2>2
<1>5. rows \in [1..n -> SourceRow] BY <1>1, <1>2, <1>4
<1>6. rows \in Seq(SourceRow) /\ Len(rows) = n
  <2>1. rows \in Seq(SourceRow) BY <1>5
  <2>2. Len(rows) \in Nat /\ DOMAIN rows = 1..Len(rows) BY <2>1, LenProperties
  <2>3. DOMAIN rows = 1..n BY <1>5
  <2>4. QED BY <1>1, <2>1, <2>2, <2>3
<1>7. SourcesTyped' BY <1>0, <1>1, <1>3, <1>6 DEF SourcesTyped
<1>8. \A t, r : Own(t, r)' <=> Own(t, r) BY DEF Own
<1>9. DOMAIN sources' = DOMAIN sources BY <1>1, <1>3, <1>5
<1>10. \A t \in DOMAIN sources : sources'[t] = (IF t = s THEN row ELSE sources[t]) BY <1>1, <1>3, <1>4
<1>11. SourcesOwn' BY <1>0, <1>8, <1>9, <1>10 DEF SourcesOwn
<1>12. QED BY <1>7, <1>8, <1>9, <1>11

\* A source is added.
LEMMA SourceAdded ==
  ASSUME AccountsApart, ConnectionInv, NEW account \in Accounts,
         sources' = Append(sources, Source(account)), first' = Append(first, account), UNCHANGED provider
  PROVE  /\ SourcesTyped' /\ SourcesOwn' /\ DOMAIN sources \subseteq DOMAIN sources'
         /\ \A t \in DOMAIN sources : \A r : Own(t, r) => Own(t, r)'
<1>0. SourcesTyped /\ SourcesOwn BY DEF ConnectionInv
<1>1. PICK n \in Nat : n = Len(sources) /\ DOMAIN sources = 1..n BY <1>0, SourceFacts
<1>2. PICK row : row = Source(account) OBVIOUS
<1>3. row \in SourceRow /\ row.account = account /\ row.credentials = account /\ row.cursor = None
  BY <1>2 DEF Source, SourceRow
<1>4. /\ sources' \in Seq(SourceRow) /\ Len(sources') = n + 1 /\ sources'[n + 1] = row
      /\ \A t \in 1..n : sources'[t] = sources[t]
  <2>1. sources \in Seq(SourceRow) BY <1>0 DEF SourcesTyped
  <2>2. /\ Append(sources, row) \in Seq(SourceRow)
        /\ Len(Append(sources, row)) = Len(sources) + 1
        /\ \A t \in 1..Len(sources) : Append(sources, row)[t] = sources[t]
        /\ Append(sources, row)[Len(sources) + 1] = row
    BY <1>3, <2>1, AppendProperties
  <2>3. QED BY <1>1, <1>2, <2>2
<1>5. /\ first' \in Seq(Accounts) /\ Len(first') = n + 1 /\ first'[n + 1] = account
      /\ \A t \in 1..n : first'[t] = first[t]
  <2>1. first \in Seq(Accounts) /\ Len(first) = n BY <1>0, <1>1 DEF SourcesTyped
  <2>2. PICK held \in Seq(Accounts) : held = first BY <2>1
  <2>4. /\ Append(held, account) \in Seq(Accounts)
        /\ Len(Append(held, account)) = Len(held) + 1
        /\ \A t \in 1..Len(held) : Append(held, account)[t] = held[t]
        /\ Append(held, account)[Len(held) + 1] = account
    BY <2>2, AppendProperties
  <2>3. QED BY <2>1, <2>2, <2>4
<1>6. DOMAIN sources' = 1..(n + 1) BY <1>4, LenProperties
<1>7. SourcesTyped' BY <1>4, <1>5 DEF SourcesTyped
<1>8. \A t \in DOMAIN sources : \A r : Own(t, r) => Own(t, r)' BY <1>1, <1>5 DEF Own
<1>9. Own(n + 1, row)' BY <1>3, <1>5 DEF Own
<1>10. SourcesOwn'
  <2>1. ASSUME NEW t \in DOMAIN sources', NEW r, r = sources'[t] PROVE Own(t, r)'
    <3>1. CASE t = n + 1 BY <1>4, <1>9, <2>1, <3>1
    <3>2. CASE t # n + 1
      <4>1. t \in DOMAIN sources /\ r = sources[t] BY <1>1, <1>4, <1>6, <2>1, <3>2
      <4>2. Own(t, r) BY <1>0, <4>1 DEF SourcesOwn
      <4>3. QED BY <1>8, <4>1, <4>2
    <3>3. QED BY <3>1, <3>2
  <2>2. QED BY <2>1 DEF SourcesOwn, Own
<1>11. QED BY <1>1, <1>6, <1>7, <1>8, <1>10

LEMMA StatesMove ==
  ASSUME AccountsApart, ConnectionInv, NEW f \in Flows, NEW v \in FlowRow,
         flow' = [flow EXCEPT ![f] = v], v.source \in {None} \cup DOMAIN sources,
         \/ flow[f].state = "unused"
         \/ Free(f) /\ v.state = "consumed",
         flow[f].state = "unused" => v.state = "valid",
         UNCHANGED <<provider, sources, first, requests, completed, outdated>>
  PROVE  ConnectionInv'
<1>0. RequestsTyped /\ FlowsName /\ CallbacksHold /\ OneCallback /\ StatesOnce /\ UNCHANGED <<callback, disconnect, reader>>
  BY DEF ConnectionInv, requests
<1>1. flow' \in [Flows -> FlowRow] /\ flow'[f] = v /\ \A g \in Flows \ {f} : flow'[g] = flow[g]
  BY <1>0 DEF RequestsTyped
<1>2. RequestsTyped' BY <1>0, <1>1 DEF RequestsTyped
<1>3. SourcesTyped' /\ SourcesOwn' /\ UsersHold' BY <1>0 DEF ConnectionInv, SourcesTyped, SourcesOwn, UsersHold, Own
<1>4. FlowsName' BY <1>0, <1>1 DEF FlowsName
<1>5. \A c \in Callbacks : callback[c].at # "idle" => callback[c].id # f
  BY <1>0 DEF CallbacksHold, Free, Locked
<1>6. CallbacksHold' BY <1>0, <1>1, <1>5 DEF CallbacksHold, Own
<1>7. OneCallback' BY <1>0 DEF OneCallback
<1>8. StatesOnce' BY <1>0, <1>1 DEF StatesOnce
<1>9. QED BY <1>2, <1>3, <1>4, <1>6, <1>7, <1>8 DEF ConnectionInv

LEMMA BeginsAndLapses ==
  ASSUME AccountsApart, ConnectionInv, NEW f \in Flows,
         (\E s \in {None} \cup DOMAIN sources : Begin(f, s)) \/ Cancel(f) \/ Lapse(f)
  PROVE  ConnectionInv'
<1>0. RequestsTyped /\ SourcesTyped /\ FlowsName BY DEF ConnectionInv
<1>1. CASE \E s \in {None} \cup DOMAIN sources : Begin(f, s)
  <2>1. PICK s \in {None} \cup DOMAIN sources : Begin(f, s) BY <1>1
  <2>2. s \in Nat \cup {None} BY <1>0, SourceFacts
  <2>3. PICK v : v = [state |-> "valid", source |-> s] OBVIOUS
  <2>4. v \in FlowRow /\ v.state = "valid" /\ v.source = s BY <2>2, <2>3 DEF FlowRow
  <2>5. /\ flow[f].state = "unused" /\ flow' = [flow EXCEPT ![f] = v]
        /\ UNCHANGED <<provider, sources, first, requests, completed, outdated>>
    BY <2>1, <2>3 DEF Begin
  <2>6. QED BY <2>1, <2>4, <2>5, StatesMove
<1>2. CASE Cancel(f) \/ Lapse(f)
  <2>1. /\ flow[f].state = "valid" /\ Free(f) /\ flow' = [flow EXCEPT ![f].state = "consumed"]
        /\ UNCHANGED <<provider, sources, first, requests, completed, outdated>>
    BY <1>2 DEF Cancel, Lapse, FindValidState
  <2>2. PICK v : v = [flow[f] EXCEPT !.state = "consumed"] OBVIOUS
  <2>3. flow[f] \in FlowRow /\ flow[f].source \in {None} \cup DOMAIN sources BY <1>0 DEF RequestsTyped, FlowsName
  <2>4. v \in FlowRow /\ v.state = "consumed" /\ v.source = flow[f].source BY <2>2, <2>3 DEF FlowRow
  <2>5. flow' = [flow EXCEPT ![f] = v] BY <2>1, <2>2
  <2>6. QED BY <2>1, <2>3, <2>4, <2>5, StatesMove
<1>3. QED BY <1>1, <1>2

\* A callback goes on, or is over.
LEMMA CallbacksMove ==
  ASSUME ConnectionInv, NEW c \in Callbacks, NEW k \in CallbackRow, callback' = [callback EXCEPT ![c] = k],
         k.at # "idle" => k.id \in Flows /\ flow[k.id].state = "valid" /\ k.account \in Accounts,
         k.at # "idle" => \A e \in Callbacks \ {c} : callback[e].id # k.id,
         k.at = "idle" => k.id = None,
         AccountsApart,
         k.at = "write" /\ k.read # None => k.read.id \in DOMAIN sources /\ Own(k.read.id, k.read.row),
         UNCHANGED <<provider, sources, first, flow, disconnect, reader, completed, outdated>>
  PROVE  ConnectionInv'
<1>0. RequestsTyped /\ FlowsName /\ CallbacksHold /\ OneCallback /\ StatesOnce BY DEF ConnectionInv
<1>1. callback' \in [Callbacks -> CallbackRow] /\ callback'[c] = k /\ \A e \in Callbacks \ {c} : callback'[e] = callback[e]
  BY <1>0 DEF RequestsTyped
<1>2. RequestsTyped' BY <1>0, <1>1 DEF RequestsTyped
<1>3. SourcesTyped' /\ SourcesOwn' /\ UsersHold' /\ FlowsName' /\ StatesOnce'
  BY DEF ConnectionInv, SourcesTyped, SourcesOwn, UsersHold, FlowsName, StatesOnce, Own
<1>4. CallbacksHold' BY <1>0, <1>1 DEF CallbacksHold, Own
<1>5. OneCallback'
  <2>1. \A e \in Callbacks \ {c} : callback[e].at # "idle" => callback[e].id \in Flows BY <1>0 DEF CallbacksHold
  <2>2. QED BY <1>0, <1>1, <2>1 DEF OneCallback, AccountsApart
<1>6. QED BY <1>2, <1>3, <1>4, <1>5 DEF ConnectionInv

LEMMA RestTyped == AtRest \in CallbackRow /\ AtRest \in UserRow /\ AtRest.at = "idle" /\ AtRest.id = None /\ AtRest.read = None
BY DEF AtRest, CallbackRow, UserRow

LEMMA Receives ==
  ASSUME AccountsApart, ConnectionInv, NEW c \in Callbacks, NEW f \in Flows, Receive(c, f)
  PROVE  ConnectionInv'
<1>1. PICK account \in Accounts :
        callback' = [callback EXCEPT ![c] = [AtRest EXCEPT !.at = "load", !.id = f, !.account = account]]
  BY DEF Receive
<1>2. PICK k : k = [AtRest EXCEPT !.at = "load", !.id = f, !.account = account] OBVIOUS
<1>3. k \in CallbackRow /\ k.at = "load" /\ k.id = f /\ k.account = account BY <1>2 DEF AtRest, CallbackRow
<1>4. flow[f].state = "valid" /\ \A e \in Callbacks : callback[e].id # f
  BY DEF Receive, FindValidState, Free, Locked
<1>5. UNCHANGED <<provider, sources, first, flow, disconnect, reader, completed, outdated>> BY DEF Receive
<1>6. QED BY <1>1, <1>2, <1>3, <1>4, <1>5, CallbacksMove

LEMMA Loads ==
  ASSUME AccountsApart, ConnectionInv, NEW c \in Callbacks, Load(c) \/ Withdraw(c)
  PROVE  ConnectionInv'
<1>0. RequestsTyped /\ SourcesTyped /\ SourcesOwn /\ FlowsName /\ CallbacksHold /\ OneCallback BY DEF ConnectionInv
<1>1. CASE Load(c)
  <2>1. callback[c].at = "load" /\ callback[c] \in CallbackRow BY <1>0, <1>1 DEF Load, RequestsTyped
  <2>2. callback[c].id \in Flows /\ flow[callback[c].id].state = "valid" /\ callback[c].account \in Accounts
    BY <1>0, <2>1 DEF CallbacksHold
  <2>3. \A e \in Callbacks \ {c} : callback[e].id # callback[c].id BY <1>0, <2>1 DEF OneCallback
  <2>4. PICK s : s = Target(callback[c].id) OBVIOUS
  <2>5. s = None \/ s \in DOMAIN sources
    <3>1. flow[callback[c].id].source \in {None} \cup DOMAIN sources BY <1>0, <2>2 DEF FlowsName
    <3>2. sources # <<>> => Len(sources) \in DOMAIN sources
      <4>1. sources \in Seq(SourceRow) BY <1>0 DEF SourcesTyped
      <4>2. QED BY <4>1, EmptySeq, LenProperties
    <3>3. QED BY <2>4, <3>1, <3>2 DEF Target
  <2>6. PICK read : read = IF s = None THEN None ELSE [id |-> s, row |-> sources[s]] OBVIOUS
  <2>7. CASE s = None
    <3>1. PICK k : k = [callback[c] EXCEPT !.at = "write", !.read = None] OBVIOUS
    <3>2. k \in CallbackRow /\ k.at = "write" /\ k.id = callback[c].id /\ k.account = callback[c].account /\ k.read = None
      BY <2>1, <3>1 DEF CallbackRow
    <3>3. /\ callback' = [callback EXCEPT ![c] = k]
          /\ UNCHANGED <<provider, sources, first, flow, disconnect, reader, completed, outdated>>
      BY <1>1, <2>4, <2>7, <3>1 DEF Load
    <3>4. QED BY <2>2, <2>3, <3>2, <3>3, CallbacksMove
  <2>8. CASE s # None
    <3>1. s \in DOMAIN sources /\ s \in Nat /\ Own(s, sources[s]) BY <1>0, <2>5, <2>8, SourceFacts DEF SourcesOwn
    <3>2. PICK row : row = [id |-> s, row |-> sources[s]] OBVIOUS
    <3>3. row \in [id : Nat, row : SourceRow] /\ row.id = s /\ row.row = sources[s]
      BY <3>1, <3>2 DEF Own
    <3>4. PICK k : k = [callback[c] EXCEPT !.at = "write", !.read = row] OBVIOUS
    <3>5. k \in CallbackRow /\ k.at = "write" /\ k.id = callback[c].id /\ k.account = callback[c].account /\ k.read = row
      BY <2>1, <3>3, <3>4 DEF CallbackRow
    <3>6. /\ callback' = [callback EXCEPT ![c] = k]
          /\ UNCHANGED <<provider, sources, first, flow, disconnect, reader, completed, outdated>>
      BY <1>1, <2>4, <2>8, <3>2, <3>4 DEF Load
    <3>7. QED BY <2>2, <2>3, <3>1, <3>3, <3>5, <3>6, CallbacksMove
  <2>9. QED BY <2>7, <2>8
<1>2. CASE Withdraw(c)
  <2>1. /\ callback' = [callback EXCEPT ![c] = AtRest]
        /\ UNCHANGED <<provider, sources, first, flow, disconnect, reader, completed, outdated>>
    BY <1>2 DEF Withdraw
  <2>2. QED BY <2>1, RestTyped, CallbacksMove
<1>3. QED BY <1>1, <1>2

\* A renewed source holds what is of its account.
LEMMA RenewedOwn ==
  ASSUME AccountsApart, NEW s, NEW read, NEW account \in Accounts, Own(s, read), first[s] \in Accounts,
         ~Mismatch(read, account)
  PROVE  Own(s, Renewed(read, account))
<1>1. PICK row : row = Renewed(read, account) OBVIOUS
<1>2. /\ row \in SourceRow /\ row.account = account /\ row.credentials = account
      /\ row.cursor \in {None, read.cursor}
  BY <1>1 DEF Renewed, Source, SourceRow, Own
<1>3. provider \in Microsoft => account = first[s] BY DEF Mismatch, Own, AccountsApart
<1>4. QED BY <1>1, <1>2, <1>3 DEF Own

LEMMA Completes ==
  ASSUME AccountsApart, ConnectionInv, NEW c \in Callbacks, Complete(c)
  PROVE  ConnectionInv'
<1>0. RequestsTyped /\ SourcesTyped /\ SourcesOwn /\ FlowsName /\ CallbacksHold /\ OneCallback /\ UsersHold /\ StatesOnce
  BY DEF ConnectionInv
<1>1. PICK k \in CallbackRow : k = callback[c] BY <1>0 DEF RequestsTyped
<1>2. PICK f \in Flows : f = k.id /\ k.at = "write" /\ flow[f].state = "valid" /\ k.account \in Accounts
  BY <1>0, <1>1 DEF Complete, CallbacksHold
<1>3. /\ callback' = [callback EXCEPT ![c] = AtRest] /\ UNCHANGED <<provider, disconnect, reader, outdated>>
  BY DEF Complete
<1>4. /\ callback' \in [Callbacks -> CallbackRow] /\ callback'[c] = AtRest
      /\ \A e \in Callbacks \ {c} : callback'[e] = callback[e]
  BY <1>0, <1>3, RestTyped DEF RequestsTyped
<1>5. \A e \in Callbacks \ {c} : callback[e].id # f BY <1>0, <1>1, <1>2 DEF OneCallback
<1>6. flow[f] \in FlowRow /\ completed[f] \in Nat BY <1>0 DEF RequestsTyped
<1>7. PICK v : v = [flow[f] EXCEPT !.state = "consumed"] OBVIOUS
<1>8. v \in FlowRow /\ v.state = "consumed" /\ v.source = flow[f].source BY <1>6, <1>7 DEF FlowRow
\* What holds of the requests once the state is consumed, whatever became of the sources.
<1>9. ASSUME SourcesTyped', SourcesOwn', DOMAIN sources \subseteq DOMAIN sources',
             \A t \in DOMAIN sources : \A r : Own(t, r) => Own(t, r)',
             flow' = [flow EXCEPT ![f] = v],
             completed' = completed \/ completed' = [completed EXCEPT ![f] = completed[f] + 1]
      PROVE  ConnectionInv'
  <2>1. flow' \in [Flows -> FlowRow] /\ flow'[f] = v /\ \A g \in Flows \ {f} : flow'[g] = flow[g]
    BY <1>0, <1>8, <1>9 DEF RequestsTyped
  <2>2. completed' \in [Flows -> Nat] /\ \A g \in Flows \ {f} : completed'[g] = completed[g]
    BY <1>0, <1>6, <1>9 DEF RequestsTyped
  <2>3. RequestsTyped' BY <1>0, <1>3, <1>4, <2>1, <2>2 DEF RequestsTyped
  <2>4. FlowsName' BY <1>0, <1>8, <1>9, <2>1 DEF FlowsName
  <2>5. CallbacksHold'
    <3>1. ASSUME NEW e \in Callbacks, NEW h, h = callback'[e], h.at # "idle"
          PROVE  /\ h.id \in Flows /\ flow'[h.id].state = "valid" /\ h.account \in Accounts
                 /\ h.at = "write" /\ h.read # None => h.read.id \in DOMAIN sources' /\ Own(h.read.id, h.read.row)'
      <4>1. e # c /\ h = callback[e] BY <1>4, <3>1, RestTyped
      <4>2. h.id \in Flows \ {f} BY <1>0, <1>5, <3>1, <4>1 DEF CallbacksHold
      <4>3. flow'[h.id].state = "valid" /\ h.account \in Accounts
        BY <1>0, <2>1, <3>1, <4>1, <4>2 DEF CallbacksHold
      <4>4. ASSUME h.at = "write", h.read # None PROVE h.read.id \in DOMAIN sources' /\ Own(h.read.id, h.read.row)'
        <5>1. h.read.id \in DOMAIN sources /\ Own(h.read.id, h.read.row)
          BY <1>0, <4>1, <4>4 DEF CallbacksHold
        <5>2. QED BY <1>9, <5>1
      <4>5. QED BY <4>2, <4>3, <4>4
    <3>2. QED BY <3>1 DEF CallbacksHold, Own
  <2>6. OneCallback'
    <3>1. \A e \in Callbacks : callback'[e].at # "idle" => callback'[e] = callback[e] /\ callback[e].id \in Flows
      BY <1>0, <1>4, RestTyped DEF CallbacksHold
    <3>2. QED BY <1>0, <1>4, <3>1, RestTyped DEF OneCallback, AccountsApart
  <2>7. UsersHold' BY <1>0, <1>3, <1>9 DEF UsersHold
  <2>8. StatesOnce' BY <1>0, <1>2, <1>3, <1>8, <2>1, <2>2 DEF StatesOnce
  <2>9. QED BY <1>9, <2>3, <2>4, <2>5, <2>6, <2>7, <2>8 DEF ConnectionInv
<1>10. CASE UNCHANGED <<sources, first, flow, completed>>
  BY <1>3, <1>10, RestTyped, CallbacksMove
<1>11. CASE flow' = [flow EXCEPT ![f] = v] /\ UNCHANGED <<sources, first, completed>>
  <2>1. /\ SourcesTyped' /\ SourcesOwn' /\ DOMAIN sources \subseteq DOMAIN sources'
        /\ \A t \in DOMAIN sources : \A r : Own(t, r) => Own(t, r)'
    BY <1>0, <1>3, <1>11 DEF SourcesTyped, SourcesOwn, Own
  <2>2. QED BY <1>9, <1>11, <2>1
<1>12. CASE /\ flow' = [flow EXCEPT ![f] = v] /\ sources' = Append(sources, Source(k.account))
            /\ first' = Append(first, k.account) /\ completed' = [completed EXCEPT ![f] = completed[f] + 1]
  <2>1. /\ SourcesTyped' /\ SourcesOwn' /\ DOMAIN sources \subseteq DOMAIN sources'
        /\ \A t \in DOMAIN sources : \A r : Own(t, r) => Own(t, r)'
    BY <1>2, <1>3, <1>12, SourceAdded
  <2>2. QED BY <1>9, <1>12, <2>1
<1>13. CASE /\ flow' = [flow EXCEPT ![f] = v] /\ k.read # None /\ ~Mismatch(k.read.row, k.account)
            /\ sources' = [sources EXCEPT ![k.read.id] =
                             Merge(sources[k.read.id], k.read.row, Renewed(k.read.row, k.account))]
            /\ completed' = [completed EXCEPT ![f] = completed[f] + 1] /\ UNCHANGED first
  <2>1. PICK s \in DOMAIN sources : s = k.read.id /\ Own(s, k.read.row)
    BY <1>0, <1>1, <1>2, <1>13 DEF CallbacksHold
  <2>2. first[s] \in Accounts /\ Own(s, sources[s]) BY <1>0, SourceFacts DEF SourcesOwn
  <2>3. Own(s, Renewed(k.read.row, k.account)) BY <1>2, <1>13, <2>1, <2>2, RenewedOwn
  <2>4. PICK row : row = Merge(sources[s], k.read.row, Renewed(k.read.row, k.account)) OBVIOUS
  <2>5. Own(s, row) BY <2>1, <2>2, <2>3, <2>4, MergedOwn
  <2>6. sources' = [sources EXCEPT ![s] = row] BY <1>13, <2>1, <2>4
  <2>7. /\ SourcesTyped' /\ SourcesOwn' /\ DOMAIN sources \subseteq DOMAIN sources'
        /\ \A t \in DOMAIN sources : \A r : Own(t, r) => Own(t, r)'
    BY <1>3, <1>13, <2>5, <2>6, SourceWritten
  <2>8. QED BY <1>9, <1>13, <2>7
<1>14. QED
  <2>1. \/ UNCHANGED <<sources, first, flow, completed>>
        \/ flow' = [flow EXCEPT ![f].state = "consumed"] /\ k.read = None /\ sources' = Append(sources, Source(k.account))
           /\ first' = Append(first, k.account) /\ completed' = [completed EXCEPT ![f] = completed[f] + 1]
        \/ flow' = [flow EXCEPT ![f].state = "consumed"] /\ UNCHANGED <<sources, first, completed>>
        \/ /\ flow' = [flow EXCEPT ![f].state = "consumed"] /\ k.read # None /\ ~Mismatch(k.read.row, k.account)
           /\ sources' = [sources EXCEPT ![k.read.id] =
                            Merge(sources[k.read.id], k.read.row, Renewed(k.read.row, k.account))]
           /\ completed' = [completed EXCEPT ![f] = completed[f] + 1] /\ UNCHANGED first
    BY <1>1, <1>2 DEF Complete
  <2>2. flow' = [flow EXCEPT ![f].state = "consumed"] => flow' = [flow EXCEPT ![f] = v]
    BY <1>7
  <2>3. QED BY <1>10, <1>11, <1>12, <1>13, <2>1, <2>2

\* A disconnection or a reader has read the source it will write.
LEMMA UsersBegin ==
  ASSUME ConnectionInv, NEW s \in DOMAIN sources, NEW k \in UserRow, k.id = s, k.read = sources[s],
         UNCHANGED <<provider, sources, first, flow, callback, completed, outdated>>,
         \/ reader' = reader /\ \E d \in Disconnects : disconnect' = [disconnect EXCEPT ![d] = k]
         \/ disconnect' = disconnect /\ \E r \in Readers : reader' = [reader EXCEPT ![r] = k]
  PROVE  ConnectionInv'
<1>0. RequestsTyped /\ SourcesTyped /\ SourcesOwn /\ UsersHold BY DEF ConnectionInv
<1>1. s \in Nat /\ sources[s] \in SourceRow /\ Own(s, sources[s]) BY <1>0, SourceFacts DEF SourcesOwn
<1>3. RequestsTyped' BY <1>0 DEF RequestsTyped
<1>4. \A t, r : Own(t, r)' <=> Own(t, r) BY DEF Own
<1>5. SourcesTyped' /\ SourcesOwn' /\ FlowsName' /\ CallbacksHold' /\ OneCallback' /\ StatesOnce'
  BY <1>4 DEF ConnectionInv, SourcesTyped, SourcesOwn, FlowsName, CallbacksHold, OneCallback, StatesOnce
<1>6. /\ \A d \in Disconnects : disconnect'[d] \in {disconnect[d], k}
      /\ \A r \in Readers : reader'[r] \in {reader[r], k}
  BY <1>0 DEF RequestsTyped
<1>7. UsersHold' BY <1>0, <1>1, <1>4, <1>6 DEF UsersHold
<1>8. QED BY <1>3, <1>5, <1>7 DEF ConnectionInv

LEMMA Begins ==
  ASSUME ConnectionInv, NEW s \in DOMAIN sources,
         \/ \E d \in Disconnects : StartDisconnect(d, s)
         \/ \E r \in Readers, kind \in {"list", "sync", "open"} : Read(r, s, kind)
  PROVE  ConnectionInv'
<1>0. s \in Nat /\ sources[s] \in SourceRow BY SourceFacts DEF ConnectionInv
<1>1. CASE \E d \in Disconnects : StartDisconnect(d, s)
  <2>1. PICK k : k = [AtRest EXCEPT !.at = "write", !.id = s, !.read = sources[s]] OBVIOUS
  <2>2. k \in UserRow /\ k.id = s /\ k.read = sources[s] BY <1>0, <2>1 DEF AtRest, UserRow
  <2>3. /\ UNCHANGED <<provider, sources, first, flow, callback, completed, outdated, reader>>
        /\ \E d \in Disconnects : disconnect' = [disconnect EXCEPT ![d] = k]
    BY <1>1, <2>1 DEF StartDisconnect
  <2>4. QED BY <2>2, <2>3, UsersBegin
<1>2. CASE \E r \in Readers, kind \in {"list", "sync", "open"} : Read(r, s, kind)
  <2>1. PICK r \in Readers, kind \in {"list", "sync", "open"} : Read(r, s, kind) BY <1>2
  <2>2. PICK k : k = [AtRest EXCEPT !.at = "write", !.id = s, !.kind = kind, !.read = sources[s]] OBVIOUS
  <2>3. k \in UserRow /\ k.id = s /\ k.read = sources[s] BY <1>0, <2>2 DEF AtRest, UserRow
  <2>4. /\ UNCHANGED <<provider, sources, first, flow, callback, completed, outdated, disconnect>>
        /\ reader' = [reader EXCEPT ![r] = k]
    BY <2>1, <2>2 DEF Read
  <2>5. QED BY <2>3, <2>4, UsersBegin
<1>3. QED BY <1>1, <1>2

LEMMA Finishes ==
  ASSUME AccountsApart, ConnectionInv, NEW d \in Disconnects, FinishDisconnect(d)
  PROVE  ConnectionInv'
<1>0. RequestsTyped /\ SourcesTyped /\ SourcesOwn /\ FlowsName /\ CallbacksHold /\ OneCallback /\ UsersHold /\ StatesOnce
  BY DEF ConnectionInv
<1>1. PICK s \in DOMAIN sources, read \in SourceRow :
        s = disconnect[d].id /\ read = disconnect[d].read /\ Own(s, read)
  BY <1>0 DEF FinishDisconnect, UsersHold, Own
<1>2. PICK gone : gone = Awaited(s) OBVIOUS
<1>3. /\ gone = {f \in Flows : flow[f].source = s /\ flow[f].state = "valid"}
      /\ flow' = [f \in Flows |-> IF f \in gone THEN [flow[f] EXCEPT !.state = "consumed"] ELSE flow[f]]
      /\ outdated' = outdated \cup gone /\ \A f \in gone : Free(f)
  BY <1>1, <1>2 DEF FinishDisconnect, Consumed, Awaited
<1>4. PICK row : row = Merge(sources[s], read, Disconnected(read)) OBVIOUS
<1>5. Own(s, row)
  <2>1. PICK out : out = Disconnected(read) OBVIOUS
  <2>2. /\ out \in SourceRow /\ out.credentials = None
        /\ provider \in Microsoft => out.account = read.account /\ out.cursor = None
    BY <1>1, <2>1 DEF Disconnected, SourceRow, Own
  <2>3. Own(s, out) BY <1>1, <2>2 DEF Own
  <2>4. Own(s, sources[s]) BY <1>0 DEF SourcesOwn
  <2>5. QED BY <1>1, <1>4, <2>1, <2>3, <2>4, MergedOwn
<1>6. /\ sources' = [sources EXCEPT ![s] = row] /\ disconnect' = [disconnect EXCEPT ![d] = AtRest]
      /\ UNCHANGED <<provider, first, callback, reader, completed>>
  BY <1>1, <1>4 DEF FinishDisconnect
<1>7. /\ SourcesTyped' /\ SourcesOwn' /\ DOMAIN sources' = DOMAIN sources
      /\ \A t, r : Own(t, r)' <=> Own(t, r)
  BY <1>5, <1>6, SourceWritten
<1>8. /\ flow' \in [Flows -> FlowRow]
      /\ \A f \in Flows : flow'[f].source = flow[f].source
      /\ \A f \in Flows : flow'[f].state = (IF f \in gone THEN "consumed" ELSE flow[f].state)
  <2>1. \A f \in Flows : flow[f] \in FlowRow BY <1>0 DEF RequestsTyped
  <2>2. QED BY <1>3, <2>1 DEF FlowRow
<1>9. RequestsTyped' BY <1>0, <1>3, <1>6, <1>8, RestTyped DEF RequestsTyped
<1>10. FlowsName' BY <1>0, <1>7, <1>8 DEF FlowsName
<1>11. \A c \in Callbacks : callback[c].id \notin gone BY <1>3 DEF Free, Locked
<1>12. CallbacksHold' BY <1>0, <1>6, <1>7, <1>8, <1>11 DEF CallbacksHold
<1>13. OneCallback' BY <1>0, <1>6 DEF OneCallback
<1>14. \A e \in Disconnects : disconnect'[e] \in {disconnect[e], AtRest} BY <1>0, <1>6 DEF RequestsTyped
<1>15. UsersHold' BY <1>0, <1>6, <1>7, <1>14, RestTyped DEF UsersHold
<1>16. StatesOnce' BY <1>0, <1>3, <1>6, <1>8 DEF StatesOnce
<1>17. QED BY <1>7, <1>9, <1>10, <1>12, <1>13, <1>15, <1>16 DEF ConnectionInv

\* A reader writes what it learnt of the source it read.
LEMMA ReaderWrites ==
  ASSUME ConnectionInv, NEW r \in Readers, reader[r].at = "write", NEW row, Own(reader[r].id, row),
         sources' = [sources EXCEPT ![reader[r].id] = row], reader' = [reader EXCEPT ![r] = AtRest],
         UNCHANGED <<provider, first, flow, callback, disconnect, completed, outdated>>
  PROVE  ConnectionInv'
<1>0. RequestsTyped /\ FlowsName /\ CallbacksHold /\ OneCallback /\ UsersHold /\ StatesOnce BY DEF ConnectionInv
<1>1. reader[r].id \in DOMAIN sources BY <1>0 DEF UsersHold
<1>2. /\ SourcesTyped' /\ SourcesOwn' /\ DOMAIN sources' = DOMAIN sources
      /\ \A t, x : Own(t, x)' <=> Own(t, x)
  BY <1>1, SourceWritten
<1>3. reader' \in [Readers -> UserRow] /\ \A q \in Readers : reader'[q] \in {reader[q], AtRest}
  BY <1>0, RestTyped DEF RequestsTyped
<1>4. RequestsTyped' BY <1>0, <1>3 DEF RequestsTyped
<1>5. FlowsName' /\ CallbacksHold' /\ OneCallback' /\ StatesOnce'
  BY <1>0, <1>2 DEF FlowsName, CallbacksHold, OneCallback, StatesOnce
<1>6. UsersHold' BY <1>0, <1>2, <1>3, RestTyped DEF UsersHold
<1>7. QED BY <1>2, <1>4, <1>5, <1>6 DEF ConnectionInv

LEMMA ReadersEnd ==
  ASSUME ConnectionInv, NEW r \in Readers, ListFolders(r) \/ Synchronise(r) \/ OpenFile(r)
  PROVE  ConnectionInv'
<1>0. RequestsTyped /\ SourcesTyped /\ SourcesOwn /\ UsersHold BY DEF ConnectionInv
<1>1. PICK s \in DOMAIN sources, read \in SourceRow :
        s = reader[r].id /\ read = reader[r].read /\ Own(s, read) /\ reader[r].at = "write"
  BY <1>0 DEF ListFolders, Synchronise, OpenFile, UsersHold, Own
<1>2. Own(s, sources[s]) /\ first[s] \in Accounts BY <1>0, SourceFacts DEF SourcesOwn
<1>3. ASSUME NEW new, Own(s, new), Write(r, new) PROVE ConnectionInv'
  <2>1. PICK row : row = Merge(sources[s], read, new) OBVIOUS
  <2>2. Own(s, row) BY <1>1, <1>2, <1>3, <2>1, MergedOwn
  <2>3. /\ sources' = [sources EXCEPT ![s] = row] /\ reader' = [reader EXCEPT ![r] = AtRest]
        /\ UNCHANGED <<provider, first, flow, callback, disconnect, completed, outdated>>
    BY <1>1, <1>3, <2>1 DEF Write
  <2>4. QED BY <1>1, <2>2, <2>3, ReaderWrites
<1>4. CASE Renew(r)
  <2>1. PICK row : row = [sources[s] EXCEPT !.credentials = read.credentials] OBVIOUS
  <2>2. Own(s, row) BY <1>1, <1>2, <2>1 DEF Own, SourceRow
  <2>3. /\ sources' = [sources EXCEPT ![s] = row] /\ reader' = [reader EXCEPT ![r] = AtRest]
        /\ UNCHANGED <<provider, first, flow, callback, disconnect, completed, outdated>>
    BY <1>1, <1>4, <2>1 DEF Renew
  <2>4. QED BY <1>1, <2>2, <2>3, ReaderWrites
<1>5. Own(s, [read EXCEPT !.status = "reauth_required"]) /\ Own(s, [read EXCEPT !.cursor = read.credentials])
  BY <1>1 DEF Own, SourceRow
<1>6. QED BY <1>1, <1>3, <1>4, <1>5 DEF ListFolders, Synchronise, OpenFile

LEMMA InitConnections == ASSUME AccountsApart PROVE ConnectionInit => ConnectionInv
<1> SUFFICES ASSUME ConnectionInit PROVE ConnectionInv
  OBVIOUS
<1>1. PICK account \in Accounts : sources = <<Source(account)>> /\ first = <<account>> BY DEF ConnectionInit
<1>2. PICK row : row = Source(account) OBVIOUS
<1>3. row \in SourceRow /\ row.account = account /\ row.credentials = account /\ row.cursor = None
  BY <1>2 DEF Source, SourceRow
<1>4. /\ sources \in Seq(SourceRow) /\ first \in Seq(Accounts) /\ Len(sources) = 1 /\ Len(first) = 1
      /\ sources[1] = row /\ first[1] = account /\ DOMAIN sources = {1}
  BY <1>1, <1>2, <1>3
<1>5. SourcesTyped BY <1>4 DEF SourcesTyped
<1>6. SourcesOwn BY <1>3, <1>4 DEF SourcesOwn, Own
<1>7. RequestsTyped BY RestTyped DEF ConnectionInit, RequestsTyped, FlowRow
<1>8. FlowsName /\ CallbacksHold /\ OneCallback /\ UsersHold /\ StatesOnce
  BY RestTyped DEF ConnectionInit, FlowsName, CallbacksHold, OneCallback, UsersHold, StatesOnce
<1>9. QED BY <1>5, <1>6, <1>7, <1>8 DEF ConnectionInv

LEMMA StepConnections == ASSUME AccountsApart, ConnectionInv, [ConnectionNext]_connectionVars PROVE ConnectionInv'
<1>1. CASE UNCHANGED <<provider, sources, first, flow, callback, disconnect, reader, completed, outdated>>
  BY <1>1 DEF ConnectionInv, RequestsTyped, SourcesTyped, SourcesOwn, FlowsName, CallbacksHold, OneCallback, UsersHold,
              StatesOnce, Own
<1>2. CASE SignOut \/ Demote BY <1>1, <1>2 DEF SignOut, Demote, requests
<1>3. CASE UNCHANGED connectionVars BY <1>1, <1>3 DEF connectionVars, requests
<1>4. QED
  BY <1>2, <1>3, BeginsAndLapses, Receives, Loads, Completes, Begins, Finishes, ReadersEnd DEF ConnectionNext

\* All that a Microsoft source keeps is of the drive it was made for, and no renewal that was begun
\* before a disconnection connects the source again, for any number of callbacks, disconnections and
\* readers between the reading and the writing of a row (onedrive.py, oauth_base.py).
THEOREM ConnectionsKeptAlways == ASSUME AccountsApart PROVE ConnectionSpec => []ConnectionsKept
<1>1. ConnectionInv => ConnectionsKept
  <2> SUFFICES ASSUME ConnectionInv PROVE ConnectionsKept
    OBVIOUS
  <2>1. DriveBound BY DEF ConnectionInv, SourcesOwn, Own, DriveBound
  <2>2. DisconnectStands BY DEF ConnectionInv, RequestsTyped, StatesOnce, DisconnectStands
  <2>3. QED BY <2>1, <2>2 DEF ConnectionsKept
<1>2. QED BY <1>1, InitConnections, StepConnections, PTL DEF ConnectionSpec

-----------------------------------------------------------------------------
(* The people of an organisation and their spaces                          *)

\* One request of an administrator at a time: two that overlap may leave an organisation without its default space.
OneDesk == \A p, q \in Desks : p = q

Roles == {"none", "owner", "admin", "member"}
Standing == {"none", "member", "manager"}
Enrolling == [op : {"accept", "join"}, inv : Invitations, who : Guests, role : Invited, spaces : SUBSET AllSpaces]

\* What requests of administrators hold: places and roles they give are ones, and no other request changes
\* the spaces they have read.
DeskHolds(r) ==
  /\ r.op \notin {"accept", "join"}
  /\ r.op \in {"add", "rank"} => r.role # "none" /\ r.role \in Standing
  /\ r.op = "promote" => r.role \in {"admin", "member"}
  /\ r.op \in {"create", "add", "remove", "rank", "enter"} => r.space \in AllSpaces
  /\ r.op \in {"add", "enter", "promote", "deactivate"} => r.who \in People
  /\ r.op \in {"remove", "rank"} => r.who \in People \cup {Nobody}
  /\ r.op = "archive" => r.space \in Live \ isDefault
  /\ r.op = "default" => r.space \in Live /\ r.old = Default
  /\ r.op = "invite" => r.who \in Guests /\ r.role \in Invited /\ r.spaces \subseteq AllSpaces

PeopleTyped ==
  /\ role \in [People -> Roles] /\ state \in [AllSpaces -> {"unused", "live", "archived"}]
  /\ isDefault \subseteq AllSpaces /\ place \in [AllSpaces -> [People -> Standing]]
  /\ DOMAIN invite = Invitations /\ DOMAIN request = Slots
  /\ \A i \in Invitations : Pending(i) => invite[i] \in [email : Guests, role : Invited, spaces : SUBSET AllSpaces]
  /\ \A q \in Slots : request[q] # Resting =>
       IF q \in Doors THEN request[q] \in Enrolling ELSE DeskHolds(request[q])

\* A person about to join has a seat, and a space that is live or was archived meanwhile.
JoinsPlaced ==
  \A d \in Doors : request[d] # Resting /\ request[d].op = "join" =>
    /\ Cardinality(Active) < MaxMembers /\ role[request[d].who] = "none"
    /\ request[d].who \in excused \/ request[d].spaces \cap Live # {}

OneJoin ==
  \A d, e \in Doors :
    request[d] # Resting /\ request[e] # Resting /\ request[d].op = "join" /\ request[e].op = "join" => d = e

DefaultOne == isDefault \subseteq Live /\ \E s \in AllSpaces : isDefault = {s}

PeopleInv ==
  /\ PeopleTyped /\ JoinsPlaced /\ OneJoin /\ DefaultOne /\ Placed
  /\ IsFiniteSet(Active) /\ SeatsBounded

\* Nobody is let in, and who had a place keeps one or is excused: the seats and the places hold.
LEMMA PlacesKept ==
  ASSUME PeopleAssumption, PeopleInv, role' \in [People -> Roles], \A p \in People : role[p] = "none" => role'[p] = "none",
         excused \subseteq excused',
         \A p \in People, s \in Live :
           place[s][p] # "none" => role'[p] = "none" \/ p \in excused' \/ (s \in Live' /\ place'[s][p] # "none"),
         \A d \in Doors : request'[d] = request[d],
         \A d \in Doors, s \in Live : request[d] # Resting /\ request[d].op = "join" /\ s \in request[d].spaces =>
           request[d].who \in excused' \/ s \in Live'
  PROVE  JoinsPlaced' /\ OneJoin' /\ Placed' /\ IsFiniteSet(Active)' /\ SeatsBounded'
<1>0. PeopleTyped /\ JoinsPlaced /\ OneJoin /\ Placed /\ IsFiniteSet(Active) /\ SeatsBounded BY DEF PeopleInv
<1>1. Active' \subseteq Active BY DEF Active
<1>2. /\ IsFiniteSet(Active') /\ Cardinality(Active') \in Nat /\ Cardinality(Active) \in Nat
      /\ Cardinality(Active') <= Cardinality(Active)
  BY <1>0, <1>1, FS_Subset, FS_CardinalityType
<1>3. IsFiniteSet(Active)' BY <1>2
<1>4. Cardinality(Active)' <= Cardinality(Active) /\ Cardinality(Active)' \in Nat BY <1>2
<1>5. SeatsBounded' BY <1>0, <1>2, <1>4 DEF SeatsBounded, PeopleAssumption
<1>6. OneJoin' BY <1>0 DEF OneJoin
<1>7. Placed' BY <1>0, <1>1 DEF Placed, Active
<1>8. JoinsPlaced'
  <2>1. ASSUME NEW d \in Doors, request'[d] # Resting, request'[d].op = "join"
        PROVE  /\ Cardinality(Active)' < MaxMembers /\ role'[request'[d].who] = "none"
               /\ request'[d].who \in excused' \/ request'[d].spaces \cap Live' # {}
    <3>1. PICK r \in Enrolling : r = request[d] /\ r = request'[d] /\ r.op = "join"
      BY <1>0, <2>1 DEF PeopleTyped, Slots
    <3>2. r.who \in People BY <3>1 DEF Enrolling, People
    <3>3. Cardinality(Active) < MaxMembers /\ role[r.who] = "none" /\ (r.who \in excused \/ r.spaces \cap Live # {})
      BY <1>0, <2>1, <3>1 DEF JoinsPlaced
    <3>4. Cardinality(Active)' < MaxMembers BY <1>2, <1>4, <3>3 DEF PeopleAssumption
    <3>5. role'[r.who] = "none" BY <3>2, <3>3
    <3>6. r.who \in excused' \/ r.spaces \cap Live' # {} BY <2>1, <3>1, <3>3
    <3>7. QED BY <3>1, <3>4, <3>5, <3>6
  <2>2. QED BY <2>1 DEF JoinsPlaced
<1>9. QED BY <1>3, <1>5, <1>6, <1>7, <1>8

\* What the requests of administrators come to, when those at the doors do not move.
LEMMA DeskStep ==
  ASSUME PeopleAssumption, PeopleInv, \A d \in Doors : request'[d] = request[d], DOMAIN request' = Slots,
         \A q \in Desks : request'[q] = Resting \/ DeskHolds(request[q])',
         role' \in [People -> Roles], \A p \in People : role[p] = "none" => role'[p] = "none",
         state' \in [AllSpaces -> {"unused", "live", "archived"}], DefaultOne',
         place' \in [AllSpaces -> [People -> Standing]], excused \subseteq excused',
         DOMAIN invite' = Invitations,
         \A i \in Invitations : Pending(i)' => invite'[i] \in [email : Guests, role : Invited, spaces : SUBSET AllSpaces],
         \A p \in People, s \in Live :
           place[s][p] # "none" => role'[p] = "none" \/ p \in excused' \/ (s \in Live' /\ place'[s][p] # "none"),
         \A d \in Doors, s \in Live : request[d] # Resting /\ request[d].op = "join" /\ s \in request[d].spaces =>
           request[d].who \in excused' \/ s \in Live'
  PROVE  PeopleInv'
<1>0. PeopleTyped BY DEF PeopleInv
<1>1. JoinsPlaced' /\ OneJoin' /\ Placed' /\ IsFiniteSet(Active)' /\ SeatsBounded' BY PlacesKept
<1>2. \A q \in Slots : request'[q] # Resting =>
        IF q \in Doors THEN request'[q] \in Enrolling ELSE DeskHolds(request[q])'
  BY <1>0 DEF PeopleTyped, Slots
<1>3. isDefault' \subseteq AllSpaces BY DEF DefaultOne, Live
<1>4. PeopleTyped' BY <1>2, <1>3 DEF PeopleTyped
<1>5. QED BY <1>1, <1>4 DEF PeopleInv

LEMMA DeskReads ==
  ASSUME PeopleAssumption, OneDesk, PeopleInv, NEW q \in Desks, NEW S, Reads(q, S), \A r \in S : DeskHolds(r)
  PROVE  PeopleInv'
<1>0. PeopleTyped /\ DefaultOne BY DEF PeopleInv
<1>1. PICK r \in S : request' = [request EXCEPT ![q] = r] BY DEF Reads
<1>2. UNCHANGED <<role, state, isDefault, place, invite, excused>> BY DEF Reads
<1>3. \A x : DeskHolds(x)' <=> DeskHolds(x) BY <1>2 DEF DeskHolds, Live, Default
<1>4. DOMAIN request' = Slots /\ q \notin Doors /\ \A p \in Desks : p = q
  BY <1>0, <1>1 DEF PeopleTyped, PeopleAssumption, OneDesk
<1>5. request'[q] = r /\ \A d \in Doors : request'[d] = request[d]
  BY <1>0, <1>1, <1>4 DEF PeopleTyped, Slots
<1>6. \A p \in Desks : request'[p] = Resting \/ DeskHolds(request[p])'
  <2>1. DeskHolds(r)' BY <1>3
  <2>2. QED BY <1>4, <1>5, <2>1 DEF DeskHolds
<1>7. DefaultOne' BY <1>0, <1>2 DEF DefaultOne, Live
<1>8. /\ role' \in [People -> Roles] /\ \A p \in People : role[p] = "none" => role'[p] = "none"
      /\ state' \in [AllSpaces -> {"unused", "live", "archived"}]
      /\ place' \in [AllSpaces -> [People -> Standing]] /\ excused \subseteq excused' /\ DOMAIN invite' = Invitations
      /\ \A i \in Invitations : Pending(i)' => invite'[i] \in [email : Guests, role : Invited, spaces : SUBSET AllSpaces]
  BY <1>0, <1>2 DEF PeopleTyped, Pending
<1>9. Live' = Live BY <1>2 DEF Live
<1>10. /\ \A p \in People, s \in Live :
            place[s][p] # "none" => role'[p] = "none" \/ p \in excused' \/ (s \in Live' /\ place'[s][p] # "none")
       /\ \A d \in Doors, s \in Live : request[d] # Resting /\ request[d].op = "join" /\ s \in request[d].spaces =>
            request[d].who \in excused' \/ s \in Live'
  BY <1>2, <1>9
<1>11. QED BY <1>4, <1>5, <1>6, <1>7, <1>8, <1>10, DeskStep

\* A request of an administrator ends.
LEMMA DeskEnds ==
  ASSUME PeopleAssumption, OneDesk, PeopleInv, NEW q \in Desks, Done(q) \/ \E gone : DoneRemoving(q, gone)
  PROVE  /\ DOMAIN request' = Slots /\ \A d \in Doors : request'[d] = request[d]
         /\ \A p \in Desks : request'[p] = Resting \/ DeskHolds(request[p])'
<1>0. PeopleTyped BY DEF PeopleInv
<1>1. q \in Slots /\ q \notin Doors /\ \A p \in Desks : p = q BY DEF Slots, PeopleAssumption, OneDesk
<1>2. CASE Done(q) BY <1>0, <1>1, <1>2 DEF Done, PeopleTyped, Slots
<1>3. CASE \E gone : DoneRemoving(q, gone)
  <2>1. PICK gone : DoneRemoving(q, gone) BY <1>3
  <2>2. DOMAIN request' = Slots /\ request'[q] = Resting BY <1>1, <2>1 DEF DoneRemoving
  <2>3. ASSUME NEW d \in Doors PROVE request'[d] = request[d]
    <3>1. d \in Slots /\ d # q BY <1>1 DEF Slots
    <3>2. request[d] # Resting => request[d].op \notin {"remove", "rank"} BY <1>0, <3>1 DEF PeopleTyped, Enrolling
    <3>3. QED BY <2>1, <3>1, <3>2 DEF DoneRemoving
  <2>4. QED BY <1>1, <2>2, <2>3
<1>4. QED BY <1>2, <1>3

LEMMA WrittenRequest ==
  ASSUME PeopleAssumption, PeopleInv, NEW q \in Desks, NEW op, Writing(q, op)
  PROVE  DeskHolds(request[q]) /\ request[q].op = op
BY DEF PeopleInv, PeopleTyped, Slots, PeopleAssumption, Writing

\* What is typed and does not move, and the spaces that are live.
LEMMA WorldFacts ==
  ASSUME PeopleInv
  PROVE  /\ role \in [People -> Roles] /\ state \in [AllSpaces -> {"unused", "live", "archived"}]
         /\ place \in [AllSpaces -> [People -> Standing]] /\ DOMAIN invite = Invitations
         /\ \A i \in Invitations : Pending(i) => invite[i] \in [email : Guests, role : Invited, spaces : SUBSET AllSpaces]
         /\ Live = {s \in AllSpaces : state[s] = "live"} /\ Default = isDefault /\ isDefault # {} /\ isDefault \subseteq Live
BY DEF PeopleInv, PeopleTyped, DefaultOne, Default, Live

\* Neither places nor live spaces are lost.
LEMMA NoneLost ==
  ASSUME PeopleAssumption, OneDesk, PeopleInv, NEW q \in Desks, Done(q) \/ \E gone : DoneRemoving(q, gone),
         role' \in [People -> Roles], \A p \in People : role[p] = "none" => role'[p] = "none",
         state' \in [AllSpaces -> {"unused", "live", "archived"}], Live \subseteq Live', DefaultOne',
         place' \in [AllSpaces -> [People -> Standing]],
         \A s \in Live, p \in People : place[s][p] # "none" => place'[s][p] # "none" \/ role'[p] = "none" \/ p \in excused',
         excused \subseteq excused', DOMAIN invite' = Invitations,
         \A i \in Invitations : Pending(i)' => invite'[i] \in [email : Guests, role : Invited, spaces : SUBSET AllSpaces]
  PROVE  PeopleInv'
<1>1. /\ DOMAIN request' = Slots /\ \A d \in Doors : request'[d] = request[d]
      /\ \A p \in Desks : request'[p] = Resting \/ DeskHolds(request[p])'
  BY DeskEnds
<1>2. /\ \A p \in People, s \in Live :
            place[s][p] # "none" => role'[p] = "none" \/ p \in excused' \/ (s \in Live' /\ place'[s][p] # "none")
      /\ \A d \in Doors, s \in Live : request[d] # Resting /\ request[d].op = "join" /\ s \in request[d].spaces =>
            request[d].who \in excused' \/ s \in Live'
  OBVIOUS
<1>3. QED BY <1>1, <1>2, DeskStep

LEMMA CreateSpaceKeeps ==
  ASSUME PeopleAssumption, OneDesk, PeopleInv, NEW q \in Desks, CreateSpace(q)
  PROVE  PeopleInv'
<1>1. CASE request[q] = Resting
  <2>1. PICK S : S = [op : {"create"}, space : {s \in AllSpaces : state[s] = "unused" /\ Admins # {}},
                      default : IF Default = {} THEN BOOLEAN ELSE {FALSE}]
    OBVIOUS
  <2>2. Reads(q, S) BY <1>1, <2>1 DEF CreateSpace, Writing
  <2>3. \A r \in S : DeskHolds(r) BY <2>1 DEF DeskHolds
  <2>4. QED BY <2>2, <2>3, DeskReads
<1>2. CASE request[q] # Resting
  <2>1. PICK r : r = request[q] OBVIOUS
  <2>2. /\ Writing(q, "create") /\ Done(q) /\ UNCHANGED <<role, place, invite, excused>>
        /\ r.default => Default = {}
        /\ state' = [state EXCEPT ![r.space] = "live"]
        /\ isDefault' = IF r.default THEN isDefault \cup {r.space} ELSE isDefault
    BY <1>2, <2>1 DEF CreateSpace, Reads
  <2>3. r.space \in AllSpaces BY <2>1, <2>2, WrittenRequest DEF DeskHolds
  <2>4. isDefault' = isDefault BY <2>2, WorldFacts
  <2>5. state' \in [AllSpaces -> {"unused", "live", "archived"}] /\ Live \subseteq Live' BY <2>2, WorldFacts DEF Live
  <2>6. DefaultOne' BY <2>4, <2>5 DEF PeopleInv, DefaultOne
  <2>7. \A i \in Invitations : Pending(i)' => invite'[i] \in [email : Guests, role : Invited, spaces : SUBSET AllSpaces]
    BY <2>2, WorldFacts DEF Pending
  <2>8. /\ role' \in [People -> Roles] /\ \A p \in People : role[p] = "none" => role'[p] = "none"
        /\ place' \in [AllSpaces -> [People -> Standing]] /\ DOMAIN invite' = Invitations /\ excused \subseteq excused'
        /\ \A s \in Live, p \in People : place[s][p] # "none" => place'[s][p] # "none" \/ role'[p] = "none" \/ p \in excused'
    BY <2>2, WorldFacts
  <2>9. QED BY <2>2, <2>5, <2>6, <2>7, <2>8, NoneLost
<1>3. QED BY <1>1, <1>2

LEMMA ArchiveSpaceKeeps ==
  ASSUME PeopleAssumption, OneDesk, PeopleInv, NEW q \in Desks, ArchiveSpace(q)
  PROVE  PeopleInv'
<1>1. CASE request[q] = Resting
  <2>1. PICK S : S = [op : {"archive"}, space : {s \in AllSpaces : Archivable(s)}] OBVIOUS
  <2>2. Reads(q, S) BY <1>1, <2>1 DEF ArchiveSpace, Writing
  <2>3. \A r \in S : DeskHolds(r) BY <2>1 DEF DeskHolds, Archivable
  <2>4. QED BY <2>2, <2>3, DeskReads
<1>2. CASE request[q] # Resting
  <2>1. PICK s : s = request[q].space OBVIOUS
  <2>2. /\ Writing(q, "archive") /\ Done(q) /\ UNCHANGED <<role, isDefault, place, invite>>
        /\ state' = [state EXCEPT ![s] = "archived"]
        /\ excused' = excused \cup {p \in People : place[s][p] # "none"}
               \cup {request[d].who : d \in {e \in Doors :
                        request[e] # Resting /\ request[e].op = "join" /\ s \in request[e].spaces}}
    BY <1>2, <2>1 DEF ArchiveSpace, Reads
  <2>3. s \in Live \ isDefault BY <2>1, <2>2, WrittenRequest DEF DeskHolds
  <2>4. state' \in [AllSpaces -> {"unused", "live", "archived"}] /\ Live' = Live \ {s} BY <2>2, <2>3, WorldFacts DEF Live
  <2>5. DefaultOne' BY <2>2, <2>3, <2>4 DEF PeopleInv, DefaultOne
  <2>6. \A i \in Invitations : Pending(i)' => invite'[i] \in [email : Guests, role : Invited, spaces : SUBSET AllSpaces]
    BY <2>2, WorldFacts DEF Pending
  <2>7. /\ \A p \in People, t \in Live :
              place[t][p] # "none" => role'[p] = "none" \/ p \in excused' \/ (t \in Live' /\ place'[t][p] # "none")
        /\ \A d \in Doors, t \in Live : request[d] # Resting /\ request[d].op = "join" /\ t \in request[d].spaces =>
              request[d].who \in excused' \/ t \in Live'
        /\ excused \subseteq excused'
    BY <2>2, <2>4
  <2>8. /\ DOMAIN request' = Slots /\ \A d \in Doors : request'[d] = request[d]
        /\ \A p \in Desks : request'[p] = Resting \/ DeskHolds(request[p])'
    BY <2>2, DeskEnds
  <2>9. /\ role' \in [People -> Roles] /\ \A p \in People : role[p] = "none" => role'[p] = "none"
        /\ place' \in [AllSpaces -> [People -> Standing]] /\ DOMAIN invite' = Invitations
    BY <2>2, WorldFacts
  <2>10. QED BY <2>4, <2>5, <2>6, <2>7, <2>8, <2>9, DeskStep
<1>3. QED BY <1>1, <1>2

LEMMA SetDefaultKeeps ==
  ASSUME PeopleAssumption, OneDesk, PeopleInv, NEW q \in Desks, SetDefault(q)
  PROVE  PeopleInv'
<1>1. CASE request[q] = Resting
  <2>1. PICK S : S = [op : {"default"}, space : {s \in Live \ isDefault : Admins # {}}, old : {Default}] OBVIOUS
  <2>2. Reads(q, S) BY <1>1, <2>1 DEF SetDefault, Writing
  <2>3. \A r \in S : DeskHolds(r) BY <2>1 DEF DeskHolds
  <2>4. QED BY <2>2, <2>3, DeskReads
<1>2. CASE request[q] # Resting
  <2>1. PICK r : r = request[q] OBVIOUS
  <2>2. /\ Writing(q, "default") /\ Done(q) /\ UNCHANGED <<role, state, place, invite, excused>>
        /\ isDefault' = (isDefault \ r.old) \cup {r.space}
    BY <1>2, <2>1 DEF SetDefault, Reads
  <2>3. r.space \in Live /\ r.old = Default BY <2>1, <2>2, WrittenRequest DEF DeskHolds
  <2>4. Live' = Live /\ isDefault' = {r.space} BY <2>2, <2>3, WorldFacts DEF Live
  <2>5. DefaultOne' BY <2>3, <2>4, WorldFacts DEF DefaultOne
  <2>6. \A i \in Invitations : Pending(i)' => invite'[i] \in [email : Guests, role : Invited, spaces : SUBSET AllSpaces]
    BY <2>2, WorldFacts DEF Pending
  <2>7. /\ role' \in [People -> Roles] /\ \A p \in People : role[p] = "none" => role'[p] = "none"
        /\ state' \in [AllSpaces -> {"unused", "live", "archived"}] /\ Live \subseteq Live'
        /\ place' \in [AllSpaces -> [People -> Standing]] /\ DOMAIN invite' = Invitations /\ excused \subseteq excused'
        /\ \A s \in Live, p \in People : place[s][p] # "none" => place'[s][p] # "none" \/ role'[p] = "none" \/ p \in excused'
    BY <2>2, <2>4, WorldFacts
  <2>8. QED BY <2>2, <2>5, <2>6, <2>7, NoneLost
<1>3. QED BY <1>1, <1>2
\* The spaces, who is in the organisation and the invitations stay.
LEMMA PlacesGiven ==
  ASSUME PeopleAssumption, OneDesk, PeopleInv, NEW q \in Desks, Done(q) \/ \E gone : DoneRemoving(q, gone),
         UNCHANGED <<role, state, isDefault, invite>>, place' \in [AllSpaces -> [People -> Standing]],
         \A s \in Live, p \in People : place[s][p] # "none" => place'[s][p] # "none" \/ p \in excused',
         excused \subseteq excused'
  PROVE  PeopleInv'
<1>1. Live' = Live BY DEF Live
<1>2. DefaultOne' BY <1>1 DEF PeopleInv, DefaultOne
<1>3. \A i \in Invitations : Pending(i)' => invite'[i] \in [email : Guests, role : Invited, spaces : SUBSET AllSpaces]
  BY WorldFacts DEF Pending
<1>4. /\ role' \in [People -> Roles] /\ \A p \in People : role[p] = "none" => role'[p] = "none"
      /\ state' \in [AllSpaces -> {"unused", "live", "archived"}] /\ Live \subseteq Live' /\ DOMAIN invite' = Invitations
      /\ \A s \in Live, p \in People : place[s][p] # "none" => place'[s][p] # "none" \/ role'[p] = "none" \/ p \in excused'
  BY <1>1, WorldFacts
<1>5. QED BY <1>2, <1>3, <1>4, NoneLost

LEMMA AddMemberKeeps ==
  ASSUME PeopleAssumption, OneDesk, PeopleInv, NEW q \in Desks, AddMember(q)
  PROVE  PeopleInv'
<1>1. CASE request[q] = Resting
  <2>1. PICK S : S = [op : {"add"}, space : {s \in AllSpaces : MayManage(s)}, who : Active, role : {"member", "manager"}]
    OBVIOUS
  <2>2. Reads(q, S) BY <1>1, <2>1 DEF AddMember, Writing
  <2>3. \A r \in S : DeskHolds(r) BY <2>1 DEF DeskHolds, Active, Standing
  <2>4. QED BY <2>2, <2>3, DeskReads
<1>2. CASE request[q] # Resting
  <2>1. PICK r : r = request[q] OBVIOUS
  <2>2. /\ Writing(q, "add") /\ Done(q) /\ UNCHANGED <<role, state, isDefault, invite, excused>>
        /\ place' = IF place[r.space][r.who] = "none" THEN [place EXCEPT ![r.space][r.who] = r.role] ELSE place
    BY <1>2, <2>1 DEF AddMember, Reads
  <2>3. r.space \in AllSpaces /\ r.who \in People /\ r.role \in Standing /\ r.role # "none"
    BY <2>1, <2>2, WrittenRequest DEF DeskHolds
  <2>4. place' \in [AllSpaces -> [People -> Standing]] BY <2>2, <2>3, WorldFacts
  <2>5. \A s \in Live, p \in People : place[s][p] # "none" => place'[s][p] # "none" \/ p \in excused'
    BY <2>2, <2>3, WorldFacts
  <2>6. QED BY <2>2, <2>4, <2>5, PlacesGiven
<1>3. QED BY <1>1, <1>2

LEMMA EnterSpaceKeeps ==
  ASSUME PeopleAssumption, OneDesk, PeopleInv, NEW q \in Desks, EnterSpace(q)
  PROVE  PeopleInv'
<1>1. CASE request[q] = Resting
  <2>1. PICK S : S = [op : {"enter"}, space : Live, who : Admins] OBVIOUS
  <2>2. Reads(q, S) BY <1>1, <2>1 DEF EnterSpace, Writing
  <2>3. \A r \in S : DeskHolds(r) BY <2>1 DEF DeskHolds, Live, Admins
  <2>4. QED BY <2>2, <2>3, DeskReads
<1>2. CASE request[q] # Resting
  <2>1. PICK r : r = request[q] OBVIOUS
  <2>2. /\ Writing(q, "enter") /\ Done(q) /\ UNCHANGED <<role, state, isDefault, invite, excused>>
        /\ place' = IF place[r.space][r.who] = "none" THEN [place EXCEPT ![r.space][r.who] = "member"] ELSE place
    BY <1>2, <2>1 DEF EnterSpace, Reads
  <2>3. r.space \in AllSpaces /\ r.who \in People BY <2>1, <2>2, WrittenRequest DEF DeskHolds
  <2>4. place' \in [AllSpaces -> [People -> Standing]] BY <2>2, <2>3, WorldFacts DEF Standing
  <2>5. \A s \in Live, p \in People : place[s][p] # "none" => place'[s][p] # "none" \/ p \in excused'
    BY <2>2, <2>3, WorldFacts
  <2>6. QED BY <2>2, <2>4, <2>5, PlacesGiven
<1>3. QED BY <1>1, <1>2

LEMMA RemoveMemberKeeps ==
  ASSUME PeopleAssumption, OneDesk, PeopleInv, NEW q \in Desks, RemoveMember(q)
  PROVE  PeopleInv'
<1>1. CASE request[q] = Resting
  <2>1. PICK S : S = [op : {"remove"}, space : {s \in AllSpaces : MayManage(s)},
                      who : {p \in People : \E s \in AllSpaces : place[s][p] # "none"}]
    OBVIOUS
  <2>2. Reads(q, S) BY <1>1, <2>1 DEF RemoveMember, Writing
  <2>3. \A r \in S : DeskHolds(r) BY <2>1 DEF DeskHolds
  <2>4. QED BY <2>2, <2>3, DeskReads
<1>2. CASE request[q] # Resting
  <2>1. PICK r : r = request[q] OBVIOUS
  <2>2. /\ Writing(q, "remove") /\ UNCHANGED <<role, state, isDefault, invite>>
        /\ IF r.who = Nobody THEN UNCHANGED <<place, excused>> /\ Done(q)
           ELSE /\ place' = [place EXCEPT ![r.space][r.who] = "none"] /\ excused' = excused \cup {r.who}
                /\ DoneRemoving(q, {<<r.space, r.who>>})
    BY <1>2, <2>1 DEF RemoveMember, Reads
  <2>3. r.space \in AllSpaces /\ r.who \in People \cup {Nobody} BY <2>1, <2>2, WrittenRequest DEF DeskHolds
  <2>4. place' \in [AllSpaces -> [People -> Standing]] BY <2>2, <2>3, WorldFacts DEF Standing
  <2>5. \A s \in Live, p \in People : place[s][p] # "none" => place'[s][p] # "none" \/ p \in excused'
    BY <2>2, <2>3, WorldFacts
  <2>6. excused \subseteq excused' /\ (Done(q) \/ \E gone : DoneRemoving(q, gone)) BY <2>2
  <2>7. QED BY <2>2, <2>4, <2>5, <2>6, PlacesGiven
<1>3. QED BY <1>1, <1>2

LEMMA SetMemberRoleKeeps ==
  ASSUME PeopleAssumption, OneDesk, PeopleInv, NEW q \in Desks, SetMemberRole(q)
  PROVE  PeopleInv'
<1>1. CASE request[q] = Resting
  <2>1. PICK S : S = [op : {"rank"}, space : {s \in AllSpaces : MayManage(s)}, who : People, role : {"member", "manager"}]
    OBVIOUS
  <2>2. Reads(q, S) BY <1>1, <2>1 DEF SetMemberRole, Writing
  <2>3. \A r \in S : DeskHolds(r) BY <2>1 DEF DeskHolds, Standing
  <2>4. QED BY <2>2, <2>3, DeskReads
<1>2. CASE request[q] # Resting
  <2>1. PICK r : r = request[q] OBVIOUS
  <2>2. /\ Writing(q, "rank") /\ Done(q) /\ UNCHANGED <<role, state, isDefault, invite, excused>>
        /\ place' = IF r.who = Nobody THEN place ELSE [place EXCEPT ![r.space][r.who] = r.role]
    BY <1>2, <2>1 DEF SetMemberRole, Reads
  <2>3. r.space \in AllSpaces /\ r.who \in People \cup {Nobody} /\ r.role \in Standing /\ r.role # "none"
    BY <2>1, <2>2, WrittenRequest DEF DeskHolds
  <2>4. place' \in [AllSpaces -> [People -> Standing]] BY <2>2, <2>3, WorldFacts
  <2>5. \A s \in Live, p \in People : place[s][p] # "none" => place'[s][p] # "none" \/ p \in excused'
    BY <2>2, <2>3, WorldFacts
  <2>6. QED BY <2>2, <2>4, <2>5, PlacesGiven
<1>3. QED BY <1>1, <1>2

\* The invitations written are of guests.
LEMMA InvitationsChange ==
  ASSUME PeopleAssumption, OneDesk, PeopleInv, NEW q \in Desks, Done(q), DOMAIN invite' = Invitations,
         UNCHANGED <<role, state, isDefault, place, excused>>,
         \A i \in Invitations : invite'[i] = invite[i] \/ invite'[i] = Closed
                                  \/ invite'[i] \in [email : Guests, role : Invited, spaces : SUBSET AllSpaces]
  PROVE  PeopleInv'
<1>1. Live' = Live BY DEF Live
<1>2. DefaultOne' BY <1>1 DEF PeopleInv, DefaultOne
<1>3. \A i \in Invitations : Pending(i)' => invite'[i] \in [email : Guests, role : Invited, spaces : SUBSET AllSpaces]
  BY WorldFacts DEF Pending
<1>4. /\ role' \in [People -> Roles] /\ \A p \in People : role[p] = "none" => role'[p] = "none"
      /\ state' \in [AllSpaces -> {"unused", "live", "archived"}] /\ Live \subseteq Live' /\ excused \subseteq excused'
      /\ place' \in [AllSpaces -> [People -> Standing]]
      /\ \A s \in Live, p \in People : place[s][p] # "none" => place'[s][p] # "none" \/ role'[p] = "none" \/ p \in excused'
  BY <1>1, WorldFacts
<1>5. QED BY <1>2, <1>3, <1>4, NoneLost

LEMMA CreateInvitationKeeps ==
  ASSUME PeopleAssumption, OneDesk, PeopleInv, NEW q \in Desks, CreateInvitation(q)
  PROVE  PeopleInv'
<1>1. CASE request[q] = Resting
  <2>1. PICK S : S = [op : {"invite"}, who : Guests, role : Invited, spaces : {C \in Chosen : C \subseteq Live}] OBVIOUS
  <2>2. Reads(q, S) BY <1>1, <2>1 DEF CreateInvitation, Writing
  <2>3. \A r \in S : DeskHolds(r) BY <2>1 DEF DeskHolds, Live
  <2>4. QED BY <2>2, <2>3, DeskReads
<1>2. CASE request[q] # Resting
  <2>1. PICK r : r = request[q] OBVIOUS
  <2>2. Writing(q, "invite") /\ Done(q) /\ UNCHANGED <<role, state, isDefault, place, excused>>
    BY <1>2 DEF CreateInvitation, Reads
  <2>3. PICK i \in Invitations :
           invite' = [j \in Invitations |->
               IF j = i THEN [email |-> r.who, role |-> r.role, spaces |-> r.spaces]
               ELSE IF Pending(j) /\ invite[j].email = r.who THEN Closed ELSE invite[j]]
    BY <1>2, <2>1 DEF CreateInvitation, Reads
  <2>4. r.who \in Guests /\ r.role \in Invited /\ r.spaces \subseteq AllSpaces BY <2>1, <2>2, WrittenRequest DEF DeskHolds
  <2>5. [email |-> r.who, role |-> r.role, spaces |-> r.spaces] \in [email : Guests, role : Invited, spaces : SUBSET AllSpaces]
    BY <2>4
  <2>6. /\ DOMAIN invite' = Invitations
        /\ \A j \in Invitations : invite'[j] = invite[j] \/ invite'[j] = Closed
                                  \/ invite'[j] \in [email : Guests, role : Invited, spaces : SUBSET AllSpaces]
    BY <2>3, <2>5
  <2>7. QED BY <2>2, <2>6, InvitationsChange
<1>3. QED BY <1>1, <1>2

LEMMA RevokeInvitationKeeps ==
  ASSUME PeopleAssumption, OneDesk, PeopleInv, NEW q \in Desks, RevokeInvitation(q)
  PROVE  PeopleInv'
<1>1. CASE request[q] = Resting
  <2>1. PICK S : S = [op : {"revoke"}, inv : {i \in Invitations : Pending(i)}] OBVIOUS
  <2>2. Reads(q, S) BY <1>1, <2>1 DEF RevokeInvitation, Writing
  <2>3. \A r \in S : DeskHolds(r) BY <2>1 DEF DeskHolds
  <2>4. QED BY <2>2, <2>3, DeskReads
<1>2. CASE request[q] # Resting
  <2>1. PICK i : i = request[q].inv OBVIOUS
  <2>2. /\ Writing(q, "revoke") /\ Done(q) /\ UNCHANGED <<role, state, isDefault, place, excused>>
        /\ invite' = [invite EXCEPT ![i] = Closed]
    BY <1>2, <2>1 DEF RevokeInvitation, Reads
  <2>3. /\ DOMAIN invite' = Invitations
        /\ \A j \in Invitations : invite'[j] = invite[j] \/ invite'[j] = Closed
                                  \/ invite'[j] \in [email : Guests, role : Invited, spaces : SUBSET AllSpaces]
    BY <2>2, WorldFacts
  <2>4. QED BY <2>2, <2>3, InvitationsChange
<1>3. QED BY <1>1, <1>2

LEMMA ChangeMembershipRoleKeeps ==
  ASSUME PeopleAssumption, OneDesk, PeopleInv, NEW q \in Desks, ChangeMembershipRole(q)
  PROVE  PeopleInv'
<1>1. CASE request[q] = Resting
  <2>1. PICK S : S = [op : {"promote"}, who : Active \ {Owner}, role : {"admin", "member"}] OBVIOUS
  <2>2. Reads(q, S) BY <1>1, <2>1 DEF ChangeMembershipRole, Writing
  <2>3. \A r \in S : DeskHolds(r) BY <2>1 DEF DeskHolds, Active
  <2>4. QED BY <2>2, <2>3, DeskReads
<1>2. CASE request[q] # Resting
  <2>1. PICK r : r = request[q] OBVIOUS
  <2>2. /\ Writing(q, "promote") /\ Done(q) /\ UNCHANGED <<state, isDefault, place, invite, excused>>
        /\ role' = IF role[r.who] = "none" THEN role ELSE [role EXCEPT ![r.who] = r.role]
    BY <1>2, <2>1 DEF ChangeMembershipRole, Reads
  <2>3. r.who \in People /\ r.role \in {"admin", "member"} BY <2>1, <2>2, WrittenRequest DEF DeskHolds
  <2>4. role' \in [People -> Roles] /\ \A p \in People : role[p] = "none" => role'[p] = "none"
    BY <2>2, <2>3, WorldFacts DEF Roles
  <2>5. Live' = Live BY <2>2 DEF Live
  <2>6. DefaultOne' BY <2>2, <2>5 DEF PeopleInv, DefaultOne
  <2>7. \A i \in Invitations : Pending(i)' => invite'[i] \in [email : Guests, role : Invited, spaces : SUBSET AllSpaces]
    BY <2>2, WorldFacts DEF Pending
  <2>8. /\ state' \in [AllSpaces -> {"unused", "live", "archived"}] /\ Live \subseteq Live' /\ excused \subseteq excused'
        /\ place' \in [AllSpaces -> [People -> Standing]] /\ DOMAIN invite' = Invitations
        /\ \A s \in Live, p \in People : place[s][p] # "none" => place'[s][p] # "none" \/ role'[p] = "none" \/ p \in excused'
    BY <2>2, <2>5, WorldFacts
  <2>9. QED BY <2>2, <2>4, <2>6, <2>7, <2>8, NoneLost
<1>3. QED BY <1>1, <1>2

LEMMA DeactivateMembershipKeeps ==
  ASSUME PeopleAssumption, OneDesk, PeopleInv, NEW q \in Desks, DeactivateMembership(q)
  PROVE  PeopleInv'
<1>1. CASE request[q] = Resting
  <2>1. PICK S : S = [op : {"deactivate"}, who : Active \ {Owner}] OBVIOUS
  <2>2. Reads(q, S) BY <1>1, <2>1 DEF DeactivateMembership, Writing
  <2>3. \A r \in S : DeskHolds(r) BY <2>1 DEF DeskHolds, Active
  <2>4. QED BY <2>2, <2>3, DeskReads
<1>2. CASE request[q] # Resting
  <2>1. PICK p : p = request[q].who OBVIOUS
  <2>2. /\ Writing(q, "deactivate") /\ DoneRemoving(q, AllSpaces \X {p}) /\ UNCHANGED <<state, isDefault, invite, excused>>
        /\ role' = [role EXCEPT ![p] = "none"] /\ place' = [s \in AllSpaces |-> [place[s] EXCEPT ![p] = "none"]]
    BY <1>2, <2>1 DEF DeactivateMembership, Reads
  <2>3. p \in People BY <2>1, <2>2, WrittenRequest DEF DeskHolds
  <2>4. role' \in [People -> Roles] /\ \A x \in People : role[x] = "none" => role'[x] = "none"
    BY <2>2, <2>3, WorldFacts DEF Roles
  <2>5. Live' = Live BY <2>2 DEF Live
  <2>6. DefaultOne' BY <2>2, <2>5 DEF PeopleInv, DefaultOne
  <2>7. \A i \in Invitations : Pending(i)' => invite'[i] \in [email : Guests, role : Invited, spaces : SUBSET AllSpaces]
    BY <2>2, WorldFacts DEF Pending
  <2>8. place' \in [AllSpaces -> [People -> Standing]] BY <2>2, <2>3, WorldFacts DEF Standing
  <2>9. \A s \in Live, x \in People : place[s][x] # "none" => place'[s][x] # "none" \/ role'[x] = "none" \/ x \in excused'
    BY <2>2, <2>3, WorldFacts DEF Live
  <2>10. /\ state' \in [AllSpaces -> {"unused", "live", "archived"}] /\ Live \subseteq Live' /\ excused \subseteq excused'
         /\ DOMAIN invite' = Invitations /\ \E gone : DoneRemoving(q, gone)
    BY <2>2, <2>5, WorldFacts
  <2>11. QED BY <2>4, <2>6, <2>7, <2>8, <2>9, <2>10, NoneLost
<1>3. QED BY <1>1, <1>2

LEMMA ExpireKeeps ==
  ASSUME PeopleAssumption, OneDesk, PeopleInv, NEW i \in Invitations, Expire(i)
  PROVE  PeopleInv'
<1>1. invite' = [invite EXCEPT ![i] = Closed] /\ UNCHANGED <<role, state, isDefault, place, request, excused>> BY DEF Expire
<1>2. Live' = Live BY <1>1 DEF Live
<1>3. DefaultOne' BY <1>1, <1>2 DEF PeopleInv, DefaultOne
<1>4. \A x : DeskHolds(x)' <=> DeskHolds(x) BY <1>1 DEF DeskHolds, Live, Default
<1>5. \A q \in Desks : request'[q] = Resting \/ DeskHolds(request[q])'
  <2>1. \A q \in Desks : request[q] = Resting \/ DeskHolds(request[q]) BY DEF PeopleInv, PeopleTyped, PeopleAssumption, Slots
  <2>2. QED BY <1>1, <1>4, <2>1
<1>6. \A j \in Invitations : Pending(j)' => invite'[j] \in [email : Guests, role : Invited, spaces : SUBSET AllSpaces]
  BY <1>1, WorldFacts DEF Pending
<1>7. /\ DOMAIN request' = Slots /\ \A d \in Doors : request'[d] = request[d]
      /\ role' \in [People -> Roles] /\ \A p \in People : role[p] = "none" => role'[p] = "none"
      /\ state' \in [AllSpaces -> {"unused", "live", "archived"}] /\ excused \subseteq excused'
      /\ place' \in [AllSpaces -> [People -> Standing]] /\ DOMAIN invite' = Invitations
  BY <1>1, WorldFacts DEF PeopleInv, PeopleTyped
<1>8. /\ \A p \in People, s \in Live :
            place[s][p] # "none" => role'[p] = "none" \/ p \in excused' \/ (s \in Live' /\ place'[s][p] # "none")
      /\ \A d \in Doors, s \in Live : request[d] # Resting /\ request[d].op = "join" /\ s \in request[d].spaces =>
            request[d].who \in excused' \/ s \in Live'
  BY <1>1, <1>2
<1>9. QED BY <1>3, <1>5, <1>6, <1>7, <1>8, DeskStep

\* One request at a door moves, and nothing else.
LEMMA DoorMoves ==
  ASSUME PeopleAssumption, PeopleInv, NEW d \in Doors, NEW x, request' = [request EXCEPT ![d] = x],
         UNCHANGED <<role, state, isDefault, place, invite, excused>>, x = Resting \/ x \in Enrolling,
         x # Resting /\ x.op = "join" =>
           /\ Cardinality(Active) < MaxMembers /\ role[x.who] = "none" /\ x.spaces \cap Live # {}
           /\ \A e \in Doors : request[e] # Resting => request[e].op # "join"
  PROVE  PeopleInv'
<1>0. PeopleTyped /\ JoinsPlaced /\ OneJoin /\ DefaultOne /\ Placed /\ IsFiniteSet(Active) /\ SeatsBounded BY DEF PeopleInv
<1>1. DOMAIN request' = Slots /\ request'[d] = x /\ \A q \in Slots : q # d => request'[q] = request[q]
  BY <1>0 DEF PeopleTyped, Slots
<1>2. Live' = Live /\ Active' = Active BY DEF Live, Active
<1>3. \A r : DeskHolds(r)' <=> DeskHolds(r) BY <1>2 DEF DeskHolds, Default
<1>4. \A q \in Slots \ Doors : request'[q] = Resting \/ DeskHolds(request[q])'
  BY <1>0, <1>1, <1>3 DEF PeopleTyped
<1>5. \A q \in Doors : request'[q] = Resting \/ request'[q] \in Enrolling BY <1>0, <1>1 DEF PeopleTyped, Slots
<1>6. /\ role' \in [People -> Roles] /\ state' \in [AllSpaces -> {"unused", "live", "archived"}]
      /\ isDefault' \subseteq AllSpaces /\ place' \in [AllSpaces -> [People -> Standing]]
      /\ DOMAIN invite' = Invitations
      /\ \A i \in Invitations : Pending(i)' => invite'[i] \in [email : Guests, role : Invited, spaces : SUBSET AllSpaces]
  BY <1>0 DEF PeopleTyped, Pending
<1>7. PeopleTyped' BY <1>1, <1>4, <1>5, <1>6 DEF PeopleTyped
<1>8. JoinsPlaced'
  <2>1. ASSUME NEW e \in Doors, request'[e] # Resting, request'[e].op = "join"
        PROVE  /\ Cardinality(Active) < MaxMembers /\ role[request'[e].who] = "none"
               /\ request'[e].who \in excused \/ request'[e].spaces \cap Live # {}
    BY <1>0, <1>1, <2>1 DEF JoinsPlaced, Slots
  <2>2. QED BY <1>2, <2>1 DEF JoinsPlaced
<1>9. OneJoin' BY <1>0, <1>1 DEF OneJoin, Slots
<1>10. DefaultOne' /\ Placed' BY <1>0, <1>2 DEF DefaultOne, Placed
<1>11. IsFiniteSet(Active)' /\ SeatsBounded' BY <1>0, <1>2 DEF SeatsBounded
<1>12. QED BY <1>7, <1>8, <1>9, <1>10, <1>11 DEF PeopleInv

LEMMA AcceptReadsKeeps ==
  ASSUME PeopleAssumption, PeopleInv, NEW d \in Doors, AcceptReads(d)
  PROVE  PeopleInv'
<1>1. PICK i \in Invitations :
        /\ Pending(i)
        /\ request' = [request EXCEPT ![d] = [op |-> "accept", inv |-> i, who |-> invite[i].email,
                                              role |-> invite[i].role, spaces |-> invite[i].spaces]]
  BY DEF AcceptReads, Reads
<1>2. PICK x : x = [op |-> "accept", inv |-> i, who |-> invite[i].email,
                    role |-> invite[i].role, spaces |-> invite[i].spaces]
  OBVIOUS
<1>3. invite[i] \in [email : Guests, role : Invited, spaces : SUBSET AllSpaces] BY <1>1, WorldFacts
<1>4. x \in Enrolling /\ x.op = "accept" BY <1>2, <1>3 DEF Enrolling
<1>5. request' = [request EXCEPT ![d] = x] BY <1>1, <1>2
<1>6. UNCHANGED <<role, state, isDefault, place, invite, excused>> BY DEF AcceptReads, Reads
<1>7. QED BY <1>4, <1>5, <1>6, DoorMoves

LEMMA AcceptEnrollsKeeps ==
  ASSUME PeopleAssumption, PeopleInv, NEW d \in Doors, AcceptEnrolls(d)
  PROVE  PeopleInv'
<1>1. PICK r \in Enrolling : r = request[d] BY DEF AcceptEnrolls, Writing, PeopleInv, PeopleTyped, Slots
<1>2. PICK T : T = Targets(r.spaces) OBVIOUS
<1>3. PICK x : x = [r EXCEPT !.op = "join", !.spaces = T] OBVIOUS
<1>4. T \subseteq AllSpaces /\ T \cap Live # {} BY <1>2, WorldFacts DEF Targets, Live
<1>5. x \in Enrolling /\ x.op = "join" /\ x.who = r.who /\ x.spaces = T BY <1>1, <1>3, <1>4 DEF Enrolling
<1>6. d \in DOMAIN request BY DEF PeopleInv, PeopleTyped, Slots
<1>7. request' = [request EXCEPT ![d].op = "join", ![d].spaces = T] BY <1>1, <1>2 DEF AcceptEnrolls
<1>8. request' = [request EXCEPT ![d] = x] BY <1>1, <1>3, <1>6, <1>7
<1>9. /\ UNCHANGED <<role, state, isDefault, place, invite, excused>>
      /\ Cardinality(Active) < MaxMembers /\ role[x.who] = "none"
      /\ \A e \in Doors : request[e] # Resting => request[e].op # "join"
  BY <1>1, <1>5 DEF AcceptEnrolls, Seated, OrganizationFree
<1>10. QED BY <1>4, <1>5, <1>8, <1>9, DoorMoves

LEMMA AcceptCommitsKeeps ==
  ASSUME PeopleAssumption, PeopleInv, NEW d \in Doors, AcceptCommits(d)
  PROVE  PeopleInv'
<1>0. PeopleTyped /\ JoinsPlaced /\ OneJoin /\ DefaultOne /\ Placed /\ IsFiniteSet(Active) /\ SeatsBounded BY DEF PeopleInv
<1>1. PICK r \in Enrolling : r = request[d] /\ r.op = "join" /\ r # Resting
  BY <1>0 DEF AcceptCommits, Writing, PeopleTyped, Slots
<1>2. /\ role' = [role EXCEPT ![r.who] = r.role] /\ invite' = [invite EXCEPT ![r.inv] = Closed]
      /\ place' = [s \in AllSpaces |->
            IF s \in r.spaces /\ place[s][r.who] = "none" THEN [place[s] EXCEPT ![r.who] = "member"] ELSE place[s]]
      /\ excused' = IF r.spaces \cap Live = {} THEN excused ELSE excused \ {r.who}
      /\ request' = [request EXCEPT ![d] = Resting] /\ UNCHANGED <<state, isDefault>>
  BY <1>1 DEF AcceptCommits, Done
<1>3. /\ r.who \in Guests /\ r.who \in People /\ r.inv \in Invitations /\ r.spaces \subseteq AllSpaces
      /\ r.role \in {"admin", "member"}
  BY <1>1 DEF Enrolling, People, PeopleAssumption
<1>4. Cardinality(Active) < MaxMembers /\ role[r.who] = "none" /\ (r.who \in excused \/ r.spaces \cap Live # {})
  BY <1>0, <1>1 DEF JoinsPlaced
<1>5. Live' = Live /\ Active' = Active \cup {r.who} /\ r.who \notin Active
  <2>1. Live' = Live BY <1>2 DEF Live
  <2>2. \A p \in People : role'[p] # "none" <=> role[p] # "none" \/ p = r.who BY <1>0, <1>2, <1>3 DEF PeopleTyped
  <2>3. QED BY <1>3, <1>4, <2>1, <2>2 DEF Active
<1>6. DOMAIN request' = Slots /\ request'[d] = Resting /\ \A q \in Slots : q # d => request'[q] = request[q]
  BY <1>0, <1>2 DEF PeopleTyped, Slots
<1>7. PeopleTyped'
  <2>1. \A x : DeskHolds(x)' <=> DeskHolds(x) BY <1>2, <1>5 DEF DeskHolds, Default
  <2>2. \A q \in Slots \ Doors : request'[q] = Resting \/ DeskHolds(request[q])'
    BY <1>0, <1>6, <2>1 DEF PeopleTyped
  <2>3. \A q \in Doors : request'[q] = Resting \/ request'[q] \in Enrolling BY <1>0, <1>6 DEF PeopleTyped, Slots
  <2>4. role' \in [People -> Roles] BY <1>0, <1>2, <1>3 DEF PeopleTyped, Roles
  <2>5. place' \in [AllSpaces -> [People -> Standing]] BY <1>0, <1>2, <1>3 DEF PeopleTyped, Standing
  <2>6. \A i \in Invitations : Pending(i)' => invite'[i] \in [email : Guests, role : Invited, spaces : SUBSET AllSpaces]
    BY <1>0, <1>2, WorldFacts DEF Pending
  <2>7. /\ state' \in [AllSpaces -> {"unused", "live", "archived"}] /\ isDefault' \subseteq AllSpaces
        /\ DOMAIN invite' = Invitations
    BY <1>0, <1>2 DEF PeopleTyped
  <2>8. QED BY <1>6, <2>2, <2>3, <2>4, <2>5, <2>6, <2>7 DEF PeopleTyped
<1>8. \A e \in Doors : request'[e] # Resting => request'[e].op # "join"
  BY <1>0, <1>1, <1>6 DEF OneJoin, Slots
<1>9. JoinsPlaced' /\ OneJoin' BY <1>8 DEF JoinsPlaced, OneJoin
<1>10. DefaultOne' BY <1>0, <1>2, <1>5 DEF DefaultOne
<1>11. IsFiniteSet(Active') /\ Cardinality(Active') = Cardinality(Active) + 1 /\ Cardinality(Active) \in Nat
  BY <1>0, <1>5, FS_AddElement, FS_CardinalityType
<1>12. IsFiniteSet(Active)' /\ SeatsBounded' BY <1>4, <1>11 DEF SeatsBounded, PeopleAssumption
<1>13. Placed'
  <2>1. ASSUME NEW p \in People, p \in Active \/ p = r.who
        PROVE  p \in excused' \/ \E s \in Live : place'[s][p] # "none"
    <3>1. CASE p = r.who
      <4>1. CASE r.spaces \cap Live = {} BY <1>2, <1>4, <3>1, <4>1
      <4>2. CASE r.spaces \cap Live # {}
        <5>1. PICK s \in Live : s \in r.spaces BY <4>2
        <5>2. s \in AllSpaces /\ r.who \in DOMAIN place[s] BY <1>0, <1>3, <5>1 DEF Live, PeopleTyped
        <5>3. place'[s][r.who] # "none" BY <1>2, <5>1, <5>2
        <5>4. QED BY <3>1, <5>1, <5>3
      <4>3. QED BY <4>1, <4>2
    <3>2. CASE p # r.who
      <4>1. \A s \in Live : place'[s][p] = place[s][p] BY <1>0, <1>2, <1>3, <3>2 DEF Live, PeopleTyped
      <4>2. p \in excused \/ \E s \in Live : place[s][p] # "none" BY <1>0, <2>1, <3>2 DEF Placed
      <4>3. QED BY <1>2, <3>2, <4>1, <4>2
    <3>3. QED BY <3>1, <3>2
  <2>2. Active' \subseteq People BY DEF Active
  <2>3. QED BY <1>3, <1>5, <2>1, <2>2 DEF Placed, Active
<1>14. QED BY <1>7, <1>9, <1>10, <1>12, <1>13 DEF PeopleInv

LEMMA GivesUpKeeps ==
  ASSUME PeopleAssumption, OneDesk, PeopleInv, NEW q \in Slots, GivesUp(q)
  PROVE  PeopleInv'
<1>1. Done(q) /\ UNCHANGED <<role, state, isDefault, place, invite, excused>> BY DEF GivesUp
<1>2. CASE q \in Doors BY <1>1, <1>2, DoorMoves DEF Done
<1>3. CASE q \in Desks
  <2>1. \A s \in Live, p \in People : place[s][p] # "none" => place'[s][p] # "none" \/ p \in excused' BY <1>1
  <2>2. place' \in [AllSpaces -> [People -> Standing]] BY <1>1, WorldFacts
  <2>3. QED BY <1>1, <1>3, <2>1, <2>2, PlacesGiven
<1>4. QED BY <1>2, <1>3 DEF Slots

LEMMA PeopleInitially == ASSUME PeopleAssumption, PeopleInit PROVE PeopleInv
<1>1. Active = {Owner} BY DEF PeopleInit, Active, People
<1>2. Live = {General} BY DEF PeopleInit, Live, AllSpaces
<1>3. PeopleTyped BY DEF PeopleInit, PeopleTyped, Roles, Standing, AllSpaces, People, Pending, Slots
<1>4. JoinsPlaced /\ OneJoin BY DEF PeopleInit, JoinsPlaced, OneJoin, Slots
<1>5. DefaultOne BY <1>2 DEF PeopleInit, DefaultOne, AllSpaces
<1>6. Placed BY <1>1, <1>2 DEF PeopleInit, Placed, AllSpaces, People
<1>7. IsFiniteSet(Active) /\ Cardinality(Active) = 1 BY <1>1, FS_Singleton
<1>8. SeatsBounded BY <1>7 DEF SeatsBounded, PeopleAssumption
<1>9. QED BY <1>3, <1>4, <1>5, <1>6, <1>7, <1>8 DEF PeopleInv

LEMMA PeopleStep ==
  ASSUME PeopleAssumption, OneDesk, PeopleInv, [PeopleNext]_peopleVars
  PROVE  PeopleInv'
<1>1. CASE UNCHANGED peopleVars
  BY <1>1 DEF peopleVars, PeopleInv, PeopleTyped, JoinsPlaced, OneJoin, DefaultOne, Placed, SeatsBounded,
              Active, Live, Default, DeskHolds, Pending
<1>2. ASSUME NEW q \in Desks,
             \/ CreateSpace(q) \/ ArchiveSpace(q) \/ SetDefault(q) \/ AddMember(q) \/ RemoveMember(q) \/ SetMemberRole(q)
             \/ EnterSpace(q) \/ CreateInvitation(q) \/ RevokeInvitation(q) \/ ChangeMembershipRole(q)
             \/ DeactivateMembership(q)
      PROVE  PeopleInv'
  BY <1>2, CreateSpaceKeeps, ArchiveSpaceKeeps, SetDefaultKeeps, AddMemberKeeps, RemoveMemberKeeps, SetMemberRoleKeeps,
     EnterSpaceKeeps, CreateInvitationKeeps, RevokeInvitationKeeps, ChangeMembershipRoleKeeps, DeactivateMembershipKeeps
<1>3. ASSUME NEW d \in Doors, AcceptReads(d) \/ AcceptEnrolls(d) \/ AcceptCommits(d) PROVE PeopleInv'
  BY <1>3, AcceptReadsKeeps, AcceptEnrollsKeeps, AcceptCommitsKeeps
<1>4. ASSUME NEW q \in Slots, GivesUp(q) PROVE PeopleInv' BY <1>4, GivesUpKeeps
<1>5. ASSUME NEW i \in Invitations, Expire(i) PROVE PeopleInv' BY <1>5, ExpireKeeps
<1>6. QED BY <1>1, <1>2, <1>3, <1>4, <1>5 DEF PeopleNext

\* The seats, the default space and everybody's place hold for every number of people, spaces and acceptances at
\* once, while one request of an administrator at a time is under way.
THEOREM PeoplePlacedAlways == ASSUME PeopleAssumption, OneDesk PROVE PeopleSpec => []PeoplePlaced
<1>1. PeopleInit => PeopleInv BY PeopleInitially
<1>2. PeopleInv /\ [PeopleNext]_peopleVars => PeopleInv' BY PeopleStep
<1>3. PeopleInv => PeoplePlaced
  <2>1. ASSUME PeopleInv PROVE PeoplePlaced
    <3>1. PICK s \in AllSpaces : isDefault = {s} BY <2>1 DEF PeopleInv, DefaultOne
    <3>2. Default = {s} BY <2>1, <3>1, WorldFacts
    <3>3. DefaultKept BY <3>2, FS_Singleton DEF DefaultKept
    <3>4. QED BY <2>1, <3>3 DEF PeoplePlaced, PeopleInv
  <2>2. QED BY <2>1
<1>4. QED BY <1>1, <1>2, <1>3, PTL DEF PeopleSpec

\* The seats count what acceptances may still take, whatever requests of administrators overlap: at most one
\* acceptance is past its count, and who it lets in has a seat.
SeatsInv ==
  /\ DOMAIN role = People /\ DOMAIN request = Slots
  /\ \A d \in Doors : request[d] # Resting => request[d].op \in {"accept", "join"} /\ "op" \in DOMAIN request[d]
  /\ IsFiniteSet(Active) /\ SeatsBounded /\ OneJoin
  /\ \A d \in Doors : request[d] # Resting /\ request[d].op = "join" => Cardinality(Active) < MaxMembers

\* The requests of administrators let nobody in.
LEMMA SeatsStay ==
  ASSUME PeopleAssumption, SeatsInv, DOMAIN role' = People, DOMAIN request' = Slots, Active' \subseteq Active,
         \A d \in Doors : request'[d] = Resting \/ request'[d] = request[d]
  PROVE  SeatsInv'
<1>1. /\ IsFiniteSet(Active') /\ Cardinality(Active') \in Nat /\ Cardinality(Active) \in Nat
      /\ Cardinality(Active') <= Cardinality(Active)
  BY FS_Subset, FS_CardinalityType DEF SeatsInv
<1>2. IsFiniteSet(Active)' BY <1>1
<1>3. Cardinality(Active)' <= Cardinality(Active) /\ Cardinality(Active)' \in Nat BY <1>1
<1>4. SeatsBounded' BY <1>1, <1>3 DEF SeatsInv, SeatsBounded, PeopleAssumption
<1>5. \A d \in Doors : request'[d] # Resting =>
        /\ request[d] # Resting /\ request'[d] = request[d] /\ request[d].op \in {"accept", "join"}
        /\ "op" \in DOMAIN request'[d] /\ request'[d].op \in {"accept", "join"}
  BY DEF SeatsInv
<1>6. OneJoin' BY <1>5 DEF SeatsInv, OneJoin
<1>7. \A d \in Doors : request'[d] # Resting /\ request'[d].op = "join" => Cardinality(Active)' < MaxMembers
  BY <1>1, <1>3, <1>5 DEF SeatsInv, PeopleAssumption
<1>8. QED BY <1>2, <1>4, <1>5, <1>6, <1>7 DEF SeatsInv

LEMMA SeatsDesk ==
  ASSUME PeopleAssumption, SeatsInv, NEW q \in Desks,
         (\E S : Reads(q, S)) \/ Done(q) \/ \E gone : DoneRemoving(q, gone)
  PROVE  DOMAIN request' = Slots /\ \A d \in Doors : request'[d] = Resting \/ request'[d] = request[d]
<1>1. q \in Slots /\ q \notin Doors BY DEF Slots, PeopleAssumption
<1>2. CASE \E S : Reads(q, S) BY <1>1, <1>2 DEF Reads, SeatsInv, Slots
<1>3. CASE Done(q) BY <1>1, <1>3 DEF Done, SeatsInv, Slots
<1>4. CASE \E gone : DoneRemoving(q, gone)
  <2>1. PICK gone : DoneRemoving(q, gone) BY <1>4
  <2>2. ASSUME NEW d \in Doors PROVE request'[d] = request[d]
    <3>1. d \in Slots /\ d # q BY <1>1 DEF Slots
    <3>2. request[d] # Resting => request[d].op \notin {"remove", "rank"} BY DEF SeatsInv
    <3>3. QED BY <2>1, <3>1, <3>2 DEF DoneRemoving
  <2>3. QED BY <2>1, <2>2 DEF DoneRemoving
<1>5. QED BY <1>2, <1>3, <1>4

LEMMA SeatsStep ==
  ASSUME PeopleAssumption, SeatsInv, [PeopleNext]_peopleVars
  PROVE  SeatsInv'
<1>1. CASE UNCHANGED peopleVars BY <1>1 DEF peopleVars, SeatsInv, OneJoin, SeatsBounded, Active
<1>2. ASSUME NEW q \in Desks,
             \/ CreateSpace(q) \/ ArchiveSpace(q) \/ SetDefault(q) \/ AddMember(q) \/ RemoveMember(q) \/ SetMemberRole(q)
             \/ EnterSpace(q) \/ CreateInvitation(q) \/ RevokeInvitation(q) \/ ChangeMembershipRole(q)
             \/ DeactivateMembership(q)
      PROVE  SeatsInv'
  <2>1. (\E S : Reads(q, S)) \/ Done(q) \/ \E gone : DoneRemoving(q, gone)
    <3>1. CASE CreateSpace(q) \/ ArchiveSpace(q) \/ SetDefault(q)
      BY <3>1 DEF CreateSpace, ArchiveSpace, SetDefault
    <3>2. CASE AddMember(q) \/ RemoveMember(q) \/ SetMemberRole(q) \/ EnterSpace(q)
      BY <3>2 DEF AddMember, RemoveMember, SetMemberRole, EnterSpace
    <3>3. CASE CreateInvitation(q) \/ RevokeInvitation(q) \/ ChangeMembershipRole(q) \/ DeactivateMembership(q)
      BY <3>3 DEF CreateInvitation, RevokeInvitation, ChangeMembershipRole, DeactivateMembership
    <3>4. QED BY <1>2, <3>1, <3>2, <3>3
  <2>2. DOMAIN role = People BY DEF SeatsInv
  <2>3. DOMAIN role' = People /\ Active' \subseteq Active
    <3>1. CASE role' = role BY <2>2, <3>1 DEF Active
    <3>2. CASE ChangeMembershipRole(q)
      <4>1. PICK r : r = request[q] OBVIOUS
      <4>2. role' = role \/ role' = IF role[r.who] = "none" THEN role ELSE [role EXCEPT ![r.who] = r.role]
        BY <3>2, <4>1 DEF ChangeMembershipRole, Reads
      <4>3. QED BY <2>2, <4>2 DEF Active
    <3>3. CASE DeactivateMembership(q)
      <4>1. PICK p : p = request[q].who OBVIOUS
      <4>2. role' = role \/ role' = [role EXCEPT ![p] = "none"] BY <3>3, <4>1 DEF DeactivateMembership, Reads
      <4>3. QED BY <2>2, <4>2 DEF Active
    <3>4. CASE CreateSpace(q) \/ ArchiveSpace(q) \/ SetDefault(q) \/ AddMember(q) \/ RemoveMember(q)
      BY <3>1, <3>4 DEF CreateSpace, ArchiveSpace, SetDefault, AddMember, RemoveMember, Reads
    <3>5. CASE SetMemberRole(q) \/ EnterSpace(q) \/ CreateInvitation(q) \/ RevokeInvitation(q)
      BY <3>1, <3>5 DEF SetMemberRole, EnterSpace, CreateInvitation, RevokeInvitation, Reads
    <3>6. QED BY <1>2, <3>2, <3>3, <3>4, <3>5
  <2>4. QED BY <2>1, <2>3, SeatsDesk, SeatsStay
<1>3. ASSUME NEW d \in Doors, AcceptReads(d) PROVE SeatsInv'
  <2>1. PICK i \in Invitations :
          request' = [request EXCEPT ![d] = [op |-> "accept", inv |-> i, who |-> invite[i].email,
                                             role |-> invite[i].role, spaces |-> invite[i].spaces]]
    BY <1>3 DEF AcceptReads, Reads
  <2>2. role' = role /\ Active' = Active BY <1>3 DEF AcceptReads, Reads, Active
  <2>3. /\ DOMAIN request' = Slots /\ request'[d].op = "accept" /\ "op" \in DOMAIN request'[d]
        /\ \A e \in Doors : e # d => request'[e] = request[e]
    BY <2>1 DEF SeatsInv, Slots
  <2>4. OneJoin' BY <2>3 DEF SeatsInv, OneJoin
  <2>5. \A e \in Doors : request'[e] # Resting =>
           /\ request'[e].op \in {"accept", "join"} /\ "op" \in DOMAIN request'[e]
           /\ request'[e].op = "join" => Cardinality(Active)' < MaxMembers
    BY <2>2, <2>3 DEF SeatsInv
  <2>6. QED BY <2>2, <2>3, <2>4, <2>5 DEF SeatsInv, SeatsBounded
<1>4. ASSUME NEW d \in Doors, AcceptEnrolls(d) PROVE SeatsInv'
  <2>1. PICK T : T = Targets(request[d].spaces) OBVIOUS
  <2>2. /\ request' = [request EXCEPT ![d].op = "join", ![d].spaces = T]
        /\ Cardinality(Active) < MaxMembers /\ \A e \in Doors : request[e] # Resting => request[e].op # "join"
    BY <1>4, <2>1 DEF AcceptEnrolls, Seated, OrganizationFree
  <2>3. role' = role /\ Active' = Active BY <1>4 DEF AcceptEnrolls, Active
  <2>4. PICK r : r = request[d] OBVIOUS
  <2>5. PICK x : x = [r EXCEPT !.op = "join", !.spaces = T] OBVIOUS
  <2>6. "op" \in DOMAIN r BY <1>4, <2>4 DEF AcceptEnrolls, Writing, SeatsInv
  <2>7. d \in DOMAIN request BY DEF SeatsInv, Slots
  <2>8. request' = [request EXCEPT ![d] = x] BY <2>2, <2>4, <2>5, <2>7
  <2>9. x.op = "join" /\ "op" \in DOMAIN x BY <2>5, <2>6
  <2>10. /\ DOMAIN request' = Slots /\ request'[d].op = "join" /\ "op" \in DOMAIN request'[d]
         /\ \A e \in Doors : e # d => request'[e] = request[e]
    BY <2>7, <2>8, <2>9 DEF SeatsInv
  <2>11. OneJoin' BY <2>2, <2>10 DEF OneJoin
  <2>12. \A e \in Doors : request'[e] # Resting =>
           /\ request'[e].op \in {"accept", "join"} /\ "op" \in DOMAIN request'[e]
           /\ request'[e].op = "join" => Cardinality(Active)' < MaxMembers
    BY <2>2, <2>3, <2>10 DEF SeatsInv
  <2>13. QED BY <2>3, <2>10, <2>11, <2>12 DEF SeatsInv, SeatsBounded
<1>5. ASSUME NEW d \in Doors, AcceptCommits(d) PROVE SeatsInv'
  <2>1. PICK r, p : r = request[d] /\ p = r.who OBVIOUS
  <2>2. /\ request[d] # Resting /\ request[d].op = "join" /\ role' = [role EXCEPT ![p] = r.role]
        /\ request' = [request EXCEPT ![d] = Resting]
    BY <1>5, <2>1 DEF AcceptCommits, Writing, Done
  <2>3. DOMAIN role' = People /\ Active' \subseteq Active \cup {p} BY <2>2 DEF SeatsInv, Active
  <2>4. /\ IsFiniteSet(Active) /\ Cardinality(Active) \in Nat /\ Cardinality(Active) < MaxMembers
    BY <2>2, FS_CardinalityType DEF SeatsInv
  <2>5. /\ IsFiniteSet(Active \cup {p}) /\ Cardinality(Active \cup {p}) \in Nat
        /\ Cardinality(Active \cup {p}) <= Cardinality(Active) + 1
    <3>1. Active \cup {p} = Active \/ p \notin Active OBVIOUS
    <3>2. /\ IsFiniteSet(Active \cup {p})
          /\ Cardinality(Active \cup {p}) = Cardinality(Active) \/ Cardinality(Active \cup {p}) = Cardinality(Active) + 1
      BY <2>4, <3>1, FS_AddElement
    <3>3. QED BY <2>4, <3>2
  <2>6. /\ IsFiniteSet(Active') /\ Cardinality(Active') \in Nat
        /\ Cardinality(Active') <= Cardinality(Active \cup {p})
    BY <2>3, <2>5, FS_Subset, FS_CardinalityType
  <2>7. IsFiniteSet(Active)' /\ SeatsBounded' BY <2>4, <2>5, <2>6 DEF SeatsBounded, PeopleAssumption
  <2>8. DOMAIN request' = Slots /\ request'[d] = Resting /\ \A e \in Doors : e # d => request'[e] = request[e]
    BY <2>2 DEF SeatsInv, Slots
  <2>9. \A e \in Doors : request'[e] # Resting =>
          request'[e].op = "accept" /\ "op" \in DOMAIN request'[e]
    BY <2>2, <2>8 DEF SeatsInv, OneJoin
  <2>10. OneJoin' BY <2>9 DEF OneJoin
  <2>11. QED BY <2>3, <2>7, <2>8, <2>9, <2>10 DEF SeatsInv
<1>6. ASSUME NEW q \in Slots, GivesUp(q) PROVE SeatsInv'
  <2>1. role' = role /\ Active' = Active BY <1>6 DEF GivesUp, Active
  <2>2. DOMAIN request' = Slots /\ \A d \in Doors : request'[d] = Resting \/ request'[d] = request[d]
    BY <1>6 DEF GivesUp, Done, SeatsInv, Slots
  <2>3. QED BY <2>1, <2>2, SeatsStay DEF SeatsInv
<1>7. ASSUME NEW i \in Invitations, Expire(i) PROVE SeatsInv'
  <2>1. role' = role /\ request' = request /\ Active' = Active BY <1>7 DEF Expire, Active
  <2>2. QED BY <2>1, SeatsStay DEF SeatsInv
<1>8. QED BY <1>1, <1>2, <1>3, <1>4, <1>5, <1>6, <1>7 DEF PeopleNext

\* The seats of the plan are never exceeded, whatever administrators do at once.
THEOREM SeatsBoundedAlways == ASSUME PeopleAssumption PROVE PeopleSpec => []SeatsBounded
<1>1. PeopleInit => SeatsInv
  <2>1. ASSUME PeopleInit PROVE SeatsInv
    <3>1. Active = {Owner} BY <2>1 DEF PeopleInit, Active, People
    <3>2. IsFiniteSet(Active) /\ Cardinality(Active) = 1 BY <3>1, FS_Singleton
    <3>3. SeatsBounded BY <3>2 DEF SeatsBounded, PeopleAssumption
    <3>4. OneJoin BY <2>1 DEF PeopleInit, OneJoin, Slots
    <3>5. QED BY <2>1, <3>2, <3>3, <3>4 DEF PeopleInit, SeatsInv, Slots
  <2>2. QED BY <2>1
<1>2. SeatsInv /\ [PeopleNext]_peopleVars => SeatsInv' BY SeatsStep
<1>3. SeatsInv => SeatsBounded BY DEF SeatsInv
<1>4. QED BY <1>1, <1>2, <1>3, PTL DEF PeopleSpec

-----------------------------------------------------------------------------
(* What may be read                                                        *)

Losses == {"person", "scope", "space", "late"}

Reasons == Losses \cup {"gain", "node", "document", "stored", "job"}

\* The moments at which the rows the job selects by have a loss of the person.
Recorded == removedAt \cup {c[2] : c \in {e \in closedAt : e[1] \in been}}

\* A loss that was recorded at a moment, or while an answer that was stored then was written.
RecordedFor(t) == \E l \in Recorded : l \in Nat /\ l <= t /\ t <= l + 1

\* The next instant at which the daily job is due.
NextJob == IF now % 2 = 1 THEN now + 1 ELSE IF jobDone THEN now + 2 ELSE now

\* A loss as the job will find it: it is in the rows the job selects by, and no job was due since its grace
\* but those missed.
Found(n) ==
  /\ n.why \in Losses => RecordedFor(n.at)
  /\ n.why \in Losses => NextJob <= n.at + Grace + 1 + 2 * missed

Timed ==
  /\ \A t \in removedAt : t \in 0..now
  /\ \A c \in closedAt : c[2] \in 0..now
  /\ asking # Nothing => asking.at \in 0..now /\ now <= asking.at + 1

RightsInv ==
  /\ now \in 0..MaxTime /\ missed \in 0..MaxMissed /\ jobDone \in BOOLEAN /\ member \subseteq been
  /\ DOMAIN item = Items /\ DOMAIN since = Items
  /\ \A i \in OutOfReach : since[i] # Nothing
  /\ \A i \in Items : since[i] # Nothing => since[i].at \in 0..now /\ Found(since[i])
  /\ Timed

\* Before a moment that is covered the clock has not passed.
LEMMA JobComes == ASSUME RightsAssumption, RightsInv PROVE NextJob \in Nat /\ now <= NextJob /\ NextJob <= now + 2
BY DEF RightsInv, NextJob, RightsAssumption

\* A step between two jobs that notes what it puts out of reach.
LEMMA NotesKeep ==
  ASSUME RightsAssumption, RightsInv, NEW why, Notes(why),
         why \in Reasons, asking' \in {Nothing, asking},
         \A t \in removedAt' : t \in removedAt \/ t = now,
         \A c \in closedAt' : c \in closedAt \/ c[2] = now,
         UNCHANGED <<now, jobDone, missed>>, removedAt \subseteq removedAt', closedAt \subseteq closedAt',
         been \subseteq been', member' \subseteq been', DOMAIN item' = Items,
         \A i \in OutOfReach' \ OutOfReach : why \in Losses => RecordedFor(now)'
  PROVE  RightsInv'
<1>1. DOMAIN since' = Items BY DEF Notes
<1>2. NextJob' = NextJob /\ now \in Nat /\ missed \in Nat BY DEF NextJob, RightsInv, RightsAssumption
<1>3. [at |-> now, why |-> why] # Nothing BY DEF RightsAssumption, RightsInv, Reasons, Losses
<1>4. \A i \in OutOfReach' : since'[i] # Nothing BY <1>3 DEF Notes, OutOfReach
<1>5. ASSUME NEW i \in Items, since'[i] # Nothing PROVE since'[i].at \in 0..now' /\ Found(since[i])'
  <2>1. i \in OutOfReach' BY <1>5 DEF Notes
  <2>2. CASE since[i] # Nothing
    <3>1. since'[i] = since[i] BY <2>1, <2>2 DEF Notes
    <3>2. since[i].at \in 0..now /\ Found(since[i]) BY <2>2 DEF RightsInv
    <3>3. Recorded \subseteq Recorded' BY DEF Recorded
    <3>4. PICK n : n = since[i] OBVIOUS
    <3>5. Found(n) /\ since'[i] = n BY <3>1, <3>2, <3>4
    <3>6. RecordedFor(n.at) => RecordedFor(n.at)' BY <3>3 DEF RecordedFor
    <3>7. Found(n)' BY <1>2, <3>5, <3>6 DEF Found
    <3>8. QED BY <1>2, <3>2, <3>4, <3>5, <3>7
  <2>3. CASE since[i] = Nothing
    <3>1. since'[i] = [at |-> now, why |-> why] BY <2>1, <2>3 DEF Notes
    <3>2. i \in OutOfReach' \ OutOfReach BY <2>1, <2>3 DEF RightsInv
    <3>3. NextJob <= now + Grace + 1 + 2 * missed BY <1>2, JobComes DEF Grace
    <3>4. PICK n : n = since'[i] OBVIOUS
    <3>5. now \in 0..now' /\ n.at = now /\ n.why = why BY <1>2, <3>1, <3>4
    <3>6. why \in Losses => RecordedFor(now)' BY <3>2
    <3>7. PICK t : t = now OBVIOUS
    <3>8. (why \in Losses => RecordedFor(t)') /\ n.at = t BY <3>5, <3>6, <3>7 DEF RecordedFor
    <3>9. Found(n)' BY <1>2, <3>3, <3>5, <3>7, <3>8 DEF Found
    <3>10. QED BY <3>4, <3>5, <3>9
  <2>4. QED BY <2>2, <2>3
<1>6. Timed' BY <1>2 DEF Timed, RightsInv
<1>7. QED BY <1>1, <1>4, <1>5, <1>6 DEF RightsInv

\* What a person reads is what the spaces of the person give.
LEMMA SameReach ==
  ASSUME Folders' = Folders, NodeGranted' = NodeGranted, UNCHANGED <<copies, item>>
  PROVE  OutOfReach' = OutOfReach
<1>1. \A d : InGrants(d)' <=> InGrants(d) BY DEF InGrants
<1>2. \A x, scopes : HasCopy(x, scopes)' <=> HasCopy(x, scopes) BY DEF HasCopy
<1>3. ReadableDocuments' = ReadableDocuments BY <1>1, <1>2 DEF ReadableDocuments
<1>4. ReadableNodes' = ReadableNodes BY <1>2 DEF ReadableNodes
<1>5. Partial' = Partial BY <1>1 DEF Partial
<1>6. \A p : Visible(p)' <=> Visible(p) BY <1>3, <1>4, <1>5 DEF Visible
<1>7. \A p : FollowedKept(p)' <=> FollowedKept(p) BY <1>3 DEF FollowedKept
<1>8. \A i : (Upheld(i)' <=> Upheld(i)) /\ (Stored(i)' <=> Stored(i)) BY <1>6, <1>7 DEF Upheld, Stored
<1>9. QED BY <1>8 DEF OutOfReach

\* The steps that do not note are quiet: nothing comes within or out of reach.
LEMMA QuietSame == ASSUME UNCHANGED <<accessVars, item>> PROVE OutOfReach' = OutOfReach
<1>1. Folders' = Folders /\ NodeGranted' = NodeGranted BY DEF accessVars, Folders, NodeGranted, Mine
<1>2. QED BY <1>1, SameReach DEF accessVars

LEMMA Postponed ==
  ASSUME NEW e \in Nat, NEW f \in Nat, NEW m \in Nat, NEW n \in Nat, NEW a \in Nat,
         f <= e + 2 * (n - m), e <= a + Grace + 1 + 2 * m
  PROVE  f <= a + Grace + 1 + 2 * n
BY DEF Grace

LEMMA QuietKeeps ==
  ASSUME RightsAssumption, RightsInv, UNCHANGED <<accessVars, item, removedAt, closedAt, since>>,
         now' \in 0..MaxTime, missed' \in 0..MaxMissed, jobDone' \in BOOLEAN, now <= now', missed <= missed',
         NextJob' \in Nat, NextJob' <= NextJob + 2 * (missed' - missed),
         asking' # Nothing => asking'.at \in 0..now' /\ now' <= asking'.at + 1
  PROVE  RightsInv'
<1>1. OutOfReach' = OutOfReach BY QuietSame
<1>2. /\ now \in Nat /\ now' \in Nat /\ missed \in Nat /\ missed' \in Nat /\ NextJob \in Nat /\ NextJob' \in Nat
  BY JobComes DEF RightsInv, RightsAssumption
<1>3. ASSUME NEW i \in Items, since[i] # Nothing PROVE since[i].at \in 0..now' /\ Found(since[i])'
  <2>1. PICK n : n = since[i] OBVIOUS
  <2>2. n.at \in 0..now /\ Found(n) BY <1>3, <2>1 DEF RightsInv
  <2>3. n.at \in Nat /\ n.at \in 0..now' BY <1>2, <2>2
  <2>4. ASSUME n.why \in Losses PROVE NextJob' <= n.at + Grace + 1 + 2 * missed'
    <3>1. NextJob <= n.at + Grace + 1 + 2 * missed BY <2>2, <2>4 DEF Found
    <3>2. PICK a : a = n.at OBVIOUS
    <3>3. a \in Nat /\ NextJob <= a + Grace + 1 + 2 * missed BY <2>3, <3>1, <3>2
    <3>4. PICK e, f, m, n1 : e = NextJob /\ f = NextJob' /\ m = missed /\ n1 = missed' OBVIOUS
    <3>5. e \in Nat /\ f \in Nat /\ m \in Nat /\ n1 \in Nat BY <1>2, <3>4
    <3>6. f <= e + 2 * (n1 - m) /\ e <= a + Grace + 1 + 2 * m BY <3>3, <3>4
    <3>7. f <= a + Grace + 1 + 2 * n1 BY <3>3, <3>5, <3>6, Postponed
    <3>8. QED BY <3>2, <3>4, <3>7
  <2>5. Recorded' = Recorded BY DEF Recorded, accessVars
  <2>6. Found(n)' BY <2>2, <2>4, <2>5 DEF Found, RecordedFor
  <2>7. QED BY <2>1, <2>3, <2>6
<1>4. member' \subseteq been' BY DEF accessVars, RightsInv
<1>5. Timed'
  <2>1. Timed BY DEF RightsInv
  <2>2. \A t \in 0..now : t \in 0..now' BY <1>2
  <2>3. QED BY <2>1, <2>2 DEF Timed
<1>6. QED BY <1>1, <1>3, <1>4, <1>5 DEF RightsInv

\* What is stored, or about to be, can be hidden.
Formed ==
  /\ asking # Nothing => "hidden" \in DOMAIN asking.what
  /\ \A i \in Items : item[i] # Nothing => "hidden" \in DOMAIN item[i]

LEMMA FormedStep == ASSUME RightsInv, Formed, [RightsNext]_rightsVars PROVE Formed'
<1>0. DOMAIN item = Items BY DEF RightsInv
<1>1. CASE UNCHANGED <<item, asking>> BY <1>1 DEF Formed
<1>2. CASE ClearFollowed /\ UNCHANGED asking BY <1>2 DEF Formed, ClearFollowed
<1>3. CASE Ask BY <1>3 DEF Formed, Ask, Provenance
<1>4. CASE Store BY <1>0, <1>4 DEF Formed, Store
<1>5. CASE Discard BY <1>5 DEF Formed, Discard
<1>6. CASE PurgeHiddenDerived BY <1>6 DEF Formed, PurgeHiddenDerived, Stored
<1>7. CASE UNCHANGED rightsVars BY <1>1, <1>7 DEF rightsVars
<1>8. CASE Synchronize \/ Missed \/ Tick BY <1>1, <1>8 DEF Synchronize, Missed, Tick, Moves, Quiet
<1>9. ASSUME NEW s \in AccessSpaces,
             GainSpace(s) \/ LoseSpace(s) \/ GrantNode(s) \/ RevokeNode(s) \/ Archive(s)
      PROVE  Formed'
  BY <1>1, <1>2, <1>9 DEF GainSpace, LoseSpace, GrantNode, RevokeNode, Archive, Moves
<1>10. ASSUME NEW s \in AccessSpaces, NEW f \in Scopes, GrantFolder(s, f) \/ RevokeFolder(s, f) PROVE Formed'
  BY <1>1, <1>2, <1>10 DEF GrantFolder, RevokeFolder, Moves
<1>11. QED BY <1>3, <1>4, <1>5, <1>6, <1>7, <1>8, <1>9, <1>10 DEF RightsNext

\* A grant revoked or a space archived, of a space of the person, is recorded.
LEMMA ClosedRecorded ==
  ASSUME NEW s \in been, now \in Nat, closedAt' = closedAt \cup {<<s, now>>}, UNCHANGED <<now, been>>
  PROVE  RecordedFor(now)'
<1>1. PICK t : t = now OBVIOUS
<1>2. <<s, t>> \in closedAt' /\ s \in been' /\ t \in Nat /\ now' = t BY <1>1
<1>3. <<s, t>>[2] = t /\ <<s, t>>[1] = s OBVIOUS
<1>4. t \in Recorded' BY <1>2, <1>3 DEF Recorded
<1>5. t <= t /\ t <= t + 1 BY <1>2
<1>6. QED BY <1>2, <1>4, <1>5 DEF RecordedFor

LEMMA RightsStep == ASSUME RightsAssumption, RightsInv, Formed, [RightsNext]_rightsVars PROVE RightsInv'
<1>0. /\ now \in 0..MaxTime /\ missed \in 0..MaxMissed /\ jobDone \in BOOLEAN /\ member \subseteq been
      /\ DOMAIN item = Items /\ DOMAIN since = Items /\ Timed
      /\ now \in Nat
  BY DEF RightsInv, RightsAssumption
<1>1. CASE UNCHANGED rightsVars
  <2>1. UNCHANGED <<accessVars, item, removedAt, closedAt, since, now, jobDone, missed, asking>> BY <1>1 DEF rightsVars
  <2>2. NextJob' = NextJob /\ NextJob \in Nat /\ missed \in Nat /\ now \in Nat
    BY <1>0, <2>1, JobComes DEF NextJob, RightsAssumption
  <2>3. NextJob' <= NextJob + 2 * (missed' - missed) /\ missed <= missed' /\ now <= now' BY <2>1, <2>2
  <2>4. asking' # Nothing => asking'.at \in 0..now' /\ now' <= asking'.at + 1 BY <1>0, <2>1 DEF Timed
  <2>5. QED BY <1>0, <2>1, <2>2, <2>3, <2>4, QuietKeeps
<1>2. ASSUME NEW s \in AccessSpaces, GainSpace(s) PROVE RightsInv'
  <2>1. Notes("gain") /\ UNCHANGED <<now, jobDone, missed, item, removedAt, closedAt, asking>>
        /\ been \subseteq been' /\ member' \subseteq been'
    BY <1>0, <1>2 DEF GainSpace, Moves
  <2>2. QED BY <1>0, <2>1, NotesKeep DEF Reasons, Losses
<1>3. ASSUME NEW s \in AccessSpaces, LoseSpace(s) PROVE RightsInv'
  <2>1. /\ Notes("person") /\ UNCHANGED <<now, jobDone, missed, closedAt, been, asking>>
        /\ removedAt' = removedAt \cup {now} /\ member' \subseteq been'
        /\ DOMAIN item' = Items
    BY <1>0, <1>3 DEF LoseSpace, Moves, ClearFollowed
  <2>2. RecordedFor(now)'
    <3>1. now \in Recorded' BY <2>1 DEF Recorded
    <3>2. PICK t : t = now OBVIOUS
    <3>3. t \in Nat /\ t <= t /\ t <= t + 1 /\ t \in Recorded' BY <1>0, <3>1, <3>2
    <3>4. now' = t BY <2>1, <3>2
    <3>5. QED BY <3>3, <3>4 DEF RecordedFor
  <2>3. QED BY <2>1, <2>2, NotesKeep DEF Reasons, Losses
<1>4. ASSUME NEW s \in AccessSpaces, NEW f \in Scopes, GrantFolder(s, f) PROVE RightsInv'
  <2>1. Notes("gain") /\ UNCHANGED <<now, jobDone, missed, item, removedAt, closedAt, been, member, asking>>
    BY <1>4 DEF GrantFolder, Moves
  <2>2. QED BY <1>0, <2>1, NotesKeep DEF Reasons, Losses
<1>5. ASSUME NEW s \in AccessSpaces, NEW f \in Scopes, RevokeFolder(s, f) PROVE RightsInv'
  <2>1. /\ Notes("scope") /\ UNCHANGED <<now, jobDone, missed, removedAt, asking, been, member, live, nodeGrant, nodeThere, copies>>
        /\ closedAt' = closedAt \cup {<<s, now>>}
        /\ folderGrant' = [folderGrant EXCEPT ![s] = @ \ {f}]
        /\ s \notin member => item' = item
    BY <1>5 DEF RevokeFolder, Moves
  <2>2. DOMAIN item' = Items BY <1>0, <1>5 DEF RevokeFolder, ClearFollowed
  <2>3. s \notin member => OutOfReach' = OutOfReach
    <3>1. ASSUME s \notin member PROVE Folders' = Folders /\ NodeGranted' = NodeGranted
      <4>1. Mine' = Mine /\ s \notin Mine BY <2>1, <3>1 DEF Mine
      <4>2. \A t \in Mine : folderGrant'[t] = folderGrant[t] BY <2>1, <4>1
      <4>3. QED BY <2>1, <4>1, <4>2 DEF Folders, NodeGranted
    <3>2. QED BY <2>1, <3>1, SameReach
  <2>4. s \in member => RecordedFor(now)' BY <1>0, <2>1, ClosedRecorded
  <2>5. member' \subseteq been' BY <1>0, <2>1
  <2>6. QED BY <2>1, <2>2, <2>3, <2>4, <2>5, NotesKeep DEF Reasons, Losses
<1>6. ASSUME NEW s \in AccessSpaces, GrantNode(s) PROVE RightsInv'
  <2>1. Notes("gain") /\ UNCHANGED <<now, jobDone, missed, item, removedAt, closedAt, been, member, asking>>
    BY <1>6 DEF GrantNode, Moves
  <2>2. QED BY <1>0, <2>1, NotesKeep DEF Reasons, Losses
<1>7. ASSUME NEW s \in AccessSpaces, RevokeNode(s) PROVE RightsInv'
  <2>1. /\ Notes("node") /\ UNCHANGED <<now, jobDone, missed, removedAt, closedAt, been, member, asking>> /\ DOMAIN item' = Items
    BY <1>0, <1>7 DEF RevokeNode, Moves, ClearFollowed
  <2>2. QED BY <1>0, <2>1, NotesKeep DEF Reasons, Losses
<1>8. ASSUME NEW s \in AccessSpaces, Archive(s) PROVE RightsInv'
  <2>1. /\ Notes("space") /\ UNCHANGED <<now, jobDone, missed, removedAt, asking, been, member, folderGrant, nodeGrant, nodeThere, copies, item>>
        /\ closedAt' = closedAt \cup {<<s, now>>} /\ live' = live \ {s}
    BY <1>8 DEF Archive, Moves
  <2>2. s \notin member => OutOfReach' = OutOfReach
    <3>1. ASSUME s \notin member PROVE Folders' = Folders /\ NodeGranted' = NodeGranted
      <4>1. Mine' = Mine BY <2>1, <3>1 DEF Mine
      <4>2. QED BY <2>1, <4>1 DEF Folders, NodeGranted
    <3>2. QED BY <2>1, <3>1, SameReach
  <2>3. s \in member => RecordedFor(now)' BY <1>0, <2>1, ClosedRecorded
  <2>4. member' \subseteq been' /\ DOMAIN item' = Items BY <1>0, <2>1
  <2>5. QED BY <2>1, <2>2, <2>3, <2>4, NotesKeep DEF Reasons, Losses
<1>9. CASE Synchronize
  <2>1. Notes("document") /\ UNCHANGED <<now, jobDone, missed, item, removedAt, closedAt, been, member, asking>>
    BY <1>9 DEF Synchronize, Moves
  <2>2. QED BY <1>0, <2>1, NotesKeep DEF Reasons, Losses
<1>10. CASE Ask \/ Discard
  <2>1. /\ UNCHANGED <<accessVars, item, removedAt, closedAt, since, now, jobDone, missed>>
        /\ asking' # Nothing => asking'.at = now
    BY <1>10 DEF Ask, Discard, Quiet
  <2>2. NextJob' = NextJob /\ NextJob \in Nat /\ missed \in Nat /\ now \in Nat
    BY <1>0, <2>1, JobComes DEF NextJob, RightsAssumption
  <2>3. NextJob' <= NextJob + 2 * (missed' - missed) /\ missed <= missed' /\ now <= now' BY <2>1, <2>2
  <2>4. asking' # Nothing => asking'.at \in 0..now' /\ now' <= asking'.at + 1 BY <1>0, <2>1
  <2>5. QED BY <1>0, <2>1, <2>2, <2>3, <2>4, QuietKeeps
<1>11. CASE Store
  <2>1. PICK why : why = IF LostMeanwhile # {} THEN "late" ELSE "stored" OBVIOUS
  <2>2. /\ Notes(why) /\ UNCHANGED <<now, jobDone, missed, removedAt, closedAt, been, member>> /\ DOMAIN item' = Items
        /\ asking # Nothing /\ asking' = Nothing
    BY <1>0, <1>11, <2>1 DEF Store, Quiet, accessVars
  <2>3. why \in Losses => RecordedFor(now)'
    <3>1. ASSUME why \in Losses PROVE RecordedFor(now)'
      <4>1. PICK l \in LostMeanwhile : TRUE BY <2>1, <3>1 DEF Losses
      <4>2. l \in Recorded /\ l >= asking.at BY <4>1 DEF LostMeanwhile, Recorded
      <4>3. asking.at \in 0..now /\ now <= asking.at + 1 /\ l \in 0..now
        BY <1>0, <2>2, <4>2 DEF Timed, Recorded
      <4>4. l \in Recorded' BY <2>2, <4>2 DEF Recorded
      <4>5. PICK t, a : t = now /\ a = asking.at OBVIOUS
      <4>6. l \in Nat /\ t \in Nat /\ a \in Nat /\ l <= t /\ l >= a /\ t <= a + 1 BY <1>0, <4>2, <4>3, <4>5
      <4>7. l \in Nat /\ l <= t /\ t <= l + 1 BY <4>6
      <4>8. now' = t BY <2>2, <4>5
      <4>9. QED BY <4>4, <4>7, <4>8 DEF RecordedFor
    <3>2. QED BY <3>1
  <2>4. why \in Reasons BY <2>1 DEF Reasons, Losses
  <2>5. QED BY <1>0, <2>2, <2>3, <2>4, NotesKeep
<1>12. CASE PurgeHiddenDerived
  <2>1. /\ now % 2 = 0 /\ jobDone = FALSE /\ jobDone' = TRUE /\ UNCHANGED <<accessVars, removedAt, closedAt, now, missed, asking>>
        /\ Notes("job")
        /\ item' = [i \in Items |->
             IF Selected /\ Stored(i) /\ Purged(i)
             THEN IF item[i].kind = "followed" THEN Nothing ELSE [item[i] EXCEPT !.hidden = TRUE]
             ELSE item[i]]
    BY <1>0, <1>12 DEF PurgeHiddenDerived, JobDue, Quiet
  <2>2. NextJob = now /\ NextJob' = now + 2 /\ now \in Nat /\ missed \in Nat /\ missed <= MaxMissed
    BY <1>0, <2>1 DEF NextJob, RightsAssumption
  <2>3. DOMAIN since' = Items /\ DOMAIN item' = Items BY <2>1 DEF Notes
  <2>4. [at |-> now, why |-> "job"] # Nothing BY <1>0 DEF RightsAssumption
  <2>5. \A i \in OutOfReach' : since'[i] # Nothing BY <2>4, <2>1 DEF Notes, OutOfReach
  <2>6. \A i : (\A p : Visible(p)' <=> Visible(p)) /\ (\A p : FollowedKept(p)' <=> FollowedKept(p))
    <3>1. Folders' = Folders /\ NodeGranted' = NodeGranted /\ copies' = copies
      BY <2>1 DEF accessVars, Folders, NodeGranted, Mine
    <3>2. \A d : InGrants(d)' <=> InGrants(d) BY <3>1 DEF InGrants
    <3>3. \A x, scopes : HasCopy(x, scopes)' <=> HasCopy(x, scopes) BY <3>1 DEF HasCopy
    <3>4. ReadableDocuments' = ReadableDocuments /\ Partial' = Partial BY <3>1, <3>2, <3>3 DEF ReadableDocuments, Partial
    <3>5. ReadableNodes' = ReadableNodes BY <3>1, <3>3 DEF ReadableNodes
    <3>6. QED BY <3>1, <3>4, <3>5 DEF Visible, FollowedKept
  <2>7. ASSUME NEW i \in OutOfReach' PROVE i \in Items /\ i \in OutOfReach /\ ~Selected
    <3>1. i \in Items /\ Stored(i)' /\ ~Upheld(i)' BY DEF OutOfReach
    <3>2. CASE Selected /\ Stored(i) /\ Purged(i)
      <4>1. item'[i] = Nothing \/ item'[i] = [item[i] EXCEPT !.hidden = TRUE] BY <2>1, <3>1, <3>2
      <4>2. "hidden" \in DOMAIN item[i] BY <3>1, <3>2 DEF Stored, Formed
      <4>3. QED BY <3>1, <4>1, <4>2 DEF Stored
    <3>3. CASE ~(Selected /\ Stored(i) /\ Purged(i))
      <4>1. item'[i] = item[i] BY <2>1, <3>1, <3>3
      <4>2. Stored(i) /\ ~Upheld(i) BY <2>6, <3>1, <4>1 DEF Stored, Upheld
      <4>3. QED BY <3>1, <3>3, <4>2 DEF OutOfReach, Purged
    <3>4. QED BY <3>2, <3>3
  <2>8. ASSUME NEW i \in Items, since'[i] # Nothing PROVE since'[i].at \in 0..now' /\ Found(since[i])'
    <3>1. i \in OutOfReach' BY <2>1, <2>8 DEF Notes
    <3>2. ~Selected /\ since[i] # Nothing BY <2>7, <3>1 DEF RightsInv
    <3>3. since'[i] = since[i] BY <2>1, <3>1, <3>2 DEF Notes
    <3>4. PICK n : n = since[i] OBVIOUS
    <3>5. n.at \in 0..now /\ Found(n) BY <3>2, <3>4 DEF RightsInv
    <3>6. n.at \in Nat /\ n.at <= now BY <2>2, <3>5
    <3>7. ASSUME n.why \in Losses PROVE now + 2 <= n.at + Grace + 1 + 2 * missed
      <4>0. PICK l \in Recorded : l \in Nat /\ l <= n.at /\ n.at <= l + 1 BY <3>5, <3>7 DEF Found, RecordedFor
      <4>1. ~InWindow(l) BY <3>2 DEF Selected, Recorded
      <4>2. now <= n.at + Grace + 1 + 2 * missed BY <2>2, <3>5, <3>7 DEF Found
      <4>3. l >= now - Lookback BY <2>2, <3>6, <4>0, <4>2 DEF RightsAssumption, Grace
      <4>4. l > now - Grace BY <2>2, <3>6, <4>0, <4>1, <4>3 DEF InWindow, RightsAssumption, Grace
      <4>5. QED BY <2>2, <3>6, <4>0, <4>4 DEF Grace
    <3>10. Recorded' = Recorded BY <2>1 DEF Recorded, accessVars
    <3>8. Found(n)' BY <2>1, <2>2, <3>5, <3>7, <3>10 DEF Found, RecordedFor
    <3>9. QED BY <2>1, <3>3, <3>4, <3>5, <3>8
  <2>9. member' \subseteq been' /\ now' \in 0..MaxTime /\ missed' \in 0..MaxMissed /\ jobDone' \in BOOLEAN
    BY <1>0, <2>1 DEF accessVars
  <2>10. Timed' BY <1>0, <2>1 DEF Timed
  <2>11. QED BY <2>3, <2>5, <2>8, <2>9, <2>10 DEF RightsInv
<1>13. CASE Missed
  <2>1. /\ now % 2 = 0 /\ jobDone = FALSE /\ jobDone' = TRUE /\ missed < MaxMissed /\ missed' = missed + 1
        /\ UNCHANGED <<accessVars, item, removedAt, closedAt, since, now, asking>>
    BY <1>0, <1>13 DEF Missed, JobDue, Quiet
  <2>2. /\ NextJob = now /\ NextJob' = now + 2 /\ now \in Nat /\ missed \in Nat /\ missed' \in 0..MaxMissed
    BY <1>0, <2>1 DEF NextJob, RightsAssumption
  <2>3. /\ NextJob' \in Nat /\ NextJob' <= NextJob + 2 * (missed' - missed)
        /\ missed <= missed' /\ now <= now' /\ now' \in 0..MaxTime
    BY <1>0, <2>1, <2>2
  <2>4. asking' # Nothing => asking'.at \in 0..now' /\ now' <= asking'.at + 1 BY <1>0, <2>1 DEF Timed
  <2>5. QED BY <2>1, <2>2, <2>3, <2>4, QuietKeeps
<1>14. CASE Tick
  <2>1. /\ now < MaxTime /\ now' = now + 1 /\ jobDone' = FALSE /\ (now % 2 = 0 => jobDone)
        /\ UNCHANGED <<accessVars, item, removedAt, closedAt, since, missed, asking>>
        /\ asking # Nothing => asking.at = now
    BY <1>0, <1>14 DEF Tick, JobDue, Quiet
  <2>2. now \in Nat /\ missed \in Nat /\ now' \in 0..MaxTime BY <1>0, <2>1 DEF RightsAssumption
  <2>3. (now % 2 = 0 => (now + 1) % 2 = 1) /\ (now % 2 # 0 => now % 2 = 1 /\ (now + 1) % 2 = 0) BY <2>2
  <2>4. NextJob' = NextJob BY <2>1, <2>2, <2>3 DEF NextJob
  <2>5. now <= now' /\ missed <= missed' /\ missed' \in 0..MaxMissed /\ jobDone' \in BOOLEAN
    <3>1. missed' = missed /\ missed <= missed BY <2>1, <2>2
    <3>2. now <= now + 1 BY <2>2
    <3>3. QED BY <1>0, <2>1, <3>1, <3>2
  <2>6. NextJob' \in Nat /\ NextJob' <= NextJob + 2 * (missed' - missed) BY <2>1, <2>2, <2>4, JobComes
  <2>7. asking' # Nothing => asking'.at \in 0..now' /\ now' <= asking'.at + 1 BY <2>1, <2>2
  <2>8. QED BY <2>1, <2>2, <2>5, <2>6, <2>7, QuietKeeps
<1>15. QED
  BY <1>1, <1>2, <1>3, <1>4, <1>5, <1>6, <1>7, <1>8, <1>9, <1>10, <1>11, <1>12, <1>13, <1>14 DEF RightsNext

\* What a loss of a place, a scope or a space put out of reach, what was stored after it too, is replaced at the
\* first job after the grace that is not missed.
THEOREM ReplacedInTimeAlways == ASSUME RightsAssumption PROVE RightsSpec => []ReplacedInTime
<1>1. RightsInit => RightsInv /\ Formed
  <2>1. ASSUME RightsInit PROVE RightsInv /\ Formed
    <3>1. OutOfReach = {} BY <2>1 DEF RightsInit, OutOfReach, Stored
    <3>2. now \in 0..MaxTime /\ missed \in 0..MaxMissed /\ jobDone \in BOOLEAN /\ member \subseteq been
      <4>1. now = 1 /\ missed = 0 /\ jobDone = FALSE /\ member = been BY <2>1 DEF RightsInit
      <4>2. 1 \in 0..MaxTime /\ 0 \in 0..MaxMissed BY DEF RightsAssumption
      <4>3. QED BY <4>1, <4>2
    <3>3. /\ DOMAIN item = Items /\ DOMAIN since = Items /\ Formed
          /\ \A i \in Items : since[i] = Nothing
      BY <2>1 DEF RightsInit, Formed
    <3>4. Timed BY <2>1 DEF RightsInit, Timed
    <3>5. QED BY <3>1, <3>2, <3>3, <3>4 DEF RightsInv
  <2>2. QED BY <2>1
<1>2. (RightsInv /\ Formed) /\ [RightsNext]_rightsVars => (RightsInv /\ Formed)' BY RightsStep, FormedStep
<1>3. RightsInv => ReplacedInTime
  <2>1. ASSUME RightsInv, NEW i \in Items, since[i] # Nothing, since[i].why \in {"person", "scope", "space", "late"}
        PROVE  now <= since[i].at + Grace + 1 + 2 * missed
    <3>1. NextJob <= since[i].at + Grace + 1 + 2 * missed /\ since[i].at \in 0..now BY <2>1 DEF RightsInv, Found, Losses
    <3>2. NextJob \in Nat /\ now <= NextJob BY <2>1, JobComes
    <3>3. now \in Nat /\ missed \in Nat /\ since[i].at \in Nat BY <2>1, <3>1 DEF RightsInv, RightsAssumption
    <3>4. QED BY <3>1, <3>2, <3>3 DEF Grace
  <2>2. QED BY <2>1 DEF ReplacedInTime, InTime
<1>4. QED BY <1>1, <1>2, <1>3, PTL DEF RightsSpec

-----------------------------------------------------------------------------
(* RobotPool.                                                               *)

Making(w) == work[w].step \in {"account", "key", "store"}

Names == (Orgs \cup {NoOrg}) \X Nat

RobotRecord ==
  [account : Names, project : Projects, org : Orgs \cup {NoOrg}, status : {"free", "assigned", "retired"}]

WorkRecord ==
  [step : {"idle", "next", "account", "key", "store"}, org : Orgs \cup {NoOrg}, account : Names \cup {<<>>},
   project : Projects \cup {NoOrg}, left : Int]

PoolTyped ==
  /\ robots \subseteq RobotRecord /\ IsFiniteSet(robots) /\ work \in [Workers -> WorkRecord]
  /\ \A r \in robots : r.status = "free" => r.org = NoOrg

Exists(a) == \E p \in Projects : <<a, p>> \in accounts

\* A worker that makes a robot: its name is nobody's yet, and its project has room for it.
Known(x) ==
  IF x.step \in {"account", "key", "store"}
  THEN /\ x.project \in Projects /\ x.account \in Names /\ x.account[1] = x.org
       /\ x.org \in Orgs => x.account[2] = Generation(x.org)
       /\ x.org = NoOrg /\ x.step # "account" => Exists(x.account)
       /\ \A r \in robots : r.account # x.account
       /\ Usage(x.project) < Quota
  ELSE x.project = NoOrg /\ x.account = <<>> /\ x.org = NoOrg

\* No two workers make a robot in one project, or of one name.
WorkersApart ==
  \A w, v \in Workers :
    Making(w) /\ Making(v) /\ (work[w].project = work[v].project \/ work[w].account = work[v].account) => w = v

\* Every robot has a name of its own: one made for the pool, or its organisation's of an earlier generation.
RobotsKnown ==
  /\ \A r, s \in robots : r.account = s.account => r = s
  /\ \A r \in robots : IF r.account[1] = NoOrg THEN Exists(r.account)
                       ELSE r.org = r.account[1] /\ r.account[2] < Generation(r.org)

PoolInv ==
  PoolTyped /\ (\A w \in Workers : Known(work[w])) /\ WorkersApart /\ RobotsKnown /\ UsageWithinQuota

\* What is put in one-to-one correspondence has one number.
LEMMA Counted ==
  ASSUME NEW S, NEW T, IsFiniteSet(S), NEW f \in [S -> T],
         \A a, b \in S : f[a] = f[b] => a = b, \A t \in T : \E s \in S : f[s] = t
  PROVE  IsFiniteSet(T) /\ Cardinality(T) = Cardinality(S)
<1>1. f \in Surjection(S, T) /\ f \in Injection(S, T) BY DEF Surjection, Injection, IsInjective
<1>2. QED BY <1>1, FS_Surjection

LEMMA PoolCounts ==
  ASSUME PoolTyped
  PROVE  /\ \A p : IsFiniteSet({r \in robots : r.project = p}) /\ Usage(p) \in Nat
         /\ \A o : IsFiniteSet(OfOrg(o)) /\ Generation(o) \in Nat
<1>1. \A S : S \subseteq robots => IsFiniteSet(S) /\ Cardinality(S) \in Nat BY FS_Subset, FS_CardinalityType DEF PoolTyped
<1>2. \A p : {r \in robots : r.project = p} \subseteq robots OBVIOUS
<1>3. \A o : OfOrg(o) \subseteq robots BY DEF OfOrg
<1>4. QED BY <1>1, <1>2, <1>3 DEF Usage, Generation

\* A worker goes on, and the robots stay.
LEMMA WorkMoves ==
  ASSUME PoolAssumption, PoolInv, robots' = robots, accounts \subseteq accounts',
         NEW w \in Workers, NEW x \in WorkRecord, work' = [work EXCEPT ![w] = x], Known(x)',
         x.step \in {"account", "key", "store"} =>
           \A v \in Workers \ {w} : Making(v) => work[v].project # x.project /\ work[v].account # x.account
  PROVE  PoolInv'
<1>1. work'[w] = x /\ (\A v \in Workers \ {w} : work'[v] = work[v]) /\ work' \in [Workers -> WorkRecord]
  BY DEF PoolInv, PoolTyped
<1>2. PoolTyped' BY <1>1 DEF PoolInv, PoolTyped
<1>3. \A p : Usage(p)' = Usage(p) BY DEF Usage
<1>4. \A o : Generation(o)' = Generation(o) BY DEF Generation, OfOrg
<1>5. \A a : Exists(a) => Exists(a)' BY DEF Exists
<1>6. \A y : Known(y) => Known(y)' BY <1>3, <1>4, <1>5 DEF Known
<1>7. ASSUME NEW v \in Workers PROVE Known(work[v])'
  <2>1. CASE v = w BY <1>1, <2>1
  <2>2. CASE v # w
    <3>1. PICK y : y = work[v] OBVIOUS
    <3>2. Known(y)' BY <1>6, <3>1 DEF PoolInv
    <3>3. work'[v] = y BY <1>1, <2>2, <3>1
    <3>4. QED BY <3>2, <3>3
  <2>3. QED BY <2>1, <2>2
<1>8. WorkersApart' BY <1>1 DEF PoolInv, WorkersApart, Making
<1>9. RobotsKnown' BY <1>4, <1>5 DEF PoolInv, RobotsKnown
<1>10. UsageWithinQuota' BY <1>3 DEF PoolInv, UsageWithinQuota
<1>11. QED BY <1>2, <1>7, <1>8, <1>9, <1>10 DEF PoolInv

LEMMA WorkStays ==
  ASSUME PoolInv, robots' = robots, accounts \subseteq accounts', work' = work
  PROVE  PoolInv'
<1>3. \A p : Usage(p)' = Usage(p) BY DEF Usage
<1>4. \A o : Generation(o)' = Generation(o) BY DEF Generation, OfOrg
<1>5. \A a : Exists(a) => Exists(a)' BY DEF Exists
<1>6. \A y : Known(y) => Known(y)' BY <1>3, <1>4, <1>5 DEF Known
<1>7. \A w \in Workers : Known(work[w])' BY <1>6 DEF PoolInv
<1>8. PoolTyped' /\ WorkersApart' BY DEF PoolInv, PoolTyped, WorkersApart, Making
<1>9. RobotsKnown' BY <1>4, <1>5 DEF PoolInv, RobotsKnown
<1>10. UsageWithinQuota' BY <1>3 DEF PoolInv, UsageWithinQuota
<1>11. QED BY <1>7, <1>8, <1>9, <1>10 DEF PoolInv

\* A worker rests.
LEMMA WorkEnds ==
  ASSUME PoolAssumption, PoolInv, robots' = robots, accounts \subseteq accounts', NEW w \in Workers,
         work' = [work EXCEPT ![w] = NoWork]
  PROVE  PoolInv'
<1>1. PICK x : x = NoWork OBVIOUS
<1>2. x \in WorkRecord /\ x.step = "idle" BY <1>1 DEF NoWork, WorkRecord
<1>3. Known(x)' BY <1>1 DEF NoWork, Known
<1>4. work' = [work EXCEPT ![w] = x] BY <1>1
<1>5. QED BY <1>2, <1>3, <1>4, WorkMoves

\* A worker takes a name and a project that nobody works with.
LEMMA WorkBegins ==
  ASSUME PoolAssumption, PoolInv, UNCHANGED <<robots, accounts>>, NEW w \in Workers, ~Making(w),
         NEW o \in Orgs \cup {NoOrg}, NEW p \in Projects, NEW a \in Names, NEW left \in Int, FirstOpen(p), a[1] = o,
         o \in Orgs => a[2] = Generation(o) /\ \A v \in Workers : work[v].org # o,
         o = NoOrg => a \in WarmNames,
         work' = [work EXCEPT ![w] = [step |-> "account", org |-> o, account |-> a, project |-> p, left |-> left]]
  PROVE  PoolInv'
<1>1. PICK x : x = [step |-> "account", org |-> o, account |-> a, project |-> p, left |-> left] OBVIOUS
<1>2. x \in WorkRecord BY <1>1 DEF WorkRecord
<1>3. Usage(p) < Quota /\ \A v \in Workers : Making(v) => work[v].project # p
  BY DEF FirstOpen, Open, ProjectLocked, Making, Busy
<1>4. \A r \in robots : r.account # a
  <2>1. ASSUME NEW r \in robots, r.account = a PROVE FALSE
    <3>1. CASE o = NoOrg
      <4>1. PICK q \in Projects : <<a, q>> \in accounts BY <2>1, <3>1 DEF PoolInv, RobotsKnown, Exists
      <4>2. a \in {b[1] : b \in accounts} BY <4>1
      <4>3. QED BY <3>1, <4>2 DEF WarmNames
    <3>2. CASE o \in Orgs
      <4>1. r.org = o /\ a[2] < Generation(o) BY <2>1, <3>2 DEF PoolInv, RobotsKnown, PoolAssumption
      <4>2. Generation(o) \in Nat BY PoolCounts DEF PoolInv
      <4>3. QED BY <3>2, <4>1, <4>2
    <3>3. QED BY <3>1, <3>2
  <2>2. QED BY <2>1
<1>5. \A v \in Workers \ {w} : Making(v) => work[v].account # a
  <2>1. ASSUME NEW v \in Workers \ {w}, Making(v), work[v].account = a PROVE FALSE
    <3>1. CASE o = NoOrg BY <2>1, <3>1 DEF WarmNames
    <3>2. CASE o \in Orgs
      <4>1. work[v].org = o BY <2>1 DEF PoolInv, Known, Making
      <4>2. QED BY <3>2, <4>1
    <3>3. QED BY <3>1, <3>2
  <2>2. QED BY <2>1
<1>6. Known(x)
  <2>1. x.step = "account" /\ x.org = o /\ x.account = a /\ x.project = p BY <1>1
  <2>2. QED BY <1>3, <1>4, <2>1 DEF Known
<1>7. Known(x)'
  <2>1. \A q : Usage(q)' = Usage(q) BY DEF Usage
  <2>2. \A q : Generation(q)' = Generation(q) BY DEF Generation, OfOrg
  <2>3. \A b : Exists(b)' <=> Exists(b) BY DEF Exists
  <2>4. QED BY <1>6, <2>1, <2>2, <2>3 DEF Known
<1>8. \A v \in Workers \ {w} : Making(v) => work[v].project # x.project /\ work[v].account # x.account
  BY <1>1, <1>3, <1>5
<1>9. work' = [work EXCEPT ![w] = x] BY <1>1
<1>10. QED BY <1>2, <1>7, <1>8, <1>9, WorkMoves


LEMMA Replaced ==
  ASSUME NEW S, IsFiniteSet(S), NEW r \in S, NEW x, x \notin S \ {r}
  PROVE  IsFiniteSet((S \ {r}) \cup {x}) /\ Cardinality((S \ {r}) \cup {x}) = Cardinality(S)
<1>1. IsFiniteSet(S \ {r}) /\ Cardinality(S \ {r}) = Cardinality(S) - 1 BY FS_RemoveElement
<1>2. IsFiniteSet((S \ {r}) \cup {x}) /\ Cardinality((S \ {r}) \cup {x}) = Cardinality(S \ {r}) + 1 BY <1>1, FS_AddElement
<1>3. Cardinality(S) \in Nat BY FS_CardinalityType
<1>4. QED BY <1>1, <1>2, <1>3

\* What a worker makes belongs to a name and a project that no other worker has.
LEMMA RobotStored ==
  ASSUME PoolAssumption, PoolInv, NEW w \in Workers, StoreRobot(w)
  PROVE  PoolInv'
<1>1. PICK o : o = work[w].org OBVIOUS
<1>2. PICK x : x = [account |-> work[w].account, project |-> work[w].project, org |-> o,
                    status |-> IF o = NoOrg THEN "free" ELSE "assigned"] OBVIOUS
<1>3. robots' = robots \cup {x} /\ accounts' = accounts BY <1>1, <1>2 DEF StoreRobot
<1>4. PICK y \in WorkRecord : work' = [work EXCEPT ![w] = y] /\ ~(y.step \in {"account", "key", "store"}) /\ Known(y)'
  <2>1. CASE work[w].left = 1
    <3>1. NoWork \in WorkRecord /\ NoWork.step = "idle" BY DEF NoWork, WorkRecord
    <3>2. Known(NoWork)' BY DEF NoWork, Known
    <3>3. QED BY <2>1, <3>1, <3>2 DEF StoreRobot
  <2>2. CASE work[w].left # 1
    <3>1. PICK y : y = [NoWork EXCEPT !.step = "next", !.left = work[w].left - 1] OBVIOUS
    <3>2. work[w].left \in Int BY DEF PoolInv, PoolTyped, WorkRecord
    <3>3. y = [step |-> "next", org |-> NoOrg, account |-> <<>>, project |-> NoOrg, left |-> work[w].left - 1]
      BY <3>1 DEF NoWork
    <3>4. y \in WorkRecord /\ y.step = "next" BY <3>2, <3>3 DEF WorkRecord
    <3>5. Known(y)' BY <3>3 DEF Known
    <3>6. work' = [work EXCEPT ![w] = y] BY <2>2, <3>1 DEF StoreRobot
    <3>7. QED BY <3>4, <3>5, <3>6
  <2>3. QED BY <2>1, <2>2
<1>5. work'[w] = y /\ (\A v \in Workers \ {w} : work'[v] = work[v]) /\ work' \in [Workers -> WorkRecord]
  BY <1>4 DEF PoolInv, PoolTyped
<1>6. /\ work[w].project \in Projects /\ work[w].account \in Names /\ work[w].account[1] = o /\ Making(w)
      /\ o \in Orgs => work[w].account[2] = Generation(o)
      /\ o = NoOrg => Exists(work[w].account)
      /\ \A r \in robots : r.account # work[w].account
      /\ Usage(work[w].project) < Quota
  BY <1>1 DEF StoreRobot, PoolInv, Known, Making
<1>7. o \in Orgs \cup {NoOrg} BY <1>1 DEF PoolInv, PoolTyped, WorkRecord
<1>8. x \in RobotRecord /\ x \notin robots /\ (x.status = "free" => x.org = NoOrg) BY <1>2, <1>6, <1>7 DEF RobotRecord
<1>9. PoolTyped'
  <2>1. IsFiniteSet(robots') BY <1>3, FS_AddElement DEF PoolInv, PoolTyped
  <2>2. QED BY <1>3, <1>5, <1>8, <2>1 DEF PoolInv, PoolTyped
<1>10. ASSUME NEW p PROVE Usage(p)' = IF p = work[w].project THEN Usage(p) + 1 ELSE Usage(p)
  <2>1. IsFiniteSet({r \in robots : r.project = p}) BY PoolCounts DEF PoolInv
  <2>2. {r \in robots' : r.project = p} =
          IF p = work[w].project THEN {r \in robots : r.project = p} \cup {x} ELSE {r \in robots : r.project = p}
    BY <1>2, <1>3
  <2>3. Cardinality({r \in robots : r.project = p} \cup {x}) = Cardinality({r \in robots : r.project = p}) + 1
    BY <1>8, <2>1, FS_AddElement
  <2>4. QED BY <2>2, <2>3 DEF Usage
<1>11. ASSUME NEW q PROVE Generation(q)' = IF q = o THEN Generation(q) + 1 ELSE Generation(q)
  <2>1. IsFiniteSet(OfOrg(q)) BY PoolCounts DEF PoolInv
  <2>2. OfOrg(q)' = IF q = o THEN OfOrg(q) \cup {x} ELSE OfOrg(q) BY <1>2, <1>3 DEF OfOrg
  <2>3. Cardinality(OfOrg(q) \cup {x}) = Cardinality(OfOrg(q)) + 1 BY <1>8, <2>1, FS_AddElement DEF OfOrg
  <2>4. QED BY <2>2, <2>3 DEF Generation
<1>12. \A p : Usage(p) \in Nat BY PoolCounts DEF PoolInv
<1>13. \A q : Generation(q) \in Nat BY PoolCounts DEF PoolInv
<1>14. \A a : Exists(a)' <=> Exists(a) BY <1>3 DEF Exists
<1>15. ASSUME NEW v \in Workers PROVE Known(work[v])'
  <2>1. CASE v = w BY <1>4, <1>5, <2>1
  <2>2. CASE v # w
    <3>1. PICK z : z = work[v] OBVIOUS
    <3>2. Known(z) BY <3>1 DEF PoolInv
    <3>3. CASE z.step \in {"account", "key", "store"}
      <4>1. z.project # work[w].project /\ z.account # work[w].account
        BY <1>6, <2>2, <3>1, <3>3 DEF PoolInv, WorkersApart, Making
      <4>2. z.project \in Projects /\ z.account \in Names /\ z.account[1] = z.org
            /\ (z.org \in Orgs => z.account[2] = Generation(z.org)) BY <3>2, <3>3 DEF Known
      <4>3. z.org \in Orgs => z.org # o BY <1>6, <4>1, <4>2 DEF Names
      <4>4. z.org \in Orgs => z.account[2] = Generation(z.org)' BY <1>11, <4>2, <4>3
      <4>5. z.org = NoOrg /\ z.step # "account" => Exists(z.account)' BY <1>14, <3>2, <3>3 DEF Known
      <4>6. \A r \in robots' : r.account # z.account BY <1>2, <1>3, <3>2, <3>3, <4>1 DEF Known
      <4>7. Usage(z.project)' < Quota BY <1>10, <3>2, <3>3, <4>1 DEF Known
      <4>8. Known(z)' BY <3>3, <4>2, <4>4, <4>5, <4>6, <4>7 DEF Known
      <4>9. QED BY <1>5, <2>2, <3>1, <4>8
    <3>4. CASE ~(z.step \in {"account", "key", "store"})
      <4>1. Known(z)' BY <3>2, <3>4 DEF Known
      <4>2. QED BY <1>5, <2>2, <3>1, <4>1
    <3>5. QED BY <3>3, <3>4
  <2>3. QED BY <2>1, <2>2
<1>16. WorkersApart' BY <1>4, <1>5 DEF PoolInv, WorkersApart, Making
<1>17. RobotsKnown'
  <2>1. \A r, s \in robots' : r.account = s.account => r = s BY <1>2, <1>3, <1>6 DEF PoolInv, RobotsKnown
  <2>2. ASSUME NEW r \in robots'
        PROVE  IF r.account[1] = NoOrg THEN Exists(r.account)'
               ELSE r.org = r.account[1] /\ r.account[2] < Generation(r.org)'
    <3>1. CASE r \in robots
      <4>1. r.account[2] \in Nat BY <3>1 DEF PoolInv, PoolTyped, RobotRecord, Names
      <4>2. QED BY <1>11, <1>13, <1>14, <3>1, <4>1 DEF PoolInv, RobotsKnown
    <3>2. CASE r = x
      <4>1. r.account = work[w].account /\ r.org = o BY <1>2, <3>2
      <4>2. QED BY <1>6, <1>7, <1>11, <1>13, <1>14, <4>1
    <3>3. QED BY <1>3, <3>1, <3>2
  <2>3. QED BY <2>1, <2>2 DEF RobotsKnown
<1>18. UsageWithinQuota'
  <2>1. ASSUME NEW p \in Projects PROVE Usage(p)' <= Quota
    <3>1. Usage(p) <= Quota BY DEF PoolInv, UsageWithinQuota
    <3>2. Usage(p)' = IF p = work[w].project THEN Usage(p) + 1 ELSE Usage(p) BY <1>10
    <3>3. Quota \in Nat BY DEF PoolAssumption
    <3>4. QED BY <1>6, <1>12, <3>1, <3>2, <3>3
  <2>2. QED BY <2>1 DEF UsageWithinQuota
<1>19. QED BY <1>9, <1>15, <1>16, <1>17, <1>18 DEF PoolInv

\* A free robot keeps its account, so an organisation's later names stay above the earlier ones.
LEMMA RobotClaimed ==
  ASSUME PoolAssumption, PoolInv, NEW o \in Orgs, ClaimRobot(o), UNCHANGED <<accounts, work>>,
         \A v \in Workers : work[v].org # o
  PROVE  PoolInv'
<1>1. PICK r \in FreeRobots : robots' = Assigned(o, r) BY DEF ClaimRobot
<1>2. r \in robots /\ r.org = NoOrg /\ r \in RobotRecord BY <1>1 DEF FreeRobots, PoolInv, PoolTyped
<1>3. o # NoOrg BY DEF PoolAssumption
<1>4. r.account[1] = NoOrg /\ Exists(r.account)
  <2>1. r.account[1] # NoOrg => r.account[1] = NoOrg BY <1>2 DEF PoolInv, RobotsKnown
  <2>2. QED BY <1>2, <2>1 DEF PoolInv, RobotsKnown
<1>5. PICK x : x = [r EXCEPT !.org = o, !.status = "assigned"] OBVIOUS
<1>6. /\ x \in RobotRecord /\ x.account = r.account /\ x.project = r.project /\ x.org = o
      /\ x.status = "assigned"
  BY <1>2, <1>5 DEF RobotRecord
<1>7. robots' = (robots \ {r}) \cup {x} BY <1>1, <1>5 DEF Assigned
<1>8. x \notin robots BY <1>2, <1>3, <1>6 DEF PoolInv, RobotsKnown
<1>9. PoolTyped'
  <2>1. IsFiniteSet(robots') BY <1>2, <1>7, <1>8, Replaced DEF PoolInv, PoolTyped
  <2>2. QED BY <1>6, <1>7, <2>1 DEF PoolInv, PoolTyped
<1>10. ASSUME NEW p PROVE Usage(p)' = Usage(p)
  <2>1. IsFiniteSet({s \in robots : s.project = p}) BY PoolCounts DEF PoolInv
  <2>2. CASE r.project = p
    <3>1. {s \in robots' : s.project = p} = ({s \in robots : s.project = p} \ {r}) \cup {x} BY <1>6, <1>7, <2>2
    <3>2. r \in {s \in robots : s.project = p} BY <1>2, <2>2
    <3>3. x \notin {s \in robots : s.project = p} \ {r} BY <1>8
    <3>4. QED BY <2>1, <3>1, <3>2, <3>3, Replaced DEF Usage
  <2>3. CASE r.project # p
    <3>1. {s \in robots' : s.project = p} = {s \in robots : s.project = p} BY <1>6, <1>7, <2>3
    <3>2. QED BY <3>1 DEF Usage
  <2>4. QED BY <2>2, <2>3
<1>11. ASSUME NEW q \in Orgs PROVE Generation(q)' = IF q = o THEN Generation(q) + 1 ELSE Generation(q)
  <2>1. IsFiniteSet(OfOrg(q)) BY PoolCounts DEF PoolInv
  <2>2. r \notin OfOrg(q) BY <1>2 DEF OfOrg, PoolAssumption
  <2>3. OfOrg(q)' = IF q = o THEN OfOrg(q) \cup {x} ELSE OfOrg(q) BY <1>6, <1>7, <2>2 DEF OfOrg
  <2>4. Cardinality(OfOrg(q) \cup {x}) = Cardinality(OfOrg(q)) + 1 BY <1>8, <2>1, FS_AddElement DEF OfOrg
  <2>5. QED BY <2>3, <2>4 DEF Generation
<1>12. \A q : Generation(q) \in Nat BY PoolCounts DEF PoolInv
<1>13. \A a : Exists(a)' <=> Exists(a) BY DEF Exists
<1>14. ASSUME NEW v \in Workers PROVE Known(work[v])'
  <2>1. PICK z : z = work[v] OBVIOUS
  <2>2. Known(z) /\ z.org # o BY <2>1 DEF PoolInv
  <2>3. \A s \in robots' : \E t \in robots : s.account = t.account BY <1>2, <1>6, <1>7
  <2>4. z.org \in Orgs => Generation(z.org)' = Generation(z.org) BY <1>11, <2>2
  <2>5. Usage(z.project)' = Usage(z.project) BY <1>10
  <2>6. Exists(z.account)' <=> Exists(z.account) BY <1>13
  <2>7. Known(z)' BY <2>2, <2>3, <2>4, <2>5, <2>6 DEF Known
  <2>8. QED BY <2>1, <2>7
<1>15. WorkersApart' BY DEF PoolInv, WorkersApart, Making
<1>16. RobotsKnown'
  <2>1. \A s, t \in robots' : s.account = t.account => s = t BY <1>2, <1>6, <1>7 DEF PoolInv, RobotsKnown
  <2>2. ASSUME NEW s \in robots'
        PROVE  IF s.account[1] = NoOrg THEN Exists(s.account)'
               ELSE s.org = s.account[1] /\ s.account[2] < Generation(s.org)'
    <3>1. CASE s \in robots
      <4>1. s.account[2] \in Nat /\ s.org \in Orgs \cup {NoOrg}
        BY <3>1 DEF PoolInv, PoolTyped, RobotRecord, Names
      <4>2. QED BY <1>11, <1>12, <1>13, <3>1, <4>1 DEF PoolInv, RobotsKnown
    <3>2. CASE s = x BY <1>4, <1>6, <1>13, <3>2
    <3>3. QED BY <1>7, <3>1, <3>2
  <2>3. QED BY <2>1, <2>2 DEF RobotsKnown
<1>17. UsageWithinQuota' BY <1>10 DEF PoolInv, UsageWithinQuota
<1>18. QED BY <1>9, <1>14, <1>15, <1>16, <1>17 DEF PoolInv

LEMMA RobotRetired ==
  ASSUME PoolAssumption, PoolInv, NEW o \in Orgs, DisconnectRobot(o)
  PROVE  PoolInv'
<1> DEFINE After(r) == IF r.org = o THEN [r EXCEPT !.status = "retired"] ELSE r
<1>1. ASSUME NEW r \in robots
      PROVE  /\ After(r) \in RobotRecord /\ After(r).account = r.account /\ After(r).project = r.project
             /\ After(r).org = r.org /\ (After(r).status = "free" => r.status = "free")
  BY DEF PoolInv, PoolTyped, RobotRecord
<1>2. robots' = {After(r) : r \in robots} /\ accounts' = accounts /\ work' = work BY DEF DisconnectRobot
<1>3. ASSUME NEW R, R \subseteq robots
      PROVE  IsFiniteSet({After(r) : r \in R}) /\ Cardinality({After(r) : r \in R}) = Cardinality(R)
  <2> DEFINE f == [r \in R |-> After(r)]
  <2> DEFINE T == {After(r) : r \in R}
  <2>1. IsFiniteSet(R) BY <1>3, FS_Subset DEF PoolInv, PoolTyped
  <2>2. f \in [R -> T] OBVIOUS
  <2>3. \A a, b \in R : f[a] = f[b] => a = b
    <3>1. ASSUME NEW a \in R, NEW b \in R, f[a] = f[b] PROVE a = b
      <4>1. After(a) = After(b) BY <3>1
      <4>2. a.account = b.account BY <1>1, <1>3, <4>1
      <4>3. QED BY <1>3, <4>2 DEF PoolInv, RobotsKnown
    <3>2. QED BY <3>1
  <2>4. \A t \in T : \E s \in R : f[s] = t OBVIOUS
  <2> HIDE DEF f, T
  <2>5. IsFiniteSet(T) /\ Cardinality(T) = Cardinality(R) BY <2>1, <2>2, <2>3, <2>4, Counted
  <2>6. QED BY <2>5 DEF T
<1> HIDE DEF After
<1>4. ASSUME NEW p PROVE Usage(p)' = Usage(p)
  <2> DEFINE R == {r \in robots : r.project = p}
  <2>1. {r \in robots' : r.project = p} = {After(r) : r \in R} BY <1>1, <1>2
  <2>2. QED BY <1>3, <2>1 DEF Usage
<1>5. ASSUME NEW q PROVE Generation(q)' = Generation(q)
  <2> DEFINE R == {r \in robots : r.org = q}
  <2>1. {r \in robots' : r.org = q} = {After(r) : r \in R} BY <1>1, <1>2
  <2>2. QED BY <1>3, <2>1 DEF Generation, OfOrg
<1>6. \A a : Exists(a)' <=> Exists(a) BY <1>2 DEF Exists
<1>7. PoolTyped'
  <2>1. IsFiniteSet(robots') BY <1>2, <1>3
  <2>2. \A r \in robots' : r \in RobotRecord /\ (r.status = "free" => r.org = NoOrg)
    BY <1>1, <1>2 DEF PoolInv, PoolTyped
  <2>3. QED BY <1>2, <2>1, <2>2 DEF PoolInv, PoolTyped
<1>8. ASSUME NEW v \in Workers PROVE Known(work[v])'
  <2>1. PICK z : z = work[v] OBVIOUS
  <2>2. Known(z) BY <2>1 DEF PoolInv
  <2>3. \A s \in robots' : \E t \in robots : s.account = t.account BY <1>1, <1>2
  <2>4. Known(z)' BY <1>4, <1>5, <1>6, <2>2, <2>3 DEF Known
  <2>5. QED BY <1>2, <2>1, <2>4
<1>9. WorkersApart' BY <1>2 DEF PoolInv, WorkersApart, Making
<1>10. RobotsKnown'
  <2>1. ASSUME NEW s \in robots', NEW t \in robots', s.account = t.account PROVE s = t
    <3>1. PICK a \in robots : s = After(a) BY <1>2
    <3>2. PICK b \in robots : t = After(b) BY <1>2
    <3>3. a.account = b.account BY <1>1, <2>1, <3>1, <3>2
    <3>4. a = b BY <3>3 DEF PoolInv, RobotsKnown
    <3>5. QED BY <3>1, <3>2, <3>4
  <2>2. ASSUME NEW s \in robots'
        PROVE  IF s.account[1] = NoOrg THEN Exists(s.account)'
               ELSE s.org = s.account[1] /\ s.account[2] < Generation(s.org)'
    <3>1. PICK a \in robots : s = After(a) BY <1>2
    <3>2. s.account = a.account /\ s.org = a.org BY <1>1, <3>1
    <3>3. QED BY <1>5, <1>6, <3>2 DEF PoolInv, RobotsKnown
  <2>3. QED BY <2>1, <2>2 DEF RobotsKnown
<1>11. UsageWithinQuota' BY <1>4 DEF PoolInv, UsageWithinQuota
<1>12. QED BY <1>7, <1>8, <1>9, <1>10, <1>11 DEF PoolInv

\* The worker that makes a robot may go on with it in the next step.
LEMMA WorkGoesOn ==
  ASSUME PoolAssumption, PoolInv, NEW w \in Workers, CreateAccount(w) \/ CreateKey(w)
  PROVE  PoolInv'
<1>1. PICK x : x = [work[w] EXCEPT !.step = IF CreateAccount(w) THEN "key" ELSE "store"] OBVIOUS
<1>2. work[w] \in WorkRecord BY DEF PoolInv, PoolTyped
<1>3. /\ x \in WorkRecord /\ x.step \in {"key", "store"} /\ x.org = work[w].org
      /\ x.account = work[w].account /\ x.project = work[w].project
  BY <1>1, <1>2 DEF WorkRecord
<1>4. work' = [work EXCEPT ![w] = x]
  <2>1. CASE CreateAccount(w) BY <1>1, <2>1 DEF CreateAccount
  <2>2. CASE ~CreateAccount(w) BY <1>1, <2>2 DEF CreateKey
  <2>3. QED BY <2>1, <2>2
<1>5. robots' = robots /\ accounts \subseteq accounts' BY DEF CreateAccount, CreateKey, NoteMade
<1>6. Making(w) BY DEF CreateAccount, CreateKey, Making
<1>7. Known(work[w]) BY DEF PoolInv
<1>8. Exists(x.account)' \/ x.org # NoOrg
  <2>1. CASE CreateAccount(w)
    <3>1. work[w].project \in Projects BY <1>6, <1>7 DEF Known, Making
    <3>2. <<work[w].account, work[w].project>> \in accounts' BY <2>1 DEF CreateAccount, NoteMade, Made
    <3>3. QED BY <1>3, <3>1, <3>2 DEF Exists
  <2>2. CASE CreateKey(w)
    <3>1. work[w].step = "key" /\ accounts' = accounts BY <2>2 DEF CreateKey
    <3>2. x.org = NoOrg => Exists(x.account) BY <1>3, <1>7, <3>1 DEF Known
    <3>3. QED BY <3>1, <3>2 DEF Exists
  <2>3. QED BY <2>1, <2>2
<1>9. Known(x)'
  <2>1. \A p : Usage(p)' = Usage(p) BY <1>5 DEF Usage
  <2>2. \A q : Generation(q)' = Generation(q) BY <1>5 DEF Generation, OfOrg
  <2>3. QED BY <1>3, <1>5, <1>6, <1>7, <1>8, <2>1, <2>2 DEF Known, Making
<1>10. \A v \in Workers \ {w} : Making(v) => work[v].project # x.project /\ work[v].account # x.account
  BY <1>3, <1>6 DEF PoolInv, WorkersApart
<1>11. QED BY <1>3, <1>4, <1>5, <1>9, <1>10, WorkMoves

LEMMA WarmBegins ==
  ASSUME PoolAssumption, PoolInv, UNCHANGED <<robots, accounts>>, NEW w \in Workers, ~Making(w),
         NEW p \in Projects, NEW a \in WarmNames, NEW left \in Int, FirstOpen(p),
         work' = [work EXCEPT ![w] = [step |-> "account", org |-> NoOrg, account |-> a, project |-> p, left |-> left]]
  PROVE  PoolInv'
<1>1. PICK n \in 1..MaxWarm : a = <<NoOrg, n>> BY DEF WarmNames
<1>2. a \in Names /\ a[1] = NoOrg BY <1>1 DEF Names, PoolAssumption
<1>3. NoOrg \in Orgs \cup {NoOrg} /\ NoOrg \notin Orgs BY DEF PoolAssumption
<1>4. QED BY <1>2, <1>3, WorkBegins

LEMMA PoolStep ==
  ASSUME PoolAssumption, PoolInv, [PoolNext]_poolVars
  PROVE  PoolInv'
<1>1. ASSUME NEW w \in Workers, TopUp(w) PROVE PoolInv'
  <2>1. PICK p \in Projects, a \in WarmNames :
          /\ FirstOpen(p)
          /\ work' = [work EXCEPT ![w] = [step |-> "account", org |-> NoOrg, account |-> a, project |-> p,
                                          left |-> WarmSize - Cardinality(FreeRobots)]]
    BY <1>1 DEF TopUp
  <2>2. IsFiniteSet(FreeRobots) BY FS_Subset DEF FreeRobots, PoolInv, PoolTyped
  <2>3. WarmSize - Cardinality(FreeRobots) \in Int BY <2>2, FS_CardinalityType DEF PoolAssumption
  <2>4. ~Making(w) /\ UNCHANGED <<robots, accounts>> BY <1>1 DEF TopUp, Making, Busy
  <2>5. QED BY <2>1, <2>3, <2>4, WarmBegins
<1>2. ASSUME NEW w \in Workers, Continue(w) PROVE PoolInv'
  <2>1. work[w] \in WorkRecord /\ work[w].step = "next" /\ work[w].org = NoOrg /\ ~Making(w)
    BY <1>2 DEF Continue, PoolInv, PoolTyped, Known, Making
  <2>2. ASSUME NEW p \in Projects, NEW a \in WarmNames, FirstOpen(p),
               work' = [work EXCEPT ![w] = [@ EXCEPT !.step = "account", !.account = a, !.project = p]]
        PROVE  PoolInv'
    <3>1. PICK z : z = work[w] OBVIOUS
    <3>2. PICK y : y = [z EXCEPT !.step = "account", !.account = a, !.project = p] OBVIOUS
    <3>3. PICK left : left = z.left OBVIOUS
    <3>4. y = [step |-> "account", org |-> NoOrg, account |-> a, project |-> p, left |-> left]
      <4>1. PICK n \in 1..MaxWarm : a = <<NoOrg, n>> BY DEF WarmNames
      <4>2. a \in Names BY <4>1 DEF Names, PoolAssumption
      <4>3. /\ y \in WorkRecord /\ y.step = "account" /\ y.org = NoOrg /\ y.account = a
            /\ y.project = p /\ y.left = left
        BY <2>1, <3>1, <3>2, <3>3, <4>2 DEF WorkRecord
      <4>4. QED BY <4>3 DEF WorkRecord
    <3>5. work' = [work EXCEPT ![w] = y] BY <2>2, <3>1, <3>2
    <3>6. left \in Int BY <2>1, <3>1, <3>3 DEF WorkRecord
    <3>7. UNCHANGED <<robots, accounts>> BY <1>2 DEF Continue
    <3>8. work' = [work EXCEPT ![w] = [step |-> "account", org |-> NoOrg, account |-> a, project |-> p, left |-> left]]
      BY <3>4, <3>5
    <3>9. FirstOpen(p) /\ ~Making(w) BY <2>1, <2>2
    <3>10. QED BY <3>6, <3>7, <3>8, <3>9, WarmBegins
  <2>3. CASE work' = [work EXCEPT ![w] = NoWork] BY <1>2, <2>3, WorkEnds DEF Continue
  <2>4. QED BY <1>2, <2>2, <2>3 DEF Continue
<1>3. ASSUME NEW w \in Workers, Fail(w) PROVE PoolInv'
  <2>1. robots' = robots /\ accounts \subseteq accounts' /\ work' = [work EXCEPT ![w] = NoWork]
    BY <1>3 DEF Fail, NoteMade
  <2>2. QED BY <2>1, WorkEnds
<1>4. ASSUME NEW w \in Workers, NEW o \in Orgs, ProvisionRobot(w, o) PROVE PoolInv'
  <2>1. accounts' = accounts /\ ~Making(w) /\ \A v \in Workers : work[v].org # o
    BY <1>4 DEF ProvisionRobot, Making, Busy
  <2>2. CASE ClaimRobot(o) /\ UNCHANGED work BY <2>1, <2>2, RobotClaimed
  <2>3. ASSUME NEW p \in Projects, FirstOpen(p), robots' = robots,
               work' = [work EXCEPT ![w] = [step |-> "account", org |-> o, account |-> <<o, Generation(o)>>,
                                            project |-> p, left |-> 1]]
        PROVE  PoolInv'
    <3>1. PICK a : a = <<o, Generation(o)>> OBVIOUS
    <3>2. Generation(o) \in Nat BY PoolCounts DEF PoolInv
    <3>3. a \in Names /\ a[1] = o /\ a[2] = Generation(o) BY <3>1, <3>2 DEF Names
    <3>4. o \in Orgs \cup {NoOrg} /\ o # NoOrg BY DEF PoolAssumption
    <3>5. PICK left : left = 1 OBVIOUS
    <3>6. left \in Int BY <3>5
    <3>7. work' = [work EXCEPT ![w] = [step |-> "account", org |-> o, account |-> a, project |-> p, left |-> left]]
      BY <2>3, <3>1, <3>5
    <3>8. /\ o \in Orgs => a[2] = Generation(o) /\ \A v \in Workers : work[v].org # o
          /\ o = NoOrg => a \in WarmNames
          /\ UNCHANGED <<robots, accounts>>
      BY <2>1, <2>3, <3>3, <3>4
    <3>9. ~Making(w) /\ FirstOpen(p) BY <2>1, <2>3
    <3>10. QED BY <3>3, <3>4, <3>6, <3>7, <3>8, <3>9, WorkBegins
  <2>4. CASE UNCHANGED <<robots, work>> BY <2>1, <2>4, WorkStays
  <2>5. QED BY <1>4, <2>2, <2>3, <2>4 DEF ProvisionRobot
<1>5. ASSUME NEW o \in Orgs, EnableRobot(o) PROVE PoolInv'
  <2>1. UNCHANGED <<accounts, work>> /\ \A v \in Workers : work[v].org # o BY <1>5 DEF EnableRobot
  <2>2. CASE ClaimRobot(o) BY <2>1, <2>2, RobotClaimed
  <2>3. CASE robots' = robots BY <2>1, <2>3, WorkStays
  <2>4. QED BY <1>5, <2>2, <2>3 DEF EnableRobot
<1>6. CASE IntervalPasses BY <1>6, WorkStays DEF IntervalPasses
<1>7. CASE UNCHANGED poolVars BY <1>7, WorkStays DEF poolVars
<1>8. QED BY <1>1, <1>2, <1>3, <1>4, <1>5, <1>6, <1>7, WorkGoesOn, RobotStored, RobotRetired DEF PoolNext

LEMMA PoolBegins ==
  ASSUME PoolAssumption, PoolInit
  PROVE  PoolInv
<1>1. NoWork \in WorkRecord BY DEF NoWork, WorkRecord
<1>2. \A w \in Workers : work[w] = NoWork BY DEF PoolInit
<1>3. robots = {} /\ IsFiniteSet(robots) BY FS_EmptySet DEF PoolInit
<1>4. work \in [Workers -> WorkRecord] BY <1>1 DEF PoolInit
<1>5. PoolTyped BY <1>3, <1>4 DEF PoolTyped
<1>6. Known(NoWork) BY DEF NoWork, Known
<1>7. \A w \in Workers : Known(work[w]) BY <1>2, <1>6
<1>8. WorkersApart BY <1>2 DEF WorkersApart, Making, NoWork
<1>9. RobotsKnown BY <1>3 DEF RobotsKnown
<1>10. UsageWithinQuota
  <2>1. \A p : {r \in robots : r.project = p} = {} BY <1>3
  <2>2. \A p : Usage(p) = 0 BY <2>1, FS_EmptySet DEF Usage
  <2>3. QED BY <2>2 DEF UsageWithinQuota, PoolAssumption
<1>11. QED BY <1>5, <1>7, <1>8, <1>9, <1>10 DEF PoolInv

\* No key is made for a name that is or was a robot's, and no project is overfilled,
\* whatever workers overlap, die and begin again (google_sa_provisioner.py).
THEOREM PoolKeptAlways == ASSUME PoolAssumption PROVE PoolSpec => []PoolKept
<1>1. PoolInit => PoolInv BY PoolBegins
<1>2. PoolInv /\ [PoolNext]_poolVars => PoolInv' BY PoolStep
<1>3. PoolInv => PoolKept
  <2>1. PoolInv => NeverRecycled
    <3>1. ASSUME PoolInv, NEW w \in Workers, work[w].step \in {"key", "store"}
          PROVE  /\ \A r \in robots : r.account # work[w].account
                 /\ \A v \in Workers \ {w} : work[v].account # work[w].account
      <4>1. Known(work[w]) /\ Making(w) BY <3>1 DEF PoolInv, Making
      <4>2. /\ \A r \in robots : r.account # work[w].account
            /\ work[w].account \in Names
        BY <4>1 DEF Known, Making
      <4>3. ASSUME NEW v \in Workers \ {w} PROVE work[v].account # work[w].account
        <5>1. CASE Making(v) BY <3>1, <4>1, <5>1 DEF PoolInv, WorkersApart
        <5>2. CASE ~Making(v)
          <6>1. work[v].account = <<>> BY <3>1, <5>2 DEF PoolInv, Known, Making
          <6>2. QED BY <4>2, <6>1 DEF Names
        <5>3. QED BY <5>1, <5>2
      <4>4. QED BY <4>2, <4>3
    <3>2. QED BY <3>1 DEF NeverRecycled
  <2>2. QED BY <2>1 DEF PoolKept, PoolInv
<1>4. QED BY <1>1, <1>2, <1>3, PTL DEF PoolSpec
=============================================================================
