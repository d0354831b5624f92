------------------------- MODULE FroniusClient_proofs -------------------------
(****************************************************************************)
(* The safety properties of one Fronius read for any tables, any order of   *)
(* preference and any bound on the scan.                                    *)
(*                                                                          *)
(* GarbageOnlyAfterMove needs to know that the index under construction is  *)
(* right about a table that stands still (ScanInv).                         *)
(* LegacyOnlyWithoutModels speaks of the end of a read, so the invariant    *)
(* follows a read that meets no trouble from request to request: how far    *)
(* its scan has come (ReachInv), that an index it built itself is right and *)
(* whole (FreshInv), and what it has learnt when it has no AC values        *)
(* (NoAcInv).                                                               *)
(****************************************************************************)
EXTENDS FroniusClient, TLAPS

RightFor(index, m) ==
  index[m] # 0 => index[m] <= Len(table) /\ table[index[m]] = m

\* Values, position and models of a read at its stages.
StageInv ==
  /\ pc \in {"signature", "header", "ac"} => ac = "none"
  /\ pc # "idle" => pv = "none"
  /\ pc = "signature" => pos = 1 /\ found = NoModels
  /\ pc = "idle" => rescanned = FALSE

\* A read without trouble has met a device that is up.
TroubleInv ==
  /\ trouble = FALSE => up = TRUE \/ (pc = "idle" /\ pv = "none")
  /\ Scanning /\ trouble = FALSE => scanMoved = FALSE

ScanInv ==
  pc = "header" /\ scanMoved = FALSE => \A m \in ModelIds : RightFor(found, m)

CacheInv ==
  moved = FALSE /\ cache # None => \A m \in ModelIds : RightFor(cache, m)

GarbageInv == ac = "garbage" \/ pv = "garbage" => moved = TRUE

ReachInv ==
  pc = "header" /\ trouble = FALSE =>
    \A a \in 1 .. Len(table) : a < pos => found[table[a]] # 0

\* The read has scanned the table itself, and nothing has moved since.
Fresh == trouble = FALSE /\ (rescanned = TRUE \/ ~Known)

FreshInv ==
  /\ pc \in {"ac", "pv"} /\ Fresh =>
       /\ moved = FALSE
       /\ cache # None
       /\ \A a \in 1 .. Len(table) : a <= MaxModels => cache[table[a]] # 0
  /\ pc = "ac" /\ Fresh => turn = 1

NoAcModel ==
  \A i \in 1 .. Len(AcModels), a \in 1 .. Len(table) :
    a <= MaxModels => table[a] # AcModels[i]

NoAcInv ==
  /\ pc = "pv" /\ ac = "none" /\ Fresh => NoAcModel
  /\ pc = "legacy" /\ ac = "none" /\ trouble = FALSE => NoAcModel
  /\ pc = "idle" /\ ac = "none" /\ pv = "legacy" /\ trouble = FALSE => NoAcModel

IInv ==
  /\ TypeOK
  /\ StageInv
  /\ TroubleInv
  /\ ScanInv
  /\ CacheInv
  /\ GarbageInv
  /\ ReachInv
  /\ FreshInv
  /\ NoAcInv

\* A later place in a list leaves less of it.
LEMMA LaterIsLess ==
  ASSUME NEW k \in Nat, NEW i \in Nat, NEW j \in Nat, NEW a \in Nat, j > i
  PROVE  k - j + a < k - i + a
  OBVIOUS

USE ModelsAssumption, TablesAssumption, MaxModelsAssumption, EnabledAssumption,
    NoneAssumption

------------------------------------------------------------------------------
(* Types *)

\* A table is a sequence of model ids.
LEMMA TableFacts ==
  ASSUME TypeOK
  PROVE  /\ table \in Seq(ModelIds) /\ Len(table) \in Nat
         /\ \A a \in 1 .. Len(table) : table[a] \in ModelIds
  BY DEF TypeOK

LEMMA PreferenceFacts ==
  /\ Len(AcModels) \in Nat
  /\ 1 \in 1 .. Len(AcModels) + 1
  /\ \A i \in 1 .. Len(AcModels) : AcModels[i] \in ModelIds
  OBVIOUS

\* An index is never mistaken for None.
LEMMA NoneFacts ==
  None \notin Index /\ NoModels \in Index /\ 1 \in 1 .. MaxModels + 1
  BY DEF Index, NoModels

\* Offsets lie within the scan.
LEMMA OffsetFacts ==
  ASSUME TypeOK, NEW m \in ModelIds
  PROVE  /\ Offset(m) \in 0 .. MaxModels
         /\ cache # None => Offset(m) = cache[m]
  BY DEF TypeOK, Offset, Index

\* The client starts without an index and without values.
LEMMA InitEstablishesIInv == Init => IInv
<1> SUFFICES ASSUME Init PROVE IInv
  OBVIOUS
<1>1. TypeOK
  <2>1. up \in BOOLEAN
    BY DEF Init
  <2> QED
    BY <2>1, NoneFacts, PreferenceFacts DEF Init, TypeOK
<1> QED
  BY <1>1 DEF Init, IInv, StageInv, TroubleInv, Scanning, ScanInv, CacheInv,
       GarbageInv, ReachInv, FreshInv, NoAcInv

\* What any way of ending a scan does to the types.
LEMMA FinishScanType ==
  ASSUME TypeOK, NEW index \in Index, FinishScan(index)
  PROVE  TypeOK'
<1>1. cache' \in Index \cup {None}
  BY DEF TypeOK, FinishScan
<1>2. moved' \in BOOLEAN
  BY DEF TypeOK, FinishScan
<1>3. pc' \in {"legacy", "ac"}
  BY DEF FinishScan
<1>4. turn' \in 1 .. Len(AcModels) + 1
  BY PreferenceFacts DEF FinishScan
<1>5. pos' \in 1 .. MaxModels + 1 /\ found' \in Index
  BY NoneFacts DEF FinishScan, EndScan
<1>6. scanMoved' \in BOOLEAN
  BY DEF FinishScan, EndScan
<1> QED
  BY <1>1, <1>2, <1>3, <1>4, <1>5, <1>6 DEF TypeOK, FinishScan, deviceVars

\* Every step leaves every variable in its set.
LEMMA TypeStep == TypeOK /\ [Next]_vars => TypeOK'
<1> SUFFICES ASSUME TypeOK, [Next]_vars PROVE TypeOK'
  OBVIOUS
<1>1. CASE DeviceChanges
  <2>1. table' \in Tables
    BY <1>1 DEF TypeOK, DeviceChanges
  <2>2. up' \in BOOLEAN
    BY <1>1 DEF DeviceChanges
  <2>3. moved' \in BOOLEAN /\ scanMoved' \in BOOLEAN /\ trouble' \in BOOLEAN
    BY <1>1 DEF DeviceChanges
  <2> QED
    BY <1>1, <2>1, <2>2, <2>3 DEF TypeOK, DeviceChanges, scanVars, readVars
<1>2. CASE BeginRead
  <2>1. trouble' \in BOOLEAN
    BY <1>2 DEF BeginRead
  <2>2. pos' \in 1 .. MaxModels + 1 /\ found' \in Index
    BY <1>2, NoneFacts DEF TypeOK, BeginRead, StartScan, scanVars
  <2>3. scanMoved' \in BOOLEAN
    BY <1>2 DEF TypeOK, BeginRead, StartScan
  <2> QED
    BY <1>2, <2>1, <2>2, <2>3 DEF TypeOK, BeginRead, StartScan, deviceVars
<1>3. CASE ReadSignature
  BY <1>3, FinishScanType, NoneFacts
  DEF TypeOK, ReadSignature, deviceVars, scanVars, readVars
<1>4. CASE ReadHeader
  <2>1. CASE pos <= MaxModels /\ NextHeader
    <3>1. table[pos] \in ModelIds
      BY <2>1, TableFacts DEF NextHeader, TypeOK
    <3>2. pos \in 0 .. MaxModels
      BY <2>1 DEF TypeOK
    <3>3. found' \in Index
      <4>1. CASE found' = [found EXCEPT ![table[pos]] = pos]
        BY <3>1, <3>2, <4>1 DEF TypeOK, Index
      <4>2. CASE UNCHANGED found
        BY <4>2 DEF TypeOK
      <4> QED
        BY <2>1, <4>1, <4>2 DEF NextHeader
    <3>4. pos' \in 1 .. MaxModels + 1
      BY <2>1, <3>2 DEF NextHeader
    <3> QED
      BY <2>1, <3>3, <3>4 DEF TypeOK, NextHeader, deviceVars, readVars
  <2>2. CASE FinishScan(found)
    BY <2>2, FinishScanType DEF TypeOK
  <2> QED
    BY <1>4, <2>1, <2>2 DEF ReadHeader
<1>5. CASE ReadAc
  <2>1. ASSUME NEW i \in turn .. Len(AcModels), ReadAcBlock(i)
        PROVE  TypeOK'
    <3>1. i + 1 \in 1 .. Len(AcModels) + 1
      BY <2>1, PreferenceFacts DEF TypeOK
    <3> QED
      BY <2>1, <3>1 DEF TypeOK, ReadAcBlock, Origin, deviceVars, scanVars
  <2> QED
    BY <1>5, <2>1 DEF TypeOK, ReadAc, deviceVars, scanVars, readVars
<1>6. CASE ReadPv
  <2>1. pv' \in {"none", "right", "garbage"}
    BY <1>6 DEF ReadPv, PvValues, Origin
  <2>2. pos' \in 1 .. MaxModels + 1 /\ found' \in Index
    BY <1>6, NoneFacts DEF TypeOK, ReadPv, StartScan, scanVars
  <2>3. scanMoved' \in BOOLEAN /\ rescanned' \in BOOLEAN
    BY <1>6 DEF TypeOK, ReadPv, StartScan
  <2>4. turn' \in 1 .. Len(AcModels) + 1
    BY <1>6, PreferenceFacts DEF ReadPv
  <2>5. pc' \in {"signature", "legacy", "idle"}
    BY <1>6 DEF ReadPv, StartScan
  <2> QED
    BY <1>6, <2>1, <2>2, <2>3, <2>4, <2>5 DEF TypeOK, ReadPv, deviceVars
<1>7. CASE ReadLegacy
  BY <1>7 DEF TypeOK, ReadLegacy, deviceVars, scanVars
<1>8. CASE Raise
  <2>1. turn' \in 1 .. Len(AcModels) + 1
    BY <1>8, PreferenceFacts DEF Raise
  <2>2. pos' \in 1 .. MaxModels + 1 /\ found' \in Index
    BY <1>8, NoneFacts DEF Raise, EndScan
  <2>3. scanMoved' \in BOOLEAN /\ rescanned' \in BOOLEAN
    BY <1>8 DEF Raise, EndScan
  <2> QED
    BY <1>8, <2>1, <2>2, <2>3 DEF TypeOK, Raise, deviceVars
<1>9. CASE UNCHANGED vars
  BY <1>9 DEF TypeOK, vars, deviceVars, scanVars, readVars
<1> QED
  BY <1>1, <1>2, <1>3, <1>4, <1>5, <1>6, <1>7, <1>8, <1>9 DEF Next, Request

------------------------------------------------------------------------------
(* One read, from request to request *)

\* Values are there only where the read has got to, and a scan starts afresh.
LEMMA StageStep == TypeOK /\ StageInv /\ [Next]_vars => StageInv'
<1> SUFFICES ASSUME TypeOK, StageInv, [Next]_vars PROVE StageInv'
  OBVIOUS
<1> USE DEF StageInv
<1>1. CASE DeviceChanges
  BY <1>1 DEF DeviceChanges, scanVars, readVars
<1>2. CASE BeginRead
  BY <1>2 DEF BeginRead, StartScan
<1>3. ASSUME NEW index, FinishScan(index), pc \in {"signature", "header"}
      PROVE  StageInv'
  BY <1>3 DEF FinishScan, EndScan
<1>4. CASE ReadSignature
  BY <1>4, <1>3 DEF ReadSignature, readVars
<1>5. CASE ReadHeader
  BY <1>5, <1>3 DEF ReadHeader, NextHeader, readVars
<1>6. CASE ReadAc
  BY <1>6 DEF ReadAc, ReadAcBlock, scanVars, readVars
<1>7. CASE ReadPv
  BY <1>7 DEF ReadPv, StartScan, NeedsRescan
<1>8. CASE ReadLegacy \/ Raise
  BY <1>8 DEF ReadLegacy, Raise
<1>9. CASE UNCHANGED vars
  BY <1>9 DEF vars, scanVars, readVars
<1> QED
  BY <1>1, <1>2, <1>4, <1>5, <1>6, <1>7, <1>8, <1>9 DEF Next, Request

\* trouble is set by the first step of a read that meets a device that is not up.
LEMMA TroubleStep == TypeOK /\ TroubleInv /\ [Next]_vars => TroubleInv'
<1> SUFFICES ASSUME TypeOK, TroubleInv, [Next]_vars PROVE TroubleInv'
  OBVIOUS
<1> USE DEF TroubleInv, Scanning
<1>1. CASE DeviceChanges
  BY <1>1 DEF TypeOK, DeviceChanges, readVars
<1>2. CASE BeginRead
  BY <1>2 DEF TypeOK, BeginRead, StartScan, deviceVars
<1>3. ASSUME NEW index, FinishScan(index), pc \in {"signature", "header"}
      PROVE  TroubleInv'
  BY <1>3 DEF FinishScan, EndScan, deviceVars
<1>4. CASE ReadSignature
  BY <1>4, <1>3 DEF ReadSignature, deviceVars
<1>5. CASE ReadHeader
  BY <1>5, <1>3 DEF ReadHeader, NextHeader, deviceVars
<1>6. CASE ReadAc
  BY <1>6 DEF ReadAc, ReadAcBlock, deviceVars
<1>7. CASE ReadPv
  BY <1>7 DEF ReadPv, StartScan, deviceVars
<1>8. CASE ReadLegacy \/ Raise
  BY <1>8 DEF TypeOK, ReadLegacy, Raise, deviceVars
<1>9. CASE UNCHANGED vars
  BY <1>9 DEF vars, deviceVars, readVars
<1> QED
  BY <1>1, <1>2, <1>4, <1>5, <1>6, <1>7, <1>8, <1>9 DEF Next, Request

\* The index under construction is right about a table that stands still.
LEMMA ScanStep ==
  TypeOK /\ StageInv /\ ScanInv /\ [Next]_vars => ScanInv'
<1> SUFFICES ASSUME TypeOK, StageInv, ScanInv, [Next]_vars,
                    (pc = "header")', (scanMoved = FALSE)', NEW m \in ModelIds
             PROVE  RightFor(found, m)'
  BY DEF ScanInv
<1> USE DEF RightFor
<1>1. CASE DeviceChanges
  <2>1. pc = "header" /\ scanMoved = FALSE /\ table' = table /\ found' = found
    BY <1>1 DEF TypeOK, DeviceChanges, Scanning, scanVars
  <2> QED
    BY <2>1 DEF ScanInv
<1>2. CASE ReadSignature
  <2>1. found' = NoModels
    BY <1>2 DEF ReadSignature, StageInv, FinishScan, EndScan, scanVars
  <2> QED
    BY <2>1 DEF NoModels
<1>3. CASE ReadHeader
  <2>1. pos <= MaxModels /\ NextHeader
    BY <1>3 DEF ReadHeader, FinishScan
  <2>2. pc = "header" /\ scanMoved = FALSE /\ table' = table
    BY <1>3, <2>1 DEF ReadHeader, NextHeader, deviceVars
  <2>3. found' = [found EXCEPT ![table[pos]] = pos]
    BY <2>1, <2>2 DEF NextHeader
  <2> QED
    BY <2>1, <2>2, <2>3 DEF ScanInv, NextHeader, TypeOK, Index
<1>4. CASE UNCHANGED vars
  BY <1>4 DEF vars, scanVars, deviceVars, ScanInv
<1> QED
  BY <1>1, <1>2, <1>3, <1>4
  DEF Next, Request, BeginRead, StartScan, ReadAc, ReadAcBlock, ReadPv,
      ReadLegacy, Raise

\* So is the index that is cached.
LEMMA CacheStep ==
  TypeOK /\ ScanInv /\ CacheInv /\ [Next]_vars => CacheInv'
<1> SUFFICES ASSUME TypeOK, ScanInv, CacheInv, [Next]_vars,
                    (moved = FALSE)', (cache # None)', NEW m \in ModelIds
             PROVE  RightFor(cache, m)'
  BY DEF CacheInv
<1> USE DEF RightFor
<1>1. CASE DeviceChanges
  <2>1. moved = FALSE /\ cache # None /\ table' = table /\ cache' = cache
    BY <1>1 DEF TypeOK, DeviceChanges
  <2> QED
    BY <2>1 DEF CacheInv
<1>2. ASSUME NEW index, FinishScan(index),
             scanMoved = FALSE => RightFor(index, m)
      PROVE  RightFor(cache, m)'
  <2>1. table' = table
    BY <1>2 DEF FinishScan, deviceVars
  <2>2. CASE UNCHANGED <<cache, moved>>
    BY <2>1, <2>2 DEF CacheInv
  <2>3. CASE cache' = index /\ moved' = scanMoved
    BY <1>2, <2>1, <2>3
  <2> QED
    BY <1>2, <2>2, <2>3 DEF FinishScan
<1>3. CASE ReadSignature
  <2>1. RightFor(NoModels, m)
    BY DEF NoModels
  <2>2. CASE UNCHANGED <<deviceVars, scanVars, cache, readVars, moved, scanMoved, trouble>>
    BY <2>2 DEF deviceVars, CacheInv
  <2> QED
    BY <1>2, <1>3, <2>1, <2>2 DEF ReadSignature
<1>4. CASE ReadHeader
  <2>1. CASE NextHeader
    BY <2>1 DEF NextHeader, deviceVars, CacheInv
  <2> QED
    BY <1>2, <1>4, <2>1 DEF ReadHeader, ScanInv
<1>5. CASE UNCHANGED <<deviceVars, cache, moved>>
  BY <1>5 DEF deviceVars, CacheInv
<1> QED
  BY <1>1, <1>3, <1>4, <1>5
  DEF Next, Request, BeginRead, ReadAc, ReadAcBlock, ReadPv, ReadLegacy, Raise,
      vars

\* A cached offset that is right is answered by its own model, or not at all.
LEMMA RightAnswers ==
  ASSUME TypeOK, CacheInv, moved = FALSE, NEW m \in ModelIds, Offset(m) # 0
  PROVE  /\ Offset(m) \in 1 .. Len(table)
         /\ Answers(Offset(m)) \subseteq {m, "error"}
         /\ up = TRUE => Answers(Offset(m)) = {m}
<1>1. cache # None /\ Offset(m) = cache[m]
  BY DEF Offset
<1>2. Offset(m) \in 1 .. Len(table) /\ table[Offset(m)] = m
  BY <1>1, OffsetFacts, TableFacts DEF CacheInv, RightFor
<1> QED
  BY <1>2 DEF Answers

\* Only registers of a table that moved are decoded as another model's.
LEMMA GarbageStep ==
  TypeOK /\ StageInv /\ CacheInv /\ GarbageInv /\ [Next]_vars => GarbageInv'
<1> SUFFICES ASSUME TypeOK, StageInv, CacheInv, GarbageInv, [Next]_vars
             PROVE  GarbageInv'
  OBVIOUS
<1> USE DEF GarbageInv
<1>1. CASE DeviceChanges
  BY <1>1 DEF DeviceChanges, readVars
<1>2. CASE BeginRead
  BY <1>2 DEF BeginRead
<1>3. ASSUME NEW index, FinishScan(index), pc \in {"signature", "header"}
      PROVE  GarbageInv'
  BY <1>3 DEF FinishScan, StageInv
<1>4. CASE ReadSignature
  BY <1>4, <1>3 DEF ReadSignature, readVars
<1>5. CASE ReadHeader
  BY <1>5, <1>3 DEF ReadHeader, NextHeader, readVars
<1>6. CASE ReadAc
  <2>1. ASSUME NEW i \in turn .. Len(AcModels), Indexed(i), ReadAcBlock(i), moved = FALSE
        PROVE  ac' # "garbage"
    <3>1. AcModels[i] \in ModelIds
      BY PreferenceFacts DEF TypeOK
    <3>2. Answers(Offset(AcModels[i])) \subseteq {AcModels[i], "error"}
      BY <2>1, <3>1, RightAnswers DEF Indexed
    <3> QED
      BY <2>1, <3>2 DEF ReadAcBlock, Origin, GarbageInv
  <2>2. moved' = moved /\ pv' = pv
    BY <1>6 DEF ReadAc, ReadAcBlock, readVars
  <2> QED
    BY <1>6, <2>1, <2>2 DEF ReadAc, readVars, TypeOK
<1>7. CASE ReadPv
  <2>1. ASSUME moved = FALSE
        PROVE  "garbage" \notin PvValues
    <3>1. CASE Model160Enabled /\ Offset(PvModel) # 0
      <4>1. Answers(Offset(PvModel)) \subseteq {PvModel, "error"}
        BY <2>1, <3>1, RightAnswers
      <4>2. \A answer \in Answers(Offset(PvModel)) \ {"error"} :
              Origin(answer, PvModel) = "right"
        BY <4>1 DEF Origin
      <4> QED
        BY <4>2 DEF PvValues
    <3>2. CASE ~(Model160Enabled /\ Offset(PvModel) # 0)
      BY <3>2 DEF PvValues
    <3> QED
      BY <3>1, <3>2
  <2> QED
    BY <1>7, <2>1 DEF ReadPv, TypeOK
<1>8. CASE ReadLegacy \/ Raise
  BY <1>8 DEF ReadLegacy, Raise
<1>9. CASE UNCHANGED vars
  BY <1>9 DEF vars, readVars
<1> QED
  BY <1>1, <1>2, <1>4, <1>5, <1>6, <1>7, <1>8, <1>9 DEF Next, Request

------------------------------------------------------------------------------
(* A read without trouble *)

\* A scan without trouble skips no header.
LEMMA ReachStep ==
  TypeOK /\ StageInv /\ TroubleInv /\ ReachInv /\ [Next]_vars => ReachInv'
<1> SUFFICES ASSUME TypeOK, StageInv, TroubleInv, ReachInv, [Next]_vars,
                    (pc = "header")', (trouble = FALSE)',
                    NEW a \in 1 .. Len(table'), a < pos'
             PROVE  found'[table'[a]] # 0
  BY DEF ReachInv
<1>1. CASE DeviceChanges
  <2>1. pc = "header" /\ trouble = FALSE /\ pos' = pos /\ found' = found
    BY <1>1 DEF TypeOK, DeviceChanges, scanVars
  <2>2. table' = table
    BY <1>1, <2>1 DEF TroubleInv, DeviceChanges
  <2> QED
    BY <2>1, <2>2 DEF ReachInv
<1>2. CASE ReadSignature
  <2>1. pos' = 1
    BY <1>2 DEF ReadSignature, StageInv, FinishScan, EndScan, scanVars
  <2> QED
    BY <2>1
<1>3. CASE ReadHeader
  <2>1. pos <= MaxModels /\ NextHeader
    BY <1>3 DEF ReadHeader, FinishScan
  <2>2. pc = "header" /\ trouble = FALSE /\ table' = table
    BY <1>3, <2>1 DEF ReadHeader, NextHeader, deviceVars
  <2>3. scanMoved = FALSE
    BY <2>2 DEF TroubleInv, Scanning
  <2>4. found' = [found EXCEPT ![table[pos]] = pos] /\ pos' = pos + 1
    BY <2>1, <2>3 DEF NextHeader
  <2>5. table[a] \in ModelIds /\ found \in [ModelIds -> 0 .. MaxModels] /\ pos \in Nat \ {0}
    BY <2>2, TableFacts DEF TypeOK, Index
  <2>6. a < pos \/ a = pos
    BY <2>4, <2>5
  <2> QED
    BY <2>2, <2>4, <2>5, <2>6 DEF ReachInv
<1>4. CASE UNCHANGED vars
  BY <1>4 DEF vars, scanVars, deviceVars, ReachInv
<1> QED
  BY <1>1, <1>2, <1>3, <1>4
  DEF Next, Request, BeginRead, StartScan, ReadAc, ReadAcBlock, ReadPv,
      ReadLegacy, Raise

\* An index that holds every model a scan reaches.
Whole(index) ==
  \A a \in 1 .. Len(table) : a <= MaxModels => index[table[a]] # 0

\* What a scan without trouble ends with.
LEMMA ScanIsWhole ==
  ASSUME TypeOK, StageInv, TroubleInv, ReachInv, trouble = FALSE,
         NEW index \in Index, FinishScan(index),
         \/ ReadSignature /\ index = NoModels
         \/ ReadHeader /\ index = found
  PROVE  Whole(index) /\ scanMoved = FALSE
<1>1. up = TRUE /\ scanMoved = FALSE
  BY DEF ReadSignature, ReadHeader, TroubleInv, Scanning
<1>2. CASE ReadSignature
  <2>1. table = <<>>
    BY <1>1, <1>2 DEF ReadSignature, FinishScan
  <2> QED
    BY <1>1, <2>1 DEF Whole
<1>3. CASE ReadHeader /\ index = found
  <2>1. pos > MaxModels \/ pos > Len(table)
    BY <1>1, <1>3 DEF ReadHeader, NextHeader, FinishScan
  <2>2. pos \in Nat /\ Len(table) \in Nat /\ pc = "header"
    BY <1>3, TableFacts DEF TypeOK, ReadHeader
  <2> QED
    BY <1>1, <1>3, <2>1, <2>2 DEF Whole, ReachInv
<1> QED
  BY <1>2, <1>3

\* Only one action ends a scan in a given state, with the index it is known by.
LEMMA ScanEnds ==
  ASSUME TypeOK, ReadSignature \/ ReadHeader, pc' \notin {"signature", "header"}
  PROVE  \E index \in Index :
           /\ FinishScan(index)
           /\ \/ ReadSignature /\ index = NoModels
              \/ ReadHeader /\ index = found
<1>1. CASE ReadSignature
  BY <1>1, NoneFacts DEF ReadSignature
<1>2. CASE ReadHeader
  BY <1>2 DEF ReadHeader, NextHeader, TypeOK
<1> QED
  BY <1>1, <1>2

\* An index that the read built itself, without trouble, is right and whole.
LEMMA FreshStep ==
  ASSUME TypeOK, StageInv, TroubleInv, CacheInv, ReachInv, FreshInv, [Next]_vars
  PROVE  FreshInv'
<1> USE DEF FreshInv, Fresh, Known
<1>1. CASE DeviceChanges
  <2>1. /\ pc' = pc /\ cache' = cache /\ turn' = turn /\ rescanned' = rescanned
        /\ trouble' = FALSE => trouble = FALSE
    BY <1>1 DEF TypeOK, DeviceChanges, readVars
  <2>2. pc \in {"ac", "pv"} /\ trouble' = FALSE => table' = table /\ moved' = moved
    BY <1>1, <2>1 DEF TypeOK, DeviceChanges, TroubleInv
  <2> QED
    BY <2>1, <2>2
<1>2. CASE BeginRead
  <2>1. pc' \in {"ac", "pv"} => Known /\ rescanned = FALSE
    BY <1>2 DEF BeginRead, StartScan, StageInv
  <2> QED
    BY <1>2, <2>1 DEF BeginRead
<1>3. CASE (ReadSignature \/ ReadHeader) /\ pc' \in {"ac", "pv"}
  <2>1. PICK index \in Index :
          /\ FinishScan(index)
          /\ \/ ReadSignature /\ index = NoModels
             \/ ReadHeader /\ index = found
    BY <1>3, ScanEnds
  <2>2. /\ cache' = index /\ moved' = scanMoved /\ turn' = 1
        /\ trouble' = trouble /\ table' = table
    BY <1>3, <2>1 DEF FinishScan, deviceVars
  <2>3. trouble = FALSE => Whole(index) /\ scanMoved = FALSE
    BY <2>1, ScanIsWhole
  <2>4. index # None
    BY NoneFacts
  <2> QED
    BY <2>2, <2>3, <2>4 DEF Whole
<1>4. CASE ReadAc
  <2>1. UNCHANGED <<table, cache, rescanned, trouble, moved>>
    BY <1>4 DEF ReadAc, ReadAcBlock, deviceVars, readVars
  <2>2. ASSUME pc' = "ac", Fresh
        PROVE  FALSE
    <3>1. PICK i \in turn .. Len(AcModels) :
            Indexed(i) /\ "error" \in Answers(Offset(AcModels[i]))
      BY <1>4, <2>2 DEF ReadAc, ReadAcBlock
    <3>2. AcModels[i] \in ModelIds
      BY PreferenceFacts DEF TypeOK
    <3>3. moved = FALSE /\ up = TRUE
      BY <1>4, <2>2 DEF ReadAc, TroubleInv
    <3>4. Answers(Offset(AcModels[i])) = {AcModels[i]}
      BY <3>1, <3>2, <3>3, RightAnswers DEF Indexed
    <3> QED
      BY <3>1, <3>2, <3>4
  <2>3. pc = "ac"
    BY <1>4 DEF ReadAc
  <2> QED
    BY <2>1, <2>2, <2>3
<1>5. CASE ReadPv \/ ReadLegacy \/ Raise
  BY <1>5 DEF ReadPv, StartScan, ReadLegacy, Raise
<1>6. CASE UNCHANGED vars
  BY <1>6 DEF vars, deviceVars, readVars
<1>7. CASE pc' \notin {"ac", "pv"}
  BY <1>7
<1> QED
  BY <1>1, <1>2, <1>3, <1>4, <1>5, <1>6, <1>7 DEF Next, Request

\* A read that has built its index itself and has no AC values knows that the
\* table has no AC model; a read that ends without a scan of its own has values.
LEMMA NoAcStep ==
  ASSUME TypeOK, StageInv, TroubleInv, CacheInv, ReachInv, FreshInv, NoAcInv,
         [Next]_vars
  PROVE  NoAcInv'
<1> USE DEF NoAcInv
<1>a. ASSUME pc' = pc, ac' = ac, pv' = pv, table' = table, cache' = cache,
             rescanned' = rescanned, trouble' = FALSE => trouble = FALSE
      PROVE  NoAcInv'
  BY <1>a DEF NoAcModel, Fresh, Known
<1>1. CASE DeviceChanges
  <2>1. /\ pc' = pc /\ ac' = ac /\ pv' = pv /\ cache' = cache
        /\ rescanned' = rescanned
        /\ trouble' = FALSE => trouble = FALSE
    BY <1>1 DEF TypeOK, DeviceChanges, readVars
  <2>2. CASE up = TRUE
    <3>1. table' = table
      BY <1>1, <2>2 DEF DeviceChanges
    <3> QED
      BY <1>a, <2>1, <3>1
  <2>3. CASE up = FALSE
    BY <2>1, <2>3 DEF TroubleInv, Fresh
  <2> QED
    BY <2>2, <2>3 DEF TypeOK
<1>2. CASE BeginRead
  BY <1>2 DEF BeginRead, StartScan
<1>3. CASE ReadSignature \/ ReadHeader
  <2>1. CASE pc' \in {"signature", "header", "ac"}
    BY <2>1
  <2>2. CASE pc' \notin {"signature", "header", "ac"}
    <3>1. PICK index \in Index :
            /\ FinishScan(index)
            /\ \/ ReadSignature /\ index = NoModels
               \/ ReadHeader /\ index = found
      BY <1>3, <2>2, ScanEnds
    <3>2. /\ pc' = "legacy" /\ index = NoModels
          /\ table' = table /\ trouble' = trouble
      BY <2>2, <3>1 DEF FinishScan, deviceVars
    <3>3. ASSUME trouble = FALSE, NEW a \in 1 .. Len(table), a <= MaxModels
          PROVE  FALSE
      <4>1. Whole(index)
        BY <3>1, <3>3, ScanIsWhole
      <4>2. table[a] \in ModelIds
        BY TableFacts
      <4> QED
        BY <3>2, <3>3, <4>1, <4>2 DEF Whole, NoModels
    <3> QED
      BY <3>2, <3>3 DEF NoAcModel
  <2> QED
    BY <2>1, <2>2
<1>4. CASE ReadAc
  <2>1. /\ pc = "ac" /\ pc' \in {"ac", "pv"}
        /\ UNCHANGED <<table, cache, rescanned, trouble>>
    BY <1>4 DEF ReadAc, ReadAcBlock, deviceVars, readVars
  <2>2. ASSUME pc' = "pv", ac' = "none", Fresh,
               NEW i \in 1 .. Len(AcModels), NEW a \in 1 .. Len(table),
               a <= MaxModels, table[a] = AcModels[i]
        PROVE  FALSE
    <3>1. \A j \in turn .. Len(AcModels) : ~Indexed(j)
      BY <1>4, <2>2 DEF ReadAc, ReadAcBlock, Origin
    <3>2. turn = 1 /\ cache # None /\ cache[table[a]] # 0
      BY <2>1, <2>2 DEF FreshInv
    <3> QED
      BY <2>2, <3>1, <3>2 DEF Indexed, Offset
  <2> QED
    BY <2>1, <2>2 DEF NoAcModel, Fresh, Known
<1>5. CASE ReadPv
  <2>1. /\ pc = "pv" /\ pc' \in {"signature", "legacy", "idle"}
        /\ UNCHANGED <<table, ac, trouble>> /\ pv' # "legacy"
    BY <1>5 DEF ReadPv, StartScan, deviceVars, PvValues, Origin
  <2>2. pc' = "legacy" /\ ac = "none" /\ trouble = FALSE => Fresh
    BY <1>5 DEF ReadPv, StartScan, NeedsRescan, Fresh, TypeOK
  <2> QED
    BY <2>1, <2>2 DEF NoAcModel
<1>6. CASE ReadLegacy
  BY <1>6 DEF ReadLegacy, deviceVars, NoAcModel
<1>7. CASE Raise
  BY <1>7 DEF Raise
<1>8. CASE UNCHANGED vars
  BY <1>8, <1>a DEF vars, deviceVars, readVars
<1> QED
  BY <1>1, <1>2, <1>3, <1>4, <1>5, <1>6, <1>7, <1>8 DEF Next, Request

LEMMA IInvInductive == IInv /\ [Next]_vars => IInv'
  BY TypeStep, StageStep, TroubleStep, ScanStep, CacheStep, GarbageStep,
     ReachStep, FreshStep, NoAcStep DEF IInv

THEOREM Invariance == Spec => []IInv
  BY InitEstablishesIInv, IInvInductive, PTL DEF Spec

------------------------------------------------------------------------------
(* The theorems *)

\* Type correctness; no scan outruns SUNSPEC_MAX_MODELS_TO_SCAN
\* (_scan_sunspec_model_index).
THEOREM TypeCorrect == Spec => []TypeOK
  BY Invariance, PTL DEF IInv

\* Registers are taken for those of another model only if the table moved since
\* the scan behind the cached index (_scan_sunspec_model_index, _get_model_index,
\* _read_once), whichever requests failed.
THEOREM NoGarbageWithoutMove == Spec => []GarbageOnlyAfterMove
<1>1. IInv => GarbageOnlyAfterMove
  <2> SUFFICES ASSUME IInv PROVE GarbageOnlyAfterMove
    OBVIOUS
  <2>1. ac = "garbage" \/ pv = "garbage" => moved
    BY DEF IInv, TypeOK, GarbageInv
  <2>2. ASSUME moved = FALSE, NEW m \in ModelIds, Offset(m) # 0
        PROVE  Offset(m) <= Len(table) /\ table[Offset(m)] = m
    BY <2>2 DEF IInv, CacheInv, RightFor, Offset
  <2> QED
    BY <2>1, <2>2 DEF GarbageOnlyAfterMove, IInv, TypeOK
<1> QED
  BY <1>1, Invariance, PTL

\* A read of a device that is up ends on the legacy registers alone only if the
\* table has no AC model: the one rescan mends an index whose offsets are stale
\* (_read_once).
THEOREM RescanFindsModels == Spec => []LegacyOnlyWithoutModels
<1>1. IInv => LegacyOnlyWithoutModels
  BY DEF IInv, TypeOK, NoAcInv, NoAcModel, LegacyOnlyWithoutModels
<1> QED
  BY <1>1, Invariance, PTL

------------------------------------------------------------------------------
(* The length of a read *)

\* The requests of the values, of a scan with the values after it, and of the
\* rescan that is still allowed.
AcCost == Len(AcModels) + 4
ScanCost == MaxModels + Len(AcModels) + 5
Again == IF rescanned THEN 0 ELSE ScanCost

LeftAt ==
  /\ pc = "idle" => RequestsLeft = 0
  /\ pc = "signature" => RequestsLeft = ScanCost + Again
  /\ pc = "header" => RequestsLeft = ScanCost - pos + Again
  /\ pc = "ac" => RequestsLeft = AcCost - turn + Again
  /\ pc = "pv" => RequestsLeft = 2 + Again
  /\ pc = "legacy" => RequestsLeft = 1

\* RequestsLeft, request by request.
LEMMA RequestsLeftAt == TypeOK => LeftAt
<1> SUFFICES ASSUME TypeOK PROVE LeftAt
  OBVIOUS
<1> DEFINE values == Len(AcModels) + 3
           scan == MaxModels + 2 + values
           again == IF rescanned THEN 0 ELSE scan
           left == [idle      |-> 0,
                    signature |-> scan + again,
                    header    |-> MaxModels + 2 - pos + values + again,
                    ac        |-> Len(AcModels) + 4 - turn + again,
                    pv        |-> 2 + again,
                    legacy    |-> 1]
<1>1. RequestsLeft = left[pc]
  BY DEF RequestsLeft
<1>2. scan = ScanCost /\ again = Again /\ Again \in Nat
  BY PreferenceFacts DEF ScanCost, Again
<1>3. pos \in Nat /\ turn \in Nat
  BY PreferenceFacts DEF TypeOK
<1> HIDE DEF again
<1>4. MaxModels + 2 - pos + values + again = ScanCost - pos + Again
  BY <1>2, <1>3, PreferenceFacts DEF ScanCost
<1>5. Len(AcModels) + 4 - turn + again = AcCost - turn + Again
  BY <1>2, <1>3, PreferenceFacts DEF AcCost
<1> HIDE DEF scan, values
<1> QED
  BY <1>1, <1>2, <1>4, <1>5 DEF LeftAt

LEMMA RequestsLeftNat == TypeOK => RequestsLeft \in Nat
<1> SUFFICES ASSUME TypeOK PROVE RequestsLeft \in Nat
  OBVIOUS
<1> USE DEF LeftAt
<1>1. /\ Again \in Nat /\ ScanCost \in Nat
      /\ ScanCost = MaxModels + Len(AcModels) + 5
  BY PreferenceFacts DEF Again, ScanCost
<1>2. /\ pos \in Nat /\ turn \in Nat
      /\ pos <= MaxModels + 1 /\ turn <= Len(AcModels) + 1
  BY PreferenceFacts DEF TypeOK
<1>3. pc \in {"idle", "signature", "header", "ac", "pv", "legacy"}
  BY DEF TypeOK
<1>4. CASE pc = "header"
  BY <1>1, <1>2, <1>4, RequestsLeftAt, PreferenceFacts
<1>5. CASE pc = "ac"
  BY <1>1, <1>2, <1>5, RequestsLeftAt, PreferenceFacts DEF AcCost
<1>6. CASE pc \in {"idle", "signature", "pv", "legacy"}
  BY <1>1, <1>6, RequestsLeftAt
<1> QED
  BY <1>3, <1>4, <1>5, <1>6

\* The same after a step.
LEMMA RequestsLeftAfter == TypeOK' => LeftAt' /\ (RequestsLeft \in Nat)'
  BY RequestsLeftAt, RequestsLeftNat, PTL

\* What ends a scan leaves fewer requests than the cheapest scan.
LEMMA FinishScanCost ==
  ASSUME TypeOK, TypeOK', NEW index, FinishScan(index)
  PROVE  RequestsLeft' <= Len(AcModels) + 3 + Again
<1> USE DEF LeftAt
<1>1. /\ pc' \in {"legacy", "ac"} /\ turn' = 1
      /\ rescanned' = rescanned
  BY DEF FinishScan
<1>2. Again' = Again /\ Again \in Nat
  BY <1>1, PreferenceFacts DEF Again, ScanCost
<1>3. CASE pc' = "legacy"
  <2>1. RequestsLeft' = 1
    BY <1>3, RequestsLeftAfter
  <2> QED
    BY <1>2, <2>1, PreferenceFacts
<1>4. CASE pc' = "ac"
  <2>1. RequestsLeft' = AcCost - turn' + Again'
    BY <1>4, RequestsLeftAfter
  <2> QED
    BY <1>1, <1>2, <2>1, PreferenceFacts DEF AcCost
<1> QED
  BY <1>1, <1>3, <1>4

\* Every request leaves fewer.
LEMMA RequestStep ==
  ASSUME TypeOK, TypeOK', StageInv, Request
  PROVE  RequestsLeft' < RequestsLeft
<1> USE DEF LeftAt
<1>a. /\ Again \in Nat /\ ScanCost \in Nat /\ MaxModels \in Nat /\ Len(AcModels) \in Nat
      /\ ScanCost = MaxModels + Len(AcModels) + 5
      /\ AcCost = Len(AcModels) + 4 /\ AcCost \in Nat
  BY PreferenceFacts DEF Again, ScanCost, AcCost
<1>b. pos \in Nat /\ turn \in Nat /\ pos' \in Nat /\ turn' \in Nat
      /\ pos <= MaxModels + 1 /\ turn <= Len(AcModels) + 1
  BY PreferenceFacts DEF TypeOK
<1>c. ASSUME rescanned' = rescanned PROVE Again' = Again
  BY <1>c DEF Again, ScanCost
<1> HIDE ModelsAssumption, TablesAssumption, MaxModelsAssumption,
         EnabledAssumption, NoneAssumption
<1>1. CASE ReadSignature
  <2>1. RequestsLeft = ScanCost + Again
    BY <1>1, RequestsLeftAt DEF ReadSignature
  <2>2. CASE FinishScan(NoModels)
    <3>1. RequestsLeft' <= Len(AcModels) + 3 + Again
      BY <2>2, FinishScanCost
    <3>2. RequestsLeft' \in Nat
      BY RequestsLeftAfter
    <3> QED
      BY <1>a, <2>1, <3>1, <3>2
  <2>3. CASE pc' = "header" /\ UNCHANGED <<scanVars, readVars>>
    <3>1. pos' = pos /\ rescanned' = rescanned
      BY <2>3 DEF scanVars, readVars
    <3>2. RequestsLeft' = ScanCost - pos + Again
      BY <1>c, <2>3, <3>1, RequestsLeftAfter DEF ScanCost
    <3>3. pos >= 1
      BY DEF TypeOK
    <3> QED
      BY <1>a, <1>b, <2>1, <3>2, <3>3
  <2> QED
    BY <1>1, <2>2, <2>3 DEF ReadSignature
<1>2. CASE ReadHeader
  <2>1. RequestsLeft = ScanCost - pos + Again
    BY <1>2, RequestsLeftAt DEF ReadHeader
  <2>2. CASE FinishScan(found)
    <3>1. RequestsLeft' <= Len(AcModels) + 3 + Again
      BY <2>2, FinishScanCost
    <3>2. RequestsLeft' \in Nat
      BY RequestsLeftAfter
    <3> QED
      BY <1>a, <1>b, <2>1, <3>1, <3>2
  <2>3. CASE pos <= MaxModels /\ NextHeader
    <3>1. pc' = "header" /\ pos' = pos + 1 /\ rescanned' = rescanned
      BY <1>2, <2>3 DEF ReadHeader, NextHeader, readVars
    <3>2. RequestsLeft' = ScanCost - pos' + Again
      BY <1>c, <3>1, RequestsLeftAfter DEF ScanCost
    <3>3. pos' > pos
      BY <1>b, <3>1
    <3> QED
      BY <1>a, <1>b, <2>1, <3>2, <3>3, LaterIsLess
  <2> QED
    BY <1>2, <2>2, <2>3 DEF ReadHeader
<1>3. CASE ReadAc
  <2>1. RequestsLeft = AcCost - turn + Again
    BY <1>3, RequestsLeftAt DEF ReadAc
  <2>2. rescanned' = rescanned
    BY <1>3 DEF ReadAc, ReadAcBlock, readVars
  <2>3. CASE pc' = "pv"
    <3>1. RequestsLeft' = 2 + Again
      BY <1>c, <2>2, <2>3, RequestsLeftAfter
    <3> QED
      BY <1>a, <1>b, <2>1, <3>1
  <2>4. CASE pc' = "ac" /\ turn' > turn
    <3>1. RequestsLeft' = AcCost - turn' + Again
      BY <1>c, <2>2, <2>4, RequestsLeftAfter DEF AcCost
    <3>2. AcCost \in Nat /\ Again \in Nat /\ turn \in Nat /\ turn' \in Nat
      BY <1>a, <1>b
    <3> QED
      BY <2>1, <2>4, <3>1, <3>2, LaterIsLess
  <2>5. ASSUME NEW i \in turn .. Len(AcModels), ReadAcBlock(i), pc = "ac"
        PROVE  pc' = "pv" \/ (pc' = "ac" /\ turn' > turn)
    BY <1>b, <2>5 DEF ReadAcBlock
  <2> QED
    BY <1>3, <2>3, <2>4, <2>5 DEF ReadAc
<1>4. CASE ReadPv
  <2>1. RequestsLeft = 2 + Again
    BY <1>4, RequestsLeftAt DEF ReadPv
  <2>2. CASE StartScan /\ rescanned' = TRUE /\ ~rescanned
    <3>1. RequestsLeft' = ScanCost + Again'
      BY <2>2, RequestsLeftAfter DEF StartScan, ScanCost
    <3>2. Again' = 0 /\ Again = ScanCost
      BY <2>2 DEF Again
    <3> QED
      BY <1>a, <2>1, <3>1, <3>2
  <2>3. CASE pc' \in {"legacy", "idle"}
    <3>1. RequestsLeft' \in {0, 1}
      BY <2>3, RequestsLeftAfter
    <3> QED
      BY <1>a, <2>1, <3>1
  <2> QED
    BY <1>4, <2>2, <2>3 DEF ReadPv, NeedsRescan
<1>5. CASE ReadLegacy
  BY <1>5, RequestsLeftAt, RequestsLeftAfter DEF ReadLegacy
<1> QED
  BY <1>1, <1>2, <1>3, <1>4, <1>5 DEF Request

\* Only the start of a read adds requests.
LEMMA OtherStep ==
  ASSUME TypeOK, TypeOK', pc # "idle", DeviceChanges \/ Raise \/ UNCHANGED vars
  PROVE  RequestsLeft' <= RequestsLeft
<1>1. CASE Raise
  <2>1. RequestsLeft' = 0
    BY <1>1, RequestsLeftAfter DEF Raise, LeftAt
  <2>2. RequestsLeft \in Nat
    BY RequestsLeftNat
  <2> QED
    BY <2>1, <2>2
<1>2. CASE UNCHANGED <<pc, scanVars, readVars>>
  <2>1. RequestsLeft' = RequestsLeft
    BY <1>2 DEF RequestsLeft, scanVars, readVars
  <2>2. RequestsLeft \in Nat
    BY RequestsLeftNat
  <2> QED
    BY <2>1, <2>2
<1> QED
  BY <1>1, <1>2 DEF DeviceChanges, vars

\* A read of the inverter ends after boundedly many requests, at most two scans
\* and the values after each, whatever the device answers and however its table
\* moves meanwhile (_read_once, _scan_sunspec_model_index).
THEOREM ReadsTerminate == Spec => ReadsAreBounded
<1>1. ASSUME IInv, IInv', [Next]_vars
      PROVE  [/\ Request => RequestsLeft' < RequestsLeft
              /\ pc # "idle" => RequestsLeft' <= RequestsLeft]_vars
  <2>1. TypeOK /\ TypeOK' /\ StageInv
    BY <1>1 DEF IInv
  <2>2. Request => RequestsLeft' < RequestsLeft
    BY <2>1, RequestStep
  <2>3. ASSUME pc # "idle" PROVE RequestsLeft' <= RequestsLeft
    <3>1. CASE Request
      <4>1. RequestsLeft \in Nat /\ RequestsLeft' \in Nat
        BY <2>1, RequestsLeftNat, RequestsLeftAfter
      <4> QED
        BY <2>2, <3>1, <4>1
    <3>2. CASE DeviceChanges \/ Raise \/ UNCHANGED vars
      BY <2>1, <2>3, <3>2, OtherStep
    <3> QED
      BY <1>1, <2>3, <3>1, <3>2 DEF Next, BeginRead
  <2> QED
    BY <2>2, <2>3
<1> QED
  BY <1>1, Invariance, PTL DEF Spec, ReadsAreBounded

================================================================================
