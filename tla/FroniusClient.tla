----------------------------- MODULE FroniusClient -----------------------------
(****************************************************************************)
(* FroniusClient._read_once: one poll of the inverter, one Modbus request   *)
(* per action.  The device keeps a table of SunSpec models; the client      *)
(* scans it once, caches where each model starts, reads the AC values from  *)
(* the model it likes best and the PV values from model 160, and falls back *)
(* to fixed legacy registers.  The table may move when the device restarts, *)
(* and nothing in a block of registers says which model it belongs to.      *)
(*                                                                          *)
(* The table is a sequence of model ids and an address is a position in it. *)
(* A decoded block is abstracted to where its registers came from.          *)
(****************************************************************************)
EXTENDS Naturals, Sequences

CONSTANTS
  ModelIds,         \* the SunSpec model ids a device may have
  AcModels,         \* those with AC values by preference: 113, 103, 111, 101
  Tables,           \* the tables it may have, before and after restarts
  MaxModels,        \* SUNSPEC_MAX_MODELS_TO_SCAN
  Model160Enabled,  \* fronius.sunspec_model_160_enabled
  None              \* _model_index_cache before the first scan

PvModel == "160"

ASSUME ModelsAssumption ==
  /\ AcModels \in Seq(ModelIds) /\ PvModel \in ModelIds
  /\ "error" \notin ModelIds /\ "filler" \notin ModelIds
ASSUME TablesAssumption == Tables \subseteq Seq(ModelIds)
ASSUME MaxModelsAssumption == MaxModels \in Nat
ASSUME EnabledAssumption == Model160Enabled \in BOOLEAN
ASSUME NoneAssumption == None \notin [ModelIds -> Nat]

VARIABLES
  table,        \* the device's model table; <<>> where it serves none
  up,           \* the device answers every request
  pc,           \* the next request of _read_once
  pos,          \* header_addr of the scan in progress
  found,        \* models of the scan in progress; 0 for an id not met
  cache,        \* _model_index_cache
  turn,         \* how far down the order of preference the read has come
  rescanned,    \* this read has begun its rescan
  ac,           \* inverter_ac, by origin of its registers
  pv,           \* model_data or the legacy values, by origin
  moved,        \* history: the table moved since the scan behind cache began
  scanMoved,    \* history: the table moved since the scan in progress began
  trouble       \* history: the device was not up all through this read

deviceVars == <<table, up>>
scanVars == <<pos, found>>
readVars == <<turn, rescanned, ac, pv>>
vars == <<deviceVars, pc, scanVars, cache, readVars, moved, scanMoved, trouble>>

Index == [ModelIds -> 0 .. MaxModels]
NoModels == [m \in ModelIds |-> 0]

TypeOK ==
  /\ table \in Tables
  /\ up \in BOOLEAN
  /\ pc \in {"idle", "signature", "header", "ac", "pv", "legacy"}
  /\ pos \in 1 .. MaxModels + 1
  /\ found \in Index
  /\ cache \in Index \cup {None}
  /\ turn \in 1 .. Len(AcModels) + 1
  /\ rescanned \in BOOLEAN
  /\ ac \in {"none", "right", "garbage"}
  /\ pv \in {"none", "right", "garbage", "legacy"}
  /\ moved \in BOOLEAN /\ scanMoved \in BOOLEAN /\ trouble \in BOOLEAN

Init ==
  /\ table \in Tables
  /\ up \in BOOLEAN
  /\ pc = "idle"
  /\ pos = 1
  /\ found = NoModels
  /\ cache = None
  /\ turn = 1
  /\ rescanned = FALSE
  /\ ac = "none" /\ pv = "none"
  /\ moved = FALSE /\ scanMoved = FALSE /\ trouble = FALSE

------------------------------------------------------------------------------
(* The device *)

Scanning == pc \in {"signature", "header"}

\* A restart or a fault; a table moves only while the device is not up.
DeviceChanges ==
  /\ up' \in BOOLEAN
  /\ table' \in IF up THEN {table} ELSE Tables
  /\ moved' = (moved \/ table' # table)
  /\ scanMoved' = (scanMoved \/ (Scanning /\ table' # table))
  /\ trouble' = (trouble \/ ~up')
  /\ UNCHANGED <<pc, scanVars, cache, readVars>>

\* What a request for the model at an address may return: the registers of the
\* model that is there now, or past the end of the table an error or filler.
Answers(a) ==
  (IF a \in 1 .. Len(table) THEN {table[a]} ELSE {"error", "filler"})
    \cup (IF up THEN {} ELSE {"error"})

Origin(answer, m) == IF answer = m THEN "right" ELSE "garbage"

------------------------------------------------------------------------------
(* The scan *)

\* `if self._model_index_cache`: neither None nor an empty index is true.
Known == cache # None /\ cache # NoModels

\* The start of a model in the cached index, 0 where it has none.
Offset(m) == IF cache = None THEN 0 ELSE cache[m]

StartScan ==
  /\ pc' = "signature"
  /\ pos' = 1
  /\ found' = NoModels
  /\ scanMoved' = FALSE

\* The scan returns, and its local variables are gone.
EndScan == pos' = 1 /\ found' = NoModels /\ scanMoved' = FALSE

\* _read_once begins; _get_model_index scans unless it has an index.
BeginReadIfNone ==
  /\ pc = "idle"
  /\ ac' = "none" /\ pv' = "none"
  /\ trouble' = ~up
  /\ IF cache # None
       THEN pc' = "ac" /\ UNCHANGED <<scanVars, scanMoved>>
       ELSE StartScan
  /\ UNCHANGED <<deviceVars, cache, turn, rescanned, moved>>

BeginRead ==
  /\ pc = "idle"
  /\ ac' = "none" /\ pv' = "none"
  /\ trouble' = ~up
  /\ IF Known
       THEN pc' = "ac" /\ UNCHANGED <<scanVars, scanMoved>>
       ELSE StartScan
  /\ UNCHANGED <<deviceVars, cache, turn, rescanned, moved>>

\* A rescan whose result is not taken over.
FinishScanForgetting(index) ==
  /\ pc' = IF rescanned /\ index = NoModels THEN "legacy" ELSE "ac"
  /\ turn' = 1
  /\ IF rescanned
       THEN UNCHANGED <<cache, moved>>
       ELSE cache' = index /\ moved' = scanMoved
  /\ EndScan
  /\ UNCHANGED <<deviceVars, rescanned, ac, pv, trouble>>

\* The first scan is cached whatever it found; a rescan that found nothing is
\* dropped, and the read goes on with the legacy registers.
FinishScan(index) ==
  /\ pc' = IF rescanned /\ index = NoModels THEN "legacy" ELSE "ac"
  /\ turn' = 1
  /\ IF rescanned /\ index = NoModels
       THEN UNCHANGED <<cache, moved>>
       ELSE cache' = index /\ moved' = scanMoved
  /\ EndScan
  /\ UNCHANGED <<deviceVars, rescanned, ac, pv, trouble>>

\* "SunS" at one of the two base registers, or no table.
ReadSignature ==
  /\ pc = "signature"
  /\ \/ /\ table # <<>>
        /\ pc' = "header"
        /\ UNCHANGED <<deviceVars, scanVars, cache, readVars, moved, scanMoved, trouble>>
     \/ /\ table = <<>> \/ ~up
        /\ FinishScan(NoModels)

\* The id and length in the next header.  Where the table moved under the scan,
\* the address may also lie within a model, on words no id of interest is found
\* in; the scan steps over them.
NextHeader ==
  /\ pos <= Len(table)
  /\ \/ found' = [found EXCEPT ![table[pos]] = pos]
     \/ scanMoved /\ UNCHANGED found
  /\ pos' = pos + 1
  /\ UNCHANGED <<deviceVars, pc, cache, readVars, moved, scanMoved, trouble>>

\* A scan that takes the address of the header for that of the model.
ReadHeaderOffByOne ==
  /\ pc = "header"
  /\ \/ /\ pos <= MaxModels /\ pos <= Len(table)
        /\ found' = [found EXCEPT ![table[pos]] = pos - 1]
        /\ pos' = pos + 1
        /\ UNCHANGED <<deviceVars, pc, cache, readVars, moved, scanMoved, trouble>>
     \/ pos > Len(table) /\ FinishScan(found)

\* A scan that follows the table to its end.
ReadHeaderUnbounded ==
  /\ pc = "header"
  /\ NextHeader \/ (pos > Len(table) /\ FinishScan(found))

\* An end mark, a header without length, an error, or the last header the loop
\* allows ends the scan with what has been found.
ReadHeader ==
  /\ pc = "header"
  /\ \/ pos <= MaxModels /\ NextHeader
     \/ pos > MaxModels /\ FinishScan(found)
     \/ (pos > Len(table) \/ ~up \/ scanMoved) /\ FinishScan(found)

------------------------------------------------------------------------------
(* The values *)

\* The block of the i-th AC model is read; an error leaves it to the next one.
ReadAcBlock(i) ==
  /\ \E answer \in Answers(Offset(AcModels[i])) :
       IF answer = "error"
         THEN turn' = i + 1 /\ UNCHANGED <<pc, ac>>
         ELSE /\ ac' = Origin(answer, AcModels[i])
              /\ pc' = "pv"
              /\ UNCHANGED turn
  /\ UNCHANGED <<deviceVars, scanVars, cache, rescanned, pv, moved, scanMoved, trouble>>

Indexed(i) == Offset(AcModels[i]) # 0

\* _read_sunspec_inverter_ac_power
ReadAc ==
  /\ pc = "ac"
  /\ \/ \E i \in turn .. Len(AcModels) :
          /\ Indexed(i)
          /\ \A j \in turn .. i - 1 : ~Indexed(j)
          /\ ReadAcBlock(i)
     \/ /\ \A i \in turn .. Len(AcModels) : ~Indexed(i)
        /\ pc' = "pv"
        /\ UNCHANGED <<deviceVars, scanVars, cache, readVars, moved, scanMoved, trouble>>

\* _read_sunspec_model_160 gives up on an error, and on scale factors out of
\* range whatever block they come from.
PvValues ==
  IF Model160Enabled /\ Offset(PvModel) # 0
    THEN {"none"} \cup
         {Origin(answer, PvModel) : answer \in Answers(Offset(PvModel)) \ {"error"}}
    ELSE {"none"}

NeedsRescanAgain == Known /\ ac = "none"
NeedsRescan == Known /\ ac = "none" /\ ~rescanned

\* PV values from model 160 end the read.  Without them it rescans, once and
\* only if it has no AC values either, or goes on to the legacy registers.
ReadPv ==
  /\ pc = "pv"
  /\ pv' \in PvValues
  /\ IF pv' = "none" /\ NeedsRescan
       THEN StartScan /\ rescanned' = TRUE
       ELSE /\ pc' = IF pv' = "none" THEN "legacy" ELSE "idle"
            /\ rescanned' = FALSE
            /\ UNCHANGED <<scanVars, scanMoved>>
  /\ turn' = 1
  /\ UNCHANGED <<deviceVars, cache, ac, moved, trouble>>

\* The legacy registers, zero where a request fails.
ReadLegacy ==
  /\ pc = "legacy"
  /\ pv' = "legacy"
  /\ pc' = "idle"
  /\ rescanned' = FALSE
  /\ UNCHANGED <<deviceVars, scanVars, cache, turn, ac, moved, scanMoved, trouble>>

\* A request raises: the session drops the read, and with it its values.
Raise ==
  /\ pc # "idle"
  /\ ~up
  /\ pc' = "idle"
  /\ turn' = 1 /\ rescanned' = FALSE /\ ac' = "none" /\ pv' = "none"
  /\ EndScan
  /\ UNCHANGED <<deviceVars, cache, moved, trouble>>

Request == ReadSignature \/ ReadHeader \/ ReadAc \/ ReadPv \/ ReadLegacy

Next == DeviceChanges \/ BeginRead \/ Request \/ Raise

Spec == Init /\ [][Next]_vars

\* The refresh thread polls again and again, and a request ends by its timeout.
\* No fairness of the device.
LiveSpec == Spec /\ WF_vars(BeginRead) /\ WF_vars(Request)

------------------------------------------------------------------------------
(* Properties *)

\* Registers are decoded as those of another model only if the table has moved
\* since the scan that found them: no scan, however it ends, makes an index
\* that is wrong about the table it read.
GarbageOnlyAfterMove ==
  /\ ac = "garbage" \/ pv = "garbage" => moved
  /\ ~moved => \A m \in ModelIds :
       Offset(m) # 0 => Offset(m) <= Len(table) /\ table[Offset(m)] = m

\* A read of a device that was up all along, cached offsets stale or not, ends
\* without one SunSpec value only if the table has no AC model within the part
\* a scan reaches.
LegacyOnlyWithoutModels ==
  pc = "idle" /\ ac = "none" /\ pv = "legacy" /\ ~trouble =>
    \A i \in 1 .. Len(AcModels), a \in 1 .. Len(table) :
      a <= MaxModels => table[a] # AcModels[i]

\* The requests that a read has left at most: it may have to scan again, and
\* every scan is followed by the values.  The signature is one request, at one
\* base register or the other, and so are the legacy registers.
RequestsLeft ==
  LET values == Len(AcModels) + 3
      scan == MaxModels + 2 + values
      again == IF rescanned THEN 0 ELSE scan
  IN [idle      |-> 0,
      signature |-> scan + again,
      header    |-> MaxModels + 2 - pos + values + again,
      ac        |-> Len(AcModels) + 4 - turn + again,
      pv        |-> 2 + again,
      legacy    |-> 1][pc]

\* A read takes boundedly many requests whatever they return: each one, answered
\* or not, brings its end closer, and nothing the device does meanwhile, its
\* table moving under the scan included, puts it off.
ReadsAreBounded ==
  [][/\ Request => RequestsLeft' < RequestsLeft
     /\ pc # "idle" => RequestsLeft' <= RequestsLeft]_vars

\* An empty index is not cached for good: on a device that stays up with a table
\* there is an index at last, and it is never given up again.
EmptyIndexIsTemporary == <>[](up /\ table # <<>>) => <>[]Known

\* Every read ends once the device stays up.
ReadsEnd == <>[]up => []<>(pc = "idle")

------------------------------------------------------------------------------
(* What the code does not do *)

\* "If cached SunSpec model offsets become invalid (firmware restart/map shift),
\* force one rescan": a table that moved between two scans, never under one, is
\* not decoded as the old one for ever.
MovedTableIsRescanned ==
  []~scanMoved /\ <>[]up => <>[](pc = "idle" => ac # "garbage" /\ pv # "garbage")

================================================================================
