-------------------------- MODULE DatasetRegistry --------------------------
(***************************************************************************)
(* The dataset registry of services/market-data/registry.py, with the      *)
(* routes of apps/api/routes/datasets.py, and the bars a backtest service  *)
(* holds in memory.  One dataset is modelled, in several versions.  A      *)
(* registered record DECLARES a checksum, a bar count, a timeframe and     *)
(* symbols; the bars themselves are registered separately, so the two may  *)
(* disagree.  A checksum is the content it is computed from (SHA-256 is    *)
(* taken to be injective).  The store lives in memory (its default path).  *)
(***************************************************************************)
EXTENDS Naturals, Sequences, FiniteSets, SequencesExt

CONSTANTS
    Versions,         \* the versions of the dataset
    Contents,         \* the lists of bars that may be registered
    CountOf,          \* [Contents -> Nat]: how many bars a list has
    TimeframeOf,      \* [Contents -> Timeframes]: the timeframe its bars carry
    SymbolsOf,        \* [Contents -> SUBSET Symbols]: the symbols it has bars of
    FlawsOf,          \* [Contents -> SUBSET BarFlaws]: what is wrong with its bars
    Declarations,     \* [Versions -> set of declared contents of a record]
    Loads,            \* the <<bars, version or None>> a process may register
    MaxEdits,         \* bound: registry and bar changes per life of the process
    None              \* no record, no bars, no version

\* What the per-bar validation looks for.
BarFlaws == {"timestamp", "duplicate", "price", "ohlc", "volume"}

ASSUME ContentsAssumption ==
    /\ CountOf \in [Contents -> Nat]
    /\ FlawsOf \in [Contents -> SUBSET BarFlaws]
    /\ Loads \subseteq Contents \X (Versions \cup {None})
    /\ None \notin Contents \cup Versions

\* The records that may be registered for some version.
Declared == UNION {Declarations[v] : v \in Versions}
Records == [declared : Declared, quality : {"VALID", "CORRUPTED"}]

ASSUME RecordAssumption == None \notin Records

VARIABLES
    registry,   \* [Versions -> record or None]: the rows of table datasets
    latest,     \* the version updated last, or None
    bars,       \* [Versions \cup {None} -> Contents or None]: bars by version, and by id alone
    edits       \* bound: changes made since the process started

registryVars == <<registry, latest, bars, edits>>

NoRegistry ==
    /\ registry = [v \in Versions |-> None]
    /\ latest = None
    /\ bars = [k \in Versions \cup {None} |-> None]
    /\ edits = 0

RegistryInit == NoRegistry

\* The record of a version, and of the version updated last.
GetDataset(v) ==
    IF v # None THEN registry[v]
    ELSE IF latest = None THEN None
    ELSE registry[latest]

Edit == edits < MaxEdits /\ edits' = edits + 1

\* register_dataset: a new version is inserted; an existing one is refused
\* when its content differs, else its quality status is REPLACED by that of
\* the request, which the route always leaves VALID.
Register(v, declared) ==
    /\ Edit
    /\ \/ registry[v] = None
       \/ registry[v] # None /\ registry[v].declared = declared
    /\ registry' = [registry EXCEPT ![v] = [declared |-> declared, quality |-> "VALID"]]
    /\ latest' = v
    /\ UNCHANGED bars

\* quarantine_dataset: the latest version when none is named.
Quarantine(v) ==
    /\ Edit
    /\ GetDataset(v) # None
    /\ LET u == IF v # None THEN v ELSE latest IN
       /\ registry' = [registry EXCEPT ![u].quality = "CORRUPTED"]
       /\ latest' = u
    /\ UNCHANGED bars

\* register_dataset_bars: under the id alone always, under the version if given.
RegisterBars(c, v) ==
    /\ Edit
    /\ bars' = [bars EXCEPT ![None] = c, ![v] = c]
    /\ UNCHANGED <<registry, latest>>

\* The bars a job of version v runs on: the version's, else those registered
\* last under the id, whatever version they are.
BarsFor(v) == IF bars[v] # None THEN bars[v] ELSE bars[None]

RegistryNext ==
    \/ \E v \in Versions : \E d \in Declarations[v] : Register(v, d)
    \/ \E v \in Versions \cup {None} : Quarantine(v)
    \/ \E load \in Loads : RegisterBars(load[1], load[2])

=============================================================================
