---------------------------- MODULE BudgetPersist ----------------------------
(***************************************************************************)
(* budget.dat: CBudgetDB::Write and CBudgetDB::Read and DumpBudgets of     *)
(* src/src/masternode-budget.cpp, across crashes and restarts of one node. *)
(*                                                                         *)
(* The in-memory budget is abstracted to the finalized budgets it holds    *)
(* (mem); proposals are written,                                          *)
(* read and pruned the same way and add nothing the properties tell        *)
(* apart.  The file is a record: its kind (absent, ours, another           *)
(* network's, or readable but in an older format), its size, the budgets   *)
(* its payload holds and the payload its trailing checksum was computed    *)
(* over; Hash is collision-free, so a checksum names the payload.         *)
(* Sizes count a header unit for the two magics, one unit per budget and   *)
(* SumLen units for the uint256 checksum.                                  *)
(***************************************************************************)
EXTENDS BudgetCommon, FiniteSets, Functions

CONSTANTS
    Finals,       \* finalized budget hashes
    FStart,       \* f -> nBlockStart
    FPay,         \* f -> payments
    HeadLen,      \* size of the magic message and network magic
    SumLen,       \* sizeof(uint256)
    StartHeight,
    MaxHeight

\* The trailing checksum is {p} when it is Hash of payload p, and {} when
\* the bytes read as a checksum are none (a truncated payload).
NoSum == {}

Kinds == {"none", "ours", "foreign", "oldformat"}

Results == {"Ok", "FileError", "HashReadError", "IncorrectHash",
            "IncorrectMagicNumber", "IncorrectFormat"}

File == [kind : Kinds, size : Nat, data : SUBSET Finals, sum : SUBSET SUBSET Finals]

VARIABLES
    up,        \* the node process is running
    tip,       \* chainActive.Height()
    mem,       \* the keys of budget.mapFinalizedBudgets
    file,      \* budget.dat
    lastRead,  \* [result, dataSize] of the latest CBudgetDB::Read
    snap       \* the budgets of the latest completed Write

vars == <<up, tip, mem, file, lastRead, snap>>

\* The finalized-budget loop of CBudgetManager::CheckAndRemove at tip h.
Prune(fs, h) == {f \in fs : FinalizedIsValid(FStart[f], FPay[f], h)}

\* CBudgetDB::Write of the budgets m: magics, payload, Hash of all that.
WriteImage(m) ==
    [kind |-> "ours", size |-> HeadLen + Cardinality(m) + SumLen, data |-> m, sum |-> {m}]

\* Mutant of ReadFile: the stored checksum is not compared.
ReadFileNoChecksum(fl) ==
    LET dataSize == IF fl.size - SumLen < 0 THEN 0 ELSE fl.size - SumLen IN
    [dataSize |-> dataSize,
     result |-> CASE fl.kind = "none"      -> "FileError"
                  [] fl.size < SumLen      -> "HashReadError"
                  [] fl.kind = "foreign"   -> "IncorrectMagicNumber"
                  [] fl.kind = "oldformat" -> "IncorrectFormat"
                  [] OTHER                 -> "Ok"]

\* Mutant of ReadFile: a file shorter than a checksum gives a negative
\* data size (the clamp to 0 is missing).
ReadFileNoClamp(fl) ==
    LET dataSize == fl.size - SumLen IN
    [dataSize |-> dataSize,
     result |-> CASE fl.kind = "none"      -> "FileError"
                  [] fl.size < SumLen      -> "HashReadError"
                  [] fl.sum # {fl.data}    -> "IncorrectHash"
                  [] fl.kind = "foreign"   -> "IncorrectMagicNumber"
                  [] fl.kind = "oldformat" -> "IncorrectFormat"
                  [] OTHER                 -> "Ok"]

\* CBudgetDB::Read up to the CheckAndRemove of the loaded object: fopen
\* fails on a missing file; dataSize = fileSize - sizeof(uint256), clamped
\* to 0; reading the checksum past the end throws; the checksum of the
\* payload is compared; then the magic message and the network magic are
\* checked and the managers deserialized.
ReadFile(fl) ==
    LET dataSize == IF fl.size - SumLen < 0 THEN 0 ELSE fl.size - SumLen IN
    [dataSize |-> dataSize,
     result |-> CASE fl.kind = "none"      -> "FileError"
                  [] fl.size < SumLen      -> "HashReadError"
                  [] fl.sum # {fl.data}    -> "IncorrectHash"
                  [] fl.kind = "foreign"   -> "IncorrectMagicNumber"
                  [] fl.kind = "oldformat" -> "IncorrectFormat"
                  [] OTHER                 -> "Ok"]

\* What DumpBudgets does after reading: write on Ok, a missing file or an
\* unreadable format; leave any other file for the operator to fix.
DumpWrites(r) == r \in {"Ok", "FileError", "IncorrectFormat"}

\* The files a Write of m that stops early leaves: fopen "wb" truncated
\* the file, and only a prefix of the stream reached it.
TornImages(m) ==
    {[kind |-> "ours", size |-> s, data |-> {}, sum |-> NoSum] :
        s \in 0..(WriteImage(m).size - 1)}

Init ==
    /\ up = TRUE
    /\ tip = StartHeight
    /\ mem = {}
    /\ file \in {[kind |-> k, size |-> HeadLen + SumLen, data |-> {}, sum |-> {{}}] :
                    k \in {"foreign", "oldformat"}}
                \cup {[kind |-> "none", size |-> 0, data |-> {}, sum |-> {{}}]}
    /\ lastRead = [result |-> "FileError", dataSize |-> 0]
    /\ snap = {}

\* Mutant of Loaded: the loaded object is not cleaned of expired budgets.
LoadedNoClean(r, fl, h) == IF r.result = "Ok" THEN fl.data ELSE {}

\* The budgets a Read leaves in the loaded object: on Ok, CheckAndRemove
\* at the tip erases the invalid ones; every error returns before the
\* managers are filled (the format error calls Clear() on what it read).
Loaded(r, fl, h) == IF r.result = "Ok" THEN Prune(fl.data, h) ELSE {}

\* A finalized budget valid at the tip is added by the "fbs" handler
\* (its seen map and rate limit are modelled in BudgetNode).
RecvFinal(f) ==
    /\ up
    /\ f \notin mem
    /\ FinalizedIsValid(FStart[f], FPay[f], tip)
    /\ mem' = mem \cup {f}
    /\ UNCHANGED <<up, tip, file, lastRead, snap>>

\* A block is connected and NewBlock runs CheckAndRemove: invalid budgets
\* are erased (AutoCheck and the rest of NewBlock are modelled in
\* BudgetNode).
NewBlock ==
    /\ up
    /\ tip < MaxHeight
    /\ tip' = tip + 1
    /\ mem' = Prune(mem, tip + 1)
    /\ UNCHANGED <<up, file, lastRead, snap>>

\* DumpBudgets: Read budget.dat into a temporary manager (whose
\* CheckAndRemove prunes the loaded copies),
\* then, unless the file is foreign or corrupt, Write the live budget.
\* The Write either completes, fails to open the file (which fopen then
\* leaves as it was), throws after truncating it, or the process dies
\* while writing.
DumpBudgets ==
    LET r    == ReadFile(file)
        temp == Loaded(r, file, tip)
    IN  /\ up
        /\ lastRead' = r
        /\ IF DumpWrites(r.result)
           THEN \/ /\ file' = WriteImage(mem)
                   /\ snap' = mem
                   /\ UNCHANGED <<up, mem>>
                \/ /\ UNCHANGED <<file, snap, up, mem>>
                \/ /\ file' \in TornImages(mem)
                   /\ UNCHANGED <<snap, up, mem>>
                \/ /\ file' \in TornImages(mem)
                   /\ up' = FALSE /\ mem' = {}
                   /\ UNCHANGED snap
           ELSE UNCHANGED <<file, snap, up, mem>>
        /\ UNCHANGED tip

\* The process stops; everything in memory is lost.
Crash ==
    /\ up
    /\ up' = FALSE /\ mem' = {}
    /\ UNCHANGED <<tip, file, lastRead, snap>>

\* The process starts and loads budget.dat into the live manager, whose
\* CheckAndRemove prunes what it keeps; a failed Read leaves it empty.
Restart ==
    LET r == ReadFile(file) IN
    /\ ~up
    /\ up' = TRUE
    /\ lastRead' = r
    /\ mem' = Loaded(r, file, tip)
    /\ UNCHANGED <<tip, file, snap>>

\* A byte of the payload of our file changes on disk.
Corrupt ==
    /\ file.kind = "ours" /\ file.sum # NoSum
    /\ \E d \in SUBSET Finals \ {file.data} : file' = [file EXCEPT !.data = d]
    /\ UNCHANGED <<up, tip, mem, lastRead, snap>>

Next ==
    \/ \E f \in Finals : RecvFinal(f)
    \/ NewBlock
    \/ DumpBudgets
    \/ Crash
    \/ Restart
    \/ Corrupt

Spec == Init /\ [][Next]_vars

----------------------------------------------------------------------------
\* Type invariant; the data size Read computes is never negative.
TypeOK ==
    /\ up \in BOOLEAN
    /\ tip \in StartHeight..MaxHeight
    /\ mem \in SUBSET Finals
    /\ file \in File
    /\ lastRead \in [result : Results, dataSize : Nat]
    /\ snap \in SUBSET Finals

\* The node never holds a finalized budget that is invalid at its tip,
\* also right after a restart loaded budgets dumped at a lower tip.
HeldValid == \A f \in mem : FinalizedIsValid(FStart[f], FPay[f], tip)

\* A restart restores exactly the budgets of the last completed dump that
\* are still valid, or nothing: a torn, corrupted or foreign budget.dat
\* never puts other budgets into the live manager.
LoadRestoresLastDump ==
    [][(~up /\ up') => mem' \in {Prune(snap, tip), {}}]_vars
=============================================================================
