---------------------------- MODULE MCVtabBridge ----------------------------
(* A table served in blocks and a table function read row by row, of one    *)
(* extension.  Either two statements scan them, or one transaction after    *)
(* another writes to the table while the extension is loaded again.         *)
EXTENDS VtabBridge

CONSTANTS log, series, c1, c2

MCModule == [t \in Tables |->
    [batched |-> t = log, mutable |-> t = log, eponymous |-> t = series]]
MCStoredRows == [t \in Tables |-> IF t = log THEN <<1, 2>> ELSE <<7>>]

VARIABLE program    \* "scan" or "write"

(* Bounds: scanning needs one store and no transaction; the writing program *)
(* uses one table that is there, no bridge that cannot write, and a cursor  *)
(* once it has written.                                                     *)
ProgramBound ==
    /\ program = "scan" => Len(store') <= 1 /\ txn' = "none"
    /\ program = "write" => /\ made' = {log} /\ vtab'[series] = 0 /\ cursor'[c2].phase = "idle"
                            /\ updates' = 0 => cursor'[c1].phase = "idle"
                            /\ dynlink' # 0 => mutating' # 0
                            /\ registry'.next_instance <= 2 /\ registry'.next_cursor <= 2

ProgramInit == Init /\ program \in {"scan", "write"} /\ (program = "write" => made = {log})
ProgramNext == Next /\ ProgramBound /\ UNCHANGED program
ProgramSpec == ProgramInit /\ [][ProgramNext]_<<vars, program>> /\ Fairness
=============================================================================
