------------------------------ MODULE VtabScan ------------------------------
(***************************************************************************)
(* What a cursor over a virtual table promises to the statement that reads  *)
(* it: the rows the table has when the scan starts, each once and in order. *)
(* A scan that cannot go on fails.  It is cut short, its last rows missing  *)
(* without an error, only after the component behind the table failed to    *)
(* answer (hurt).                                                           *)
(***************************************************************************)
EXTENDS Naturals, Sequences

CONSTANTS Cursors, Tables

VARIABLES
    table,      \* table[t]: the rows of t, as far as its writers were told
    scan        \* scan[c]: the scan of cursor c

scanVars == <<table, scan>>

NoScan == [on |-> FALSE, over |-> FALSE, want |-> <<>>, got |-> <<>>, hurt |-> FALSE]

ScanInit ==
    /\ table \in [Tables -> Seq(Nat)]
    /\ scan = [c \in Cursors |-> NoScan]

(* Writers insert and undo; a table is connected to another component.      *)
Write == table' \in [Tables -> Seq(Nat)] /\ UNCHANGED scan

Start(c) ==
    \E t \in Tables, h \in BOOLEAN :
        scan' = [scan EXCEPT ![c] =
                    [on |-> TRUE, over |-> FALSE, want |-> table[t], got |-> <<>>, hurt |-> h]]

Deliver(c) ==
    LET n == Len(scan[c].got) + 1 IN
    /\ scan[c].on /\ ~scan[c].over /\ n <= Len(scan[c].want)
    /\ scan' = [scan EXCEPT ![c].got = Append(@, scan[c].want[n])]

Hurt(c) == scan[c].on /\ scan' = [scan EXCEPT ![c].hurt = TRUE]

(* The answer that ends the scan may be the one that was not given.         *)
Finish(c) ==
    \E h \in BOOLEAN :
        /\ scan[c].on /\ ~scan[c].over
        /\ scan[c].got = scan[c].want \/ h
        /\ scan' = [scan EXCEPT ![c].over = TRUE, ![c].hurt = h]

(* The statement fails, or is done with the cursor.                         *)
Stop(c) == scan' = [scan EXCEPT ![c] = NoScan]

ScanNext ==
    \/ Write
    \/ \E c \in Cursors :
          /\ Start(c) \/ Deliver(c) \/ Hurt(c) \/ Finish(c) \/ Stop(c)
          /\ UNCHANGED table

ScanSpec == ScanInit /\ [][ScanNext]_scanVars
=============================================================================
