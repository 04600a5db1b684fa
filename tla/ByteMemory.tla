----------------------------- MODULE ByteMemory -----------------------------
(***************************************************************************)
(* What the configuration of a node expects of the memory it is kept in,    *)
(* of whatever kind: that writes are done in the order they are asked for,  *)
(* each changes the bytes it names and no others, and what is written stays.*)
(* Only a loss of power while a write is under way may harm other bytes:    *)
(* those the memory has put at risk, which are blank afterwards, or not.    *)
(***************************************************************************)
EXTENDS Integers, Sequences

CONSTANTS
    Addr,      \* the addresses
    Byte,      \* what a byte can hold
    Blank,     \* the byte of an erased cell
    Block      \* Block[a]: the cells that can only be erased together with a

VARIABLES
    mem,       \* the bytes
    todo,      \* the writes that are asked for and not done
    atRisk     \* the cells a loss of power may blank

vars == <<mem, todo, atRisk>>

Writes == [addr : Addr, data : Seq(Byte)]

Init == mem \in [Addr -> Byte] /\ todo = <<>> /\ atRisk = {}

Ask ==
    /\ todo = <<>>
    /\ todo' \in Seq(Writes)
    /\ UNCHANGED <<mem, atRisk>>

\* The first of the writes asked for, or as much of it as is done at once.
Write ==
    /\ todo # <<>> /\ atRisk = {}
    /\ LET w == Head(todo)
       IN  \E n \in 1 .. Len(w.data) :
             /\ mem' = [a \in Addr |-> IF a \in w.addr .. w.addr + n - 1
                                      THEN w.data[a - w.addr + 1] ELSE mem[a]]
             /\ todo' = (IF n = Len(w.data) THEN <<>>
                         ELSE <<[addr |-> w.addr + n, data |-> SubSeq(w.data, n + 1, Len(w.data))]>>)
                        \o Tail(todo)
             /\ atRisk' \in {{}, Block[w.addr]}

Settle == atRisk # {} /\ atRisk' = {} /\ UNCHANGED <<mem, todo>>

PowerLoss ==
    /\ mem' \in [Addr -> Byte]
    /\ \A a \in Addr : mem'[a] = mem[a] \/ (a \in atRisk /\ mem'[a] = Blank)
    /\ todo' = <<>>
    /\ atRisk' = {}

Next == Ask \/ Write \/ Settle \/ PowerLoss

Spec == Init /\ [][Next]_vars

=============================================================================
