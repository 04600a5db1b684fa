------------------------------ MODULE EnumMap -------------------------------
(***************************************************************************)
(* The bit map in which an enumerating node notes the CAN ids it hears, and *)
(* the choice of its new id from it: process() and check_enumeration() of   *)
(* MLCBbase.  The map is the set of its bits that are 1, <<byte, bit>>.     *)
(* Sixteen bytes are meant as 128 bits, one per CAN id; the byte is indexed *)
(* by id / 16 and the bit by id % 8.                                        *)
(***************************************************************************)
EXTENDS Integers, FiniteSetsExt

\* The ids that a CAN header can carry.
HeaderIds == 0 .. 127

Bits == (0 .. 15) \X (0 .. 7)

\* The bit of one responder's id.
bitOf(id) == <<id \div 16, id % 8>>

\* The map after a response; id 0 is not noted.
noteResponse(responses, id) ==
    IF id > 0 THEN responses \cup {bitOf(id)} ELSE responses

\* The id a bit stands for when the map is searched.
idOf(bit) == bit[1] * 16 + bit[2]

\* The first bit of the first byte is skipped.
unusedIds(responses) == {idOf(bit) : bit \in (Bits \ {<<0, 0>>}) \ responses}

\* The id the search selects; 1 if there is none.
selectedId(responses) ==
    IF unusedIds(responses) = {} THEN 1 ELSE Min(unusedIds(responses))

=============================================================================
