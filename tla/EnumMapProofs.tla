---------------------------- MODULE EnumMapProofs ----------------------------
(***************************************************************************)
(* The choice of a CAN id is right for every set of responses.             *)
(***************************************************************************)
EXTENDS EnumMap, LeastElement

\* The map an enumerating node has noted when it has heard the ids H.
noted(H) == {bitOf(id) : id \in H \ {0}}

\* Noting a response is what the name says, whatever the order they come in.
LEMMA NoteIsNoted ==
    ASSUME NEW H \in SUBSET HeaderIds, NEW id \in HeaderIds
    PROVE  noteResponse(noted(H), id) = noted(H \cup {id})
BY DEF noteResponse, noted, HeaderIds

\* The id a bit is read as is noted in that bit, and is a byte.
LEMMA BitOfId ==
    ASSUME NEW bit \in Bits
    PROVE  idOf(bit) \in Nat /\ bitOf(idOf(bit)) = bit
<1>1. PICK i \in 0 .. 15, b \in 0 .. 7 : bit = <<i, b>>
  BY DEF Bits
<1>2. idOf(bit) = i * 16 + b
  BY <1>1 DEF idOf
<1>3. (i * 16 + b) \div 16 = i /\ (i * 16 + b) % 8 = b
  OBVIOUS
<1> QED
  BY <1>1, <1>2, <1>3 DEF bitOf

\* Bit 0 of byte 8 is never noted: a header has no id above 127.
LEMMA Bit128Unused ==
    ASSUME NEW H \in SUBSET HeaderIds
    PROVE  128 \in unusedIds(noted(H))
<1>1. \A id \in HeaderIds : id \div 16 # 8
  BY DEF HeaderIds
<1>2. <<8, 0>> \notin noted(H)
  BY <1>1 DEF noted, bitOf
<1>3. <<8, 0>> \in Bits \ {<<0, 0>>} /\ idOf(<<8, 0>>) = 128
  BY DEF Bits, idOf
<1> QED
  BY <1>2, <1>3 DEF unusedIds

\* check_enumeration() never selects an id that a response was heard from, nor
\* id 0, whichever nodes answer; and the default it starts from is not used.
\* The id can be 128, which a header cannot carry.
THEOREM SelectedIsFree ==
    ASSUME NEW H \in SUBSET HeaderIds
    PROVE  selectedId(noted(H)) \in (1 .. 128) \ H
<1> DEFINE U == unusedIds(noted(H))
<1>1. U \subseteq Nat /\ 0 \notin U
  <2>1. ASSUME NEW bit \in Bits, idOf(bit) = 0
        PROVE  bit = <<0, 0>>
    <3>1. bitOf(0) = <<0, 0>>
      BY DEF bitOf
    <3> QED
      BY <2>1, <3>1, BitOfId
  <2> QED
    BY <2>1, BitOfId DEF unusedIds
<1>2. 128 \in U
  BY Bit128Unused
<1>3. \E x \in U : \A y \in U : x <= y
  BY <1>1, <1>2, LeastNat
<1>4. selectedId(noted(H)) \in U /\ \A y \in U : selectedId(noted(H)) <= y
  BY <1>2, <1>3 DEF selectedId, Min
<1>5. selectedId(noted(H)) \in 1 .. 128
  BY <1>1, <1>2, <1>4
<1>6. ASSUME NEW id \in U, id \in H
      PROVE  FALSE
  <2>1. PICK bit \in Bits \ {<<0, 0>>} : bit \notin noted(H) /\ id = idOf(bit)
    BY DEF unusedIds
  <2>2. bitOf(id) = bit
    BY <2>1, BitOfId
  <2>3. id # 0
    BY <1>1
  <2> QED
    BY <1>6, <2>1, <2>2, <2>3 DEF noted
<1> QED
  BY <1>4, <1>5, <1>6

=============================================================================
