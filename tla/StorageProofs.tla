---------------------------- MODULE StorageProofs ----------------------------
(***************************************************************************)
(* Proofs about Storage, for both kinds of memory and any number and size   *)
(* of pages, node variables and events.                                     *)
(***************************************************************************)
EXTENDS Storage, SequenceTheorems, TLAPS

Mem == [Addr -> Byte]
PageBytes == [0 .. FLASH_PAGE_SIZE - 1 -> Byte]

Config == [FLiM : BOOLEAN, CANID : Byte, nodeNum : Word]

\* What a call sets in RAM with one of its writes.
Rams == {nothing} \cup [FLiM : BOOLEAN] \cup [CANID : Byte] \cup [nodeNum : Word]

Writes == [addr : Addr, data : Seq(Byte) \ {<<>>}, ram : Rams]

\* No write leaves the memory, and on flash none crosses the end of a page.
Legal(w) ==
    /\ w \in Writes
    /\ w.addr + Len(w.data) <= Size
    /\ Flash => (w.addr % FLASH_PAGE_SIZE) + Len(w.data) <= FLASH_PAGE_SIZE

\* An event never lies across the end of a page: see storage_cross for the others.
EventsFit ==
    "EEPROM_USES_FLASH" \in EepromTypes =>
        \A idx \in 0 .. EE_MAX_EVENTS - 1 : (eventAddr(idx) % FLASH_PAGE_SIZE) + 4 <= FLASH_PAGE_SIZE

-----------------------------------------------------------------------------
(* The inductive invariant.                                                 *)

Types ==
    /\ eeprom_type \in EepromTypes
    /\ rom \in Mem /\ cache_page \in PageBytes /\ curr_page_num \in Pages
    /\ writeback \in [at : {"idle", "filled", "erased"}, page : Pages]
    /\ config \in Config /\ resetting \in BOOLEAN
    /\ todo \in Seq(Writes) /\ \A k \in DOMAIN todo : Legal(todo[k])

\* What the copy in RAM holds: before a write-back the page with the new bytes, and
\* outside of one the page it is taken for, except while whole pages are being erased.
CacheTrue ==
    /\ Internal => idle
    /\ writeback.at = "filled" =>
         /\ todo # <<>>
         /\ writeback.page = newPage(Head(todo))
         /\ ~wholePage(Head(todo)) => curr_page_num = newPage(Head(todo))
         /\ cache_page = overlaid(pageOf(rom, newPage(Head(todo))),
                                  Head(todo).addr % FLASH_PAGE_SIZE, Head(todo).data)
         /\ \A x \in DOMAIN Head(todo).ram : config[x] = Head(todo).ram[x]
    /\ Flash /\ writeback.at # "filled" /\ (todo # <<>> => ~wholePage(Head(todo))) =>
         cache_page = pageOf(stored, curr_page_num)

\* The write of resetModule that erases byte a, and how many are done.
erasedBy(a) == IF Internal THEN a - 9 ELSE (a \div FLASH_PAGE_SIZE) + 1
done == Len(resetModule) - Len(todo)

\* A reset that has come this far has erased and cleared what its writes so far say.
ResetOnItsWay ==
    resetting =>
      /\ Len(todo) <= Len(resetModule)
      /\ \A k \in DOMAIN todo : todo[k] = resetModule[done + k]
      /\ done <= Len(erased) + 5 =>
           \A a \in Addr : erasedBy(a) <= done /\ (a >= 10 \/ (Flash /\ done <= Len(erased))) =>
              stored[a] = BLANK
      /\ done <= Len(erased) + 5 =>
           \A i \in 0 .. 3 : done >= Len(erased) + 1 + i => stored[i] = 0

\* The other calls write the identity byte by byte, clear the reset flag, or write
\* behind both.
Ordinary(w) ==
    /\ Len(w.data) <= 4
    /\ \/ w.addr \in 0 .. 3 /\ Len(w.data) = 1
       \/ w.addr = 5 /\ w.data = <<0>>
       \/ w.addr >= 9

\* The bytes of the identity when the running call is done are id; those already written
\* are there, and RAM agrees with id in all that the call will not set any more.
IdentityComing(id) ==
    /\ \A a \in 0 .. 3 :
         /\ \A k \in DOMAIN todo : todo[k].addr = a => todo[k].data = <<id[a]>>
         /\ (\A k \in DOMAIN todo : todo[k].addr # a) => stored[a] = id[a]
    /\ \A x \in {"FLiM", "CANID", "nodeNum"} :
         /\ \A k \in DOMAIN todo : x \in DOMAIN todo[k].ram => todo[k].ram[x] = loadNVs(id)[x]
         /\ (\A k \in DOMAIN todo : x \notin DOMAIN todo[k].ram) => config[x] = loadNVs(id)[x]
    /\ \A k \in DOMAIN todo :
         todo[k].addr = 0 /\ todo[k].data = <<1>> =>
           /\ numberIn(id) # 0
           /\ \A j \in DOMAIN todo : j > k => todo[j].addr \notin {2, 3}

CallOnItsWay ==
    ~resetting =>
      /\ \A k \in DOMAIN todo : Ordinary(todo[k])
      /\ \E id \in [0 .. 3 -> Byte] : IdentityComing(id)

IInv == Types /\ CacheTrue /\ ResetOnItsWay /\ CallOnItsWay

-----------------------------------------------------------------------------
(* Pages and bytes.                                                         *)

\* What the assumptions say of the sizes of the memory.
LEMMA Sizes ==
    /\ FLASH_PAGE_SIZE \in Nat /\ FLASH_PAGE_SIZE > 4 /\ NUM_FLASH_PAGES \in Nat /\ NUM_FLASH_PAGES > 0
    /\ Size \in Nat /\ Size >= 10 /\ Size = NUM_FLASH_PAGES * FLASH_PAGE_SIZE
    /\ 0 \in Pages
<1>1. /\ FLASH_PAGE_SIZE \in Nat /\ FLASH_PAGE_SIZE > 4 /\ NUM_FLASH_PAGES \in Nat /\ NUM_FLASH_PAGES > 0
  BY StorageAssumption
<1>2. Size \in Nat /\ Size = NUM_FLASH_PAGES * FLASH_PAGE_SIZE
  BY <1>1 DEF Size
<1>3. EE_MAX_EVENTS \in Nat /\ EE_NUM_EVS \in Nat /\ EE_NUM_NVS \in Nat /\ EE_NVS_START \in Nat /\ EE_EVENTS_START \in Nat
  BY StorageAssumption
<1>4. EE_MAX_EVENTS * EE_BYTES_PER_EVENT \in Nat
  BY <1>3 DEF EE_BYTES_PER_EVENT
<1>5. /\ 10 <= EE_NVS_START
      /\ EE_NVS_START + EE_NUM_NVS <= EE_EVENTS_START
      /\ EE_EVENTS_START + EE_MAX_EVENTS * EE_BYTES_PER_EVENT <= Size
  BY StorageAssumption
<1>6. Size >= 10
  BY <1>2, <1>3, <1>4, <1>5
<1> QED
  BY <1>1, <1>2, <1>6 DEF Pages

\* Every address is in one page, at one place.
LEMMA PageOfAddr ==
    ASSUME NEW a \in Addr
    PROVE  /\ a \in Nat /\ a \div FLASH_PAGE_SIZE \in Pages
           /\ a % FLASH_PAGE_SIZE \in 0 .. FLASH_PAGE_SIZE - 1
           /\ a = pageStart(a \div FLASH_PAGE_SIZE) + (a % FLASH_PAGE_SIZE)
<1>1. a \in Nat /\ a <= NUM_FLASH_PAGES * FLASH_PAGE_SIZE - 1
  BY Sizes DEF Addr
<1>2. /\ a \div FLASH_PAGE_SIZE \in Nat /\ a % FLASH_PAGE_SIZE \in 0 .. FLASH_PAGE_SIZE - 1
      /\ a = (a \div FLASH_PAGE_SIZE) * FLASH_PAGE_SIZE + (a % FLASH_PAGE_SIZE)
  BY <1>1, Sizes
<1>3. a \div FLASH_PAGE_SIZE <= NUM_FLASH_PAGES - 1
  BY <1>1, Sizes
<1> QED
  BY <1>1, <1>2, <1>3, Sizes DEF Pages, pageStart

\* A place in a page is an address, and the other way round.
LEMMA AddrOfPage ==
    ASSUME NEW page \in Pages, NEW i \in 0 .. FLASH_PAGE_SIZE - 1
    PROVE  /\ pageStart(page) + i \in Addr
           /\ (pageStart(page) + i) \div FLASH_PAGE_SIZE = page
           /\ (pageStart(page) + i) % FLASH_PAGE_SIZE = i
<1>1. page \in Nat /\ page <= NUM_FLASH_PAGES - 1
  BY Sizes DEF Pages
<1>2. page * FLASH_PAGE_SIZE + FLASH_PAGE_SIZE <= NUM_FLASH_PAGES * FLASH_PAGE_SIZE
  BY <1>1, Sizes
<1>3. page * FLASH_PAGE_SIZE \in Nat
  BY <1>1, Sizes
<1>4. (page * FLASH_PAGE_SIZE + i) \div FLASH_PAGE_SIZE = page
  BY <1>1, Sizes
<1>5. (page * FLASH_PAGE_SIZE + i) % FLASH_PAGE_SIZE = i
  BY <1>1, Sizes
<1> QED
  BY <1>2, <1>3, <1>4, <1>5, Sizes DEF pageStart, Addr

\* What is read of a page is bytes of a page.
LEMMA PageBytesOf ==
    ASSUME NEW bytes \in Mem, NEW page \in Pages
    PROVE  /\ pageOf(bytes, page) \in PageBytes
           /\ blankPage \in PageBytes
BY AddrOfPage DEF pageOf, PageBytes, blankPage, BLANK, Byte, Mem

\* Pages with equal bytes are equal.
LEMMA SamePage ==
    ASSUME NEW x \in PageBytes, NEW y \in PageBytes,
           \A i \in 0 .. FLASH_PAGE_SIZE - 1 : x[i] = y[i]
    PROVE  x = y
<1>1. /\ x = [i \in 0 .. FLASH_PAGE_SIZE - 1 |-> x[i]]
      /\ y = [i \in 0 .. FLASH_PAGE_SIZE - 1 |-> y[i]]
  BY DEF PageBytes
<1>2. [i \in 0 .. FLASH_PAGE_SIZE - 1 |-> x[i]] = [i \in 0 .. FLASH_PAGE_SIZE - 1 |-> y[i]]
  OBVIOUS
<1> QED
  BY <1>1, <1>2, Zenon

\* Programming a page changes its bytes and no others.
LEMMA Programmed ==
    ASSUME NEW bytes \in Mem, NEW page \in Pages, NEW new \in PageBytes
    PROVE  /\ programmed(bytes, page, new) \in Mem
           /\ \A a \in Addr : programmed(bytes, page, new)[a] =
                 IF a \div FLASH_PAGE_SIZE = page THEN new[a % FLASH_PAGE_SIZE] ELSE bytes[a]
           /\ pageOf(programmed(bytes, page, new), page) = new
<1>1. /\ programmed(bytes, page, new) \in Mem
      /\ \A a \in Addr : programmed(bytes, page, new)[a] =
            IF a \div FLASH_PAGE_SIZE = page THEN new[a % FLASH_PAGE_SIZE] ELSE bytes[a]
  BY PageOfAddr DEF programmed, Mem, PageBytes
<1>2. ASSUME NEW i \in 0 .. FLASH_PAGE_SIZE - 1
      PROVE  pageOf(programmed(bytes, page, new), page)[i] = new[i]
  BY <1>1, AddrOfPage DEF pageOf
<1>3. pageOf(programmed(bytes, page, new), page) = new
  BY <1>2 DEF pageOf, PageBytes
<1> QED
  BY <1>1, <1>3

\* The bytes of a page with those of a write that fits into it.
LEMMA Overlaid ==
    ASSUME NEW bytes \in PageBytes, NEW off \in Nat, NEW data \in Seq(Byte)
    PROVE  /\ overlaid(bytes, off, data) \in PageBytes
           /\ \A i \in 0 .. FLASH_PAGE_SIZE - 1 : overlaid(bytes, off, data)[i] =
                 IF i \in off .. off + Len(data) - 1 THEN data[i - off + 1] ELSE bytes[i]
<1>1. DOMAIN bytes = 0 .. FLASH_PAGE_SIZE - 1 /\ Len(data) \in Nat
  BY DEF PageBytes
<1>2. ASSUME NEW i \in 0 .. FLASH_PAGE_SIZE - 1, i \in off .. off + Len(data) - 1
      PROVE  data[i - off + 1] \in Byte
  <2>1. i - off + 1 \in 1 .. Len(data)
    BY <1>1, <1>2, Sizes
  <2> QED
    BY <2>1
<1> QED
  BY <1>1, <1>2 DEF overlaid, PageBytes

\* What is written, in place or through a page, are the bytes of the write and no others.
LEMMA WrittenThroughPage ==
    ASSUME NEW bytes \in Mem, NEW w, Legal(w), Flash
    PROVE  LET page == newPage(w)
               new == programmed(bytes, page,
                          overlaid(pageOf(bytes, page), w.addr % FLASH_PAGE_SIZE, w.data))
           IN  /\ page \in Pages
               /\ new \in Mem
               /\ \A a \in Addr : new[a] =
                     IF a \in w.addr .. w.addr + Len(w.data) - 1 THEN w.data[a - w.addr + 1]
                     ELSE bytes[a]
<1> DEFINE page == newPage(w)
           off == w.addr % FLASH_PAGE_SIZE
           copy == overlaid(pageOf(bytes, page), off, w.data)
           new == programmed(bytes, page, copy)
<1>1. w.addr \in Addr /\ w.data \in Seq(Byte) /\ Len(w.data) \in Nat /\ off + Len(w.data) <= FLASH_PAGE_SIZE
  BY DEF Legal, Writes
<1>2. page \in Pages /\ off \in 0 .. FLASH_PAGE_SIZE - 1 /\ w.addr = pageStart(page) + off /\ off \in Nat
  BY <1>1, PageOfAddr, Sizes DEF newPage
<1>3. pageOf(bytes, page) \in PageBytes
  BY <1>2, PageBytesOf
<1>4. copy \in PageBytes
  BY <1>1, <1>2, <1>3, Overlaid
<1>5. new \in Mem
  BY <1>2, <1>4, Programmed
<1>6. ASSUME NEW a \in Addr
      PROVE  new[a] = IF a \in w.addr .. w.addr + Len(w.data) - 1 THEN w.data[a - w.addr + 1] ELSE bytes[a]
  <2> DEFINE i == a % FLASH_PAGE_SIZE
  <2>1. /\ a \div FLASH_PAGE_SIZE \in Pages /\ i \in 0 .. FLASH_PAGE_SIZE - 1
        /\ a = pageStart(a \div FLASH_PAGE_SIZE) + i
    BY PageOfAddr
  <2>2. pageStart(page) \in Nat
    BY <1>2, Sizes DEF Pages, pageStart
  <2>3. CASE a \div FLASH_PAGE_SIZE = page
    <3>1. new[a] = copy[i]
      BY <1>2, <1>4, <2>3, Programmed
    <3>2. copy[i] = IF i \in off .. off + Len(w.data) - 1 THEN w.data[i - off + 1] ELSE pageOf(bytes, page)[i]
      BY <1>1, <1>2, <1>3, <2>1, Overlaid
    <3>3. pageOf(bytes, page)[i] = bytes[a]
      BY <2>1, <2>3 DEF pageOf
    <3>4. a - w.addr = i - off /\ (a \in w.addr .. w.addr + Len(w.data) - 1 <=> i \in off .. off + Len(w.data) - 1)
      <4> DEFINE start == pageStart(page)
                 len == Len(w.data)
                 from == w.addr
      <4>1. a = start + i /\ from = start + off
        BY <1>2, <2>1, <2>3
      <4>2. start \in Nat /\ i \in Nat /\ off \in Nat /\ len \in Nat
        BY <1>1, <1>2, <2>1, <2>2, Sizes
      <4> HIDE DEF start, i, off, len, from
      <4>3. a - from = i - off /\ (a \in from .. from + len - 1 <=> i \in off .. off + len - 1)
        BY <4>1, <4>2
      <4> QED
        BY <4>3 DEF len, from
    <3> QED
      BY <3>1, <3>2, <3>3, <3>4
  <2>4. CASE a \div FLASH_PAGE_SIZE # page
    <3>1. new[a] = bytes[a]
      BY <1>2, <1>4, <2>4, Programmed
    <3>2. ASSUME a \in w.addr .. w.addr + Len(w.data) - 1
          PROVE  FALSE
      <4>1. a - pageStart(page) \in 0 .. FLASH_PAGE_SIZE - 1
        <5> DEFINE start == pageStart(page)
                   len == Len(w.data)
                   from == w.addr
        <5>1. from = start + off /\ off + len <= FLASH_PAGE_SIZE /\ a \in from .. from + len - 1
          BY <1>1, <1>2, <3>2
        <5>2. start \in Nat /\ off \in Nat /\ len \in Nat /\ FLASH_PAGE_SIZE \in Nat
          BY <1>1, <1>2, <2>2, Sizes
        <5> HIDE DEF start, off, len, from
        <5>3. a - start \in 0 .. FLASH_PAGE_SIZE - 1
          BY <5>1, <5>2
        <5> QED
          BY <5>3 DEF start
      <4>2. a = pageStart(page) + (a - pageStart(page))
        <5>1. a \in Nat
          BY PageOfAddr
        <5> HIDE DEF page
        <5> QED
          BY <2>2, <5>1
      <4> QED
        BY <1>2, <2>4, <4>1, <4>2, AddrOfPage
    <3> QED
      BY <3>1, <3>2
  <2> QED
    BY <2>3, <2>4
<1> QED
  BY <1>2, <1>5, <1>6

-----------------------------------------------------------------------------
(* The writes that calls are made of.                                       *)

\* Two sequences one after the other.
LEMMA Joined ==
    ASSUME NEW S, NEW s, NEW t, NEW u, s \in Seq(S), t \in Seq(S), u = s \o t
    PROVE  /\ u \in Seq(S)
           /\ Len(s) \in Nat /\ Len(t) \in Nat
           /\ Len(u) = Len(s) + Len(t)
           /\ \A k \in 1 .. Len(s) + Len(t) : u[k] = IF k <= Len(s) THEN s[k] ELSE t[k - Len(s)]
<1>1. s \o t \in Seq(S) /\ Len(s) \in Nat /\ Len(t) \in Nat /\ Len(s \o t) = Len(s) + Len(t)
  OBVIOUS
<1>2. ASSUME NEW k \in 1 .. Len(s) + Len(t)
      PROVE  (s \o t)[k] = IF k <= Len(s) THEN s[k] ELSE t[k - Len(s)]
  OBVIOUS
<1> QED
  BY <1>1, <1>2

\* A function on 1 .. n is a sequence.
LEMMA FunctionIsSeq ==
    ASSUME NEW S, NEW n \in Nat, NEW f \in [1 .. n -> S]
    PROVE  f \in Seq(S) /\ Len(f) = n
<1>1. f \in Seq(S)
  BY SeqDef
<1>2. Len(f) \in Nat /\ 1 .. Len(f) = 1 .. n
  BY <1>1, LenProperties
<1> QED
  BY <1>1, <1>2

\* A sequence with an element is not empty.
LEMMA NotEmpty ==
    ASSUME NEW s, Len(s) >= 1
    PROVE  s # <<>>
<1>1. ASSUME s = <<>>
      PROVE  FALSE
  <2>1. Len(s) = 0
    BY <1>1
  <2> QED
    BY <2>1
<1> QED
  BY <1>1

\* Two writes, one after the other.
LEMMA PairJoined ==
    ASSUME NEW a, NEW b
    PROVE  <<a>> \o <<b>> = <<a, b>>
<1> DEFINE s == <<a>> \o <<b>>
           t == <<a, b>>
<1>1. s \in Seq({a, b}) /\ t \in Seq({a, b}) /\ Len(s) = 2 /\ Len(t) = 2
  OBVIOUS
<1>2. s[1] = t[1] /\ s[2] = t[2]
  OBVIOUS
<1> HIDE DEF s, t
<1>3. \A k \in 1 .. Len(s) : s[k] = t[k]
  BY <1>1, <1>2
<1>4. s = t
  BY <1>1, <1>3, SeqEqual
<1> QED
  BY <1>4 DEF s, t

\* A write of one byte crosses no page.
LEMMA OneByte ==
    ASSUME NEW addr \in Addr, NEW byte \in Byte, NEW ram \in Rams
    PROVE  /\ [addr |-> addr, data |-> <<byte>>, ram |-> ram] \in Writes
           /\ Legal([addr |-> addr, data |-> <<byte>>, ram |-> ram])
<1>1. [addr |-> addr, data |-> <<byte>>, ram |-> ram] \in Writes
  BY DEF Writes
<1>2. addr + 1 <= Size /\ (addr % FLASH_PAGE_SIZE) + 1 <= FLASH_PAGE_SIZE
  BY PageOfAddr, Sizes DEF Addr
<1> QED
  BY <1>1, <1>2 DEF Legal

\* writeEEPROM is one such write.
LEMMA WriteOneByte ==
    ASSUME NEW addr \in Addr, NEW byte \in Byte
    PROVE  /\ writeEEPROM(addr, byte) = <<[addr |-> addr, data |-> <<byte>>, ram |-> nothing]>>
           /\ writeEEPROM(addr, byte) \in Seq(Writes)
           /\ Legal(writeEEPROM(addr, byte)[1])
<1>1. nothing \in Rams
  BY DEF Rams
<1> QED
  BY <1>1, OneByte DEF writeEEPROM, bytesAt

LastWord == 65535

\* Words are the numbers of two bytes.
LEMMA WordUpTo == \A n : n \in Word <=> n \in Nat /\ n <= LastWord
<1>1. Word = 0 .. LastWord
  BY DEF Word, LastWord
<1>2. LastWord \in Nat
  BY SMT DEF LastWord
<1> QED
  BY <1>1, <1>2

\* Both bytes of a word are bytes.
LEMMA WordBytes ==
    /\ \A n \in Nat : n <= LastWord => n \div 256 <= 255
    /\ \A n \in Nat : n <= 255 * 256 + 255 => n <= LastWord
BY SMT DEF LastWord

\* The number of a node without one is a word.
LEMMA ZeroWord == 0 \in Word
<1>1. LastWord \in Nat
  BY SMT DEF LastWord
<1> QED
  BY <1>1, WordUpTo

\* The two bytes of a node number.
LEMMA NumberBytes ==
    ASSUME NEW nn \in Word
    PROVE  /\ highByte(nn) \in Byte /\ lowByte(nn) \in Byte
           /\ highByte(nn) * 256 + lowByte(nn) = nn
<1>1. nn \in Nat /\ nn \div 256 <= 255
  BY WordUpTo, WordBytes
<1> QED
  BY <1>1 DEF highByte, lowByte, Byte

\* loadNVs reads a configuration off any four bytes.
LEMMA IdentityBytes ==
    ASSUME NEW id \in [0 .. 3 -> Byte]
    PROVE  /\ loadNVs(id) \in Config /\ numberIn(id) \in Word
           /\ loadNVs(id).FLiM = (id[0] # 0) /\ loadNVs(id).CANID = id[1]
           /\ loadNVs(id).nodeNum = numberIn(id)
<1>1. id[0] \in Byte /\ id[1] \in Byte /\ id[2] \in Byte /\ id[3] \in Byte
  OBVIOUS
<1>2. id[2] \in Nat /\ id[3] \in Nat /\ id[2] <= 255 /\ id[3] <= 255
  BY <1>1 DEF Byte
<1>3. id[2] * 256 + id[3] \in Word
  <2> DEFINE b == id[2]
             c == id[3]
  <2>1. b \in Nat /\ c \in Nat /\ b <= 255 /\ c <= 255
    BY <1>2
  <2> HIDE DEF b, c
  <2>2. b * 256 + c \in Nat /\ b * 256 + c <= 255 * 256 + 255
    BY <2>1
  <2>3. b * 256 + c \in Word
    BY <2>2, WordBytes, WordUpTo
  <2> QED
    BY <2>3 DEF b, c
<1> QED
  BY <1>1, <1>3 DEF loadNVs, Config, numberIn

\* The identity and the reset flag lie in the memory, before the NVs.
LEMMA LowAddresses ==
    /\ \A a \in 0 .. 9 : a \in Addr
    /\ 0 \in Byte /\ 1 \in Byte /\ 99 \in Byte /\ BLANK \in Byte
    /\ EE_NVS_START \in Nat /\ EE_NUM_NVS \in Nat /\ EE_EVENTS_START \in Nat
    /\ EE_MAX_EVENTS \in Nat /\ EE_NUM_EVS \in Nat
    /\ EE_NVS_START >= 10
BY Sizes, StorageAssumption DEF Addr, Byte, BLANK

\* setFLiM, setCANID and setNodeNum write out.
LEMMA IdentityWrites ==
    ASSUME NEW f \in BOOLEAN, NEW canid \in Byte, NEW nn \in Word
    PROVE  /\ setFLiM(f) = <<[addr |-> 0, data |-> <<IF f THEN 1 ELSE 0>>, ram |-> [FLiM |-> f]]>>
           /\ setCANID(canid) = <<[addr |-> 1, data |-> <<canid>>, ram |-> [CANID |-> canid]]>>
           /\ setNodeNum(nn) = <<[addr |-> 2, data |-> <<highByte(nn)>>, ram |-> [nodeNum |-> nn]],
                                 [addr |-> 3, data |-> <<lowByte(nn)>>, ram |-> nothing]>>
           /\ setFLiM(f) \in Seq(Writes) /\ setCANID(canid) \in Seq(Writes) /\ setNodeNum(nn) \in Seq(Writes)
           /\ \A k \in 1 .. 2 : Legal(setNodeNum(nn)[k])
           /\ Legal(setFLiM(f)[1]) /\ Legal(setCANID(canid)[1])
<1>1. [FLiM |-> f] \in Rams /\ [CANID |-> canid] \in Rams /\ [nodeNum |-> nn] \in Rams /\ nothing \in Rams
  BY DEF Rams
<1>2. setFLiM(f) = <<[addr |-> 0, data |-> <<IF f THEN 1 ELSE 0>>, ram |-> [FLiM |-> f]]>>
  BY DEF setFLiM, with, writeEEPROM, bytesAt
<1>3. setCANID(canid) = <<[addr |-> 1, data |-> <<canid>>, ram |-> [CANID |-> canid]]>>
  BY DEF setCANID, with, writeEEPROM, bytesAt
<1>4. setNodeNum(nn) = <<[addr |-> 2, data |-> <<highByte(nn)>>, ram |-> [nodeNum |-> nn]],
                         [addr |-> 3, data |-> <<lowByte(nn)>>, ram |-> nothing]>>
  <2> DEFINE a == [addr |-> 2, data |-> <<highByte(nn)>>, ram |-> nothing]
             b == [addr |-> 3, data |-> <<lowByte(nn)>>, ram |-> nothing]
             ram == [nodeNum |-> nn]
  <2>1. <<a>> \o <<b>> = <<a, b>>
    BY PairJoined
  <2>2. setNodeNum(nn) = [<<a, b>> EXCEPT ![1] = [a EXCEPT !.ram = ram]]
    <3>1. setNodeNum(nn) = with(ram, <<a>> \o <<b>>)
      BY DEF setNodeNum, writeEEPROM, bytesAt
    <3>2. setNodeNum(nn) = with(ram, <<a, b>>)
      BY <2>1, <3>1
    <3> HIDE DEF a, b, ram
    <3> QED
      BY <3>2 DEF with
  <2>3. [a EXCEPT !.ram = ram] = [addr |-> 2, data |-> <<highByte(nn)>>, ram |-> ram]
    <3> HIDE DEF ram
    <3> QED
      OBVIOUS
  <2>4. setNodeNum(nn) = <<[a EXCEPT !.ram = ram], b>>
    <3> HIDE DEF a, b, ram
    <3> QED
      BY <2>2
  <2> QED
    BY <2>3, <2>4
<1>5. (IF f THEN 1 ELSE 0) \in Byte /\ highByte(nn) \in Byte /\ lowByte(nn) \in Byte
  BY NumberBytes DEF Byte
<1> QED
  BY <1>1, <1>2, <1>3, <1>4, <1>5, OneByte, LowAddresses

\* Where node variables and events are.  NVSET lets index 0 pass.
LEMMA Addresses ==
    /\ \A idx \in 0 .. EE_NUM_NVS :
         EE_NVS_START + (idx - 1) \in Addr /\ EE_NVS_START + (idx - 1) >= 9
    /\ \A idx \in 0 .. EE_MAX_EVENTS - 1 :
         /\ eventAddr(idx) \in Addr /\ eventAddr(idx) >= 10 /\ eventAddr(idx) + 4 <= Size
         /\ \A evnum \in 1 .. EE_NUM_EVS :
              eventAddr(idx) + 3 + evnum \in Addr /\ eventAddr(idx) + 3 + evnum >= 10
<1> DEFINE B == EE_BYTES_PER_EVENT
           M == EE_MAX_EVENTS
<1>1. /\ EE_NVS_START \in Nat /\ EE_NUM_NVS \in Nat /\ EE_EVENTS_START \in Nat /\ M \in Nat
      /\ EE_NUM_EVS \in Nat /\ EE_NVS_START >= 10 /\ Size \in Nat
      /\ B \in Nat /\ B = EE_NUM_EVS + 4
  BY LowAddresses, Sizes DEF EE_BYTES_PER_EVENT
<1>2. EE_NVS_START + EE_NUM_NVS <= EE_EVENTS_START /\ EE_EVENTS_START + M * B <= Size
  BY StorageAssumption
<1>3. M * B \in Nat
  BY <1>1
<1>4. ASSUME NEW idx \in 0 .. EE_NUM_NVS
      PROVE  EE_NVS_START + (idx - 1) \in Addr /\ EE_NVS_START + (idx - 1) >= 9
  <2>1. EE_EVENTS_START <= Size
    BY <1>1, <1>2, <1>3
  <2>2. EE_NVS_START + (idx - 1) \in Nat /\ EE_NVS_START + (idx - 1) <= Size - 1 /\ EE_NVS_START + (idx - 1) >= 9
    BY <1>1, <1>2, <2>1
  <2> QED
    BY <1>1, <2>2 DEF Addr
<1>5. ASSUME NEW idx \in 0 .. EE_MAX_EVENTS - 1
      PROVE  /\ eventAddr(idx) \in Addr /\ eventAddr(idx) >= 10 /\ eventAddr(idx) + 4 <= Size
             /\ \A evnum \in 1 .. EE_NUM_EVS :
                  eventAddr(idx) + 3 + evnum \in Addr /\ eventAddr(idx) + 3 + evnum >= 10
  <2>1. idx \in Nat /\ idx * B \in Nat /\ idx * B + B <= M * B
    <3> HIDE DEF B, M
    <3>1. idx \in Nat /\ idx <= M - 1
      BY <1>1 DEF M
    <3> QED
      BY <1>1, <3>1
  <2>2. eventAddr(idx) = EE_EVENTS_START + idx * B
    BY DEF eventAddr
  <2> DEFINE e == eventAddr(idx)
             p == idx * B
             q == M * B
  <2>3. e \in Nat /\ e >= 10 /\ e + B <= Size
    <3>1. e = EE_EVENTS_START + p /\ p + B <= q /\ p \in Nat /\ q \in Nat /\ EE_EVENTS_START + q <= Size
      BY <1>2, <1>3, <2>1, <2>2
    <3> HIDE DEF e, p, q, B
    <3> QED
      BY <1>1, <1>2, <3>1
  <2> HIDE DEF e, B
  <2>4. e \in Addr /\ e + 4 <= Size
    BY <1>1, <2>3 DEF Addr
  <2>5. \A evnum \in 1 .. EE_NUM_EVS : e + 3 + evnum \in Addr /\ e + 3 + evnum >= 10
    BY <1>1, <2>3 DEF Addr
  <2> QED
    BY <2>3, <2>4, <2>5 DEF e
<1> QED
  BY <1>4, <1>5

\* writeEvent is one write, which crosses no page.
LEMMA EventWrites ==
    ASSUME EventsFit, eeprom_type \in EepromTypes, NEW idx \in 0 .. EE_MAX_EVENTS - 1,
           NEW data \in [1 .. 4 -> Byte]
    PROVE  /\ writeEvent(idx, data) = <<[addr |-> eventAddr(idx), data |-> data, ram |-> nothing]>>
           /\ writeEvent(idx, data) \in Seq(Writes)
           /\ Legal([addr |-> eventAddr(idx), data |-> data, ram |-> nothing])
           /\ Len(data) <= 4
<1>1. data \in Seq(Byte) /\ Len(data) = 4 /\ data # <<>>
  <2>1. data \in Seq(Byte) /\ Len(data) = 4
    BY FunctionIsSeq
  <2>2. ASSUME data = <<>>
        PROVE  FALSE
    <3>1. Len(data) = 0
      BY <2>2
    <3> QED
      BY <2>1, <3>1
  <2> QED
    BY <2>1, <2>2
<1>2. nothing \in Rams
  BY DEF Rams
<1>3. eventAddr(idx) \in Addr /\ eventAddr(idx) + 4 <= Size
  BY Addresses
<1>4. [addr |-> eventAddr(idx), data |-> data, ram |-> nothing] \in Writes
  BY <1>1, <1>2, <1>3 DEF Writes
<1>5. Flash => (eventAddr(idx) % FLASH_PAGE_SIZE) + 4 <= FLASH_PAGE_SIZE
  BY DEF Flash, EventsFit
<1> QED
  <2>1. writeEvent(idx, data) = <<[addr |-> eventAddr(idx), data |-> data, ram |-> nothing]>>
    BY DEF writeEvent, bytesAt
  <2> DEFINE w == [addr |-> eventAddr(idx), data |-> data, ram |-> nothing]
  <2>2. w.addr = eventAddr(idx) /\ w.data = data
    OBVIOUS
  <2> HIDE DEF w
  <2>4. w \in Writes
    BY <1>4 DEF w
  <2>3. Legal(w)
    BY <1>1, <1>3, <1>5, <2>2, <2>4 DEF Legal
  <2>5. <<w>> \in Seq(Writes)
    BY <2>4
  <2> QED
    BY <1>1, <2>1, <2>3, <2>5 DEF w

\* The writes that erase all behind the tenth byte, or every page.
LEMMA Erased ==
    ASSUME eeprom_type \in EepromTypes
    PROVE  /\ erased \in Seq(Writes)
           /\ \A k \in 1 .. Len(erased) : Legal(erased[k])
           /\ Internal => /\ Len(erased) = Size - 10
                          /\ \A k \in 1 .. Len(erased) :
                               erased[k] = [addr |-> 9 + k, data |-> <<BLANK>>, ram |-> nothing]
           /\ Flash => /\ Len(erased) = NUM_FLASH_PAGES
                       /\ \A k \in 1 .. Len(erased) :
                            /\ erased[k] = [addr |-> pageStart(k - 1), ram |-> nothing,
                                            data |-> [i \in 1 .. FLASH_PAGE_SIZE |-> BLANK]]
                            /\ newPage(erased[k]) = k - 1
           /\ Internal \/ Flash
<1>1. nothing \in Rams
  BY DEF Rams
<1>2. (Internal \/ Flash) /\ ~(Internal /\ Flash)
  BY StorageAssumption DEF Internal, Flash
<1>3. CASE Internal
  <2>1. erased = [k \in 1 .. Size - 10 |-> [addr |-> 9 + k, data |-> <<BLANK>>, ram |-> nothing]]
    BY <1>3 DEF erased, Internal, writeEEPROM, bytesAt
  <2>2. \A k \in 1 .. Size - 10 : 9 + k \in Addr
    BY Sizes DEF Addr
  <2>3. \A k \in 1 .. Size - 10 : /\ [addr |-> 9 + k, data |-> <<BLANK>>, ram |-> nothing] \in Writes
                                  /\ Legal([addr |-> 9 + k, data |-> <<BLANK>>, ram |-> nothing])
    BY <1>1, <2>2, OneByte, LowAddresses
  <2>4. Size - 10 \in Nat
    BY Sizes
  <2>5. erased \in Seq(Writes) /\ Len(erased) = Size - 10
    <3> DEFINE W(k) == [addr |-> 9 + k, data |-> <<BLANK>>, ram |-> nothing]
    <3>1. \A k \in 1 .. Size - 10 : W(k) \in Writes
      BY <2>3
    <3>2. erased = [k \in 1 .. Size - 10 |-> W(k)]
      BY <2>1
    <3> HIDE DEF W
    <3>3. erased \in [1 .. Size - 10 -> Writes]
      BY <3>1, <3>2
    <3> QED
      BY <2>4, <3>3, FunctionIsSeq
  <2>6. \A k \in 1 .. Size - 10 : erased[k] = [addr |-> 9 + k, data |-> <<BLANK>>, ram |-> nothing]
    BY <2>1
  <2> QED
    BY <1>2, <1>3, <2>3, <2>5, <2>6
<1>4. CASE Flash
  <2> DEFINE blanks == [i \in 1 .. FLASH_PAGE_SIZE |-> BLANK]
             W(k) == [addr |-> pageStart(k - 1), data |-> blanks, ram |-> nothing]
  <2>1. erased = [k \in 1 .. NUM_FLASH_PAGES |-> W(k)]
    BY <1>2, <1>4 DEF erased, Internal, Flash, bytesAt
  <2>2. blanks \in Seq(Byte) /\ Len(blanks) = FLASH_PAGE_SIZE /\ blanks # <<>>
    BY Sizes, LowAddresses
  <2>3. ASSUME NEW k \in 1 .. NUM_FLASH_PAGES
        PROVE  W(k) \in Writes /\ Legal(W(k)) /\ newPage(W(k)) = k - 1
    <3>1. k - 1 \in Pages
      BY Sizes DEF Pages
    <3>2. pageStart(k - 1) \in Nat
      BY <3>1, Sizes DEF Pages, pageStart
    <3>3. pageStart(k - 1) + 0 = pageStart(k - 1)
      BY <3>2
    <3>4. 0 \in 0 .. FLASH_PAGE_SIZE - 1 /\ FLASH_PAGE_SIZE - 1 \in 0 .. FLASH_PAGE_SIZE - 1
      BY Sizes
    <3>5. /\ pageStart(k - 1) \in Addr
          /\ pageStart(k - 1) \div FLASH_PAGE_SIZE = k - 1
          /\ pageStart(k - 1) % FLASH_PAGE_SIZE = 0
      BY <3>1, <3>3, <3>4, AddrOfPage
    <3>6. pageStart(k - 1) + (FLASH_PAGE_SIZE - 1) \in Addr
      BY <3>1, <3>4, AddrOfPage
    <3>7. pageStart(k - 1) + FLASH_PAGE_SIZE <= Size
      BY <3>2, <3>6, Sizes DEF Addr
    <3> HIDE DEF blanks
    <3>8. W(k) \in Writes
      BY <1>1, <2>2, <3>5 DEF Writes
    <3> QED
      BY <2>2, <3>5, <3>7, <3>8, Sizes DEF Legal, newPage
  <2>4. erased \in Seq(Writes) /\ Len(erased) = NUM_FLASH_PAGES
    <3> HIDE DEF W
    <3> QED
      BY <2>1, <2>3, Sizes
  <2>5. \A k \in 1 .. NUM_FLASH_PAGES : erased[k] = W(k)
    <3> HIDE DEF W
    <3> QED
      BY <2>1
  <2>6. \A k \in 1 .. NUM_FLASH_PAGES : Legal(erased[k]) /\ newPage(erased[k]) = k - 1
    <3> HIDE DEF W
    <3> QED
      BY <2>3, <2>5
  <2> QED
    BY <1>2, <1>4, <2>4, <2>5, <2>6
<1> QED
  BY <1>2, <1>3, <1>4

\* noIdentity zeroes the four bytes of the identity in order.
LEMMA NoIdentityWrites ==
    /\ noIdentity \in Seq(Writes) /\ Len(noIdentity) = 4
    /\ \A i \in 0 .. 3 : noIdentity[i + 1] = [addr |-> i, data |-> <<0>>, ram |-> nothing]
<1> DEFINE w(i) == [addr |-> i, data |-> <<0>>, ram |-> nothing]
           x(i) == <<w(i)>>
           s == x(0) \o x(1)
           t == s \o x(2)
           u == t \o x(3)
<1>1. \A i \in 0 .. 3 : w(i) \in Writes
  <2>1. nothing \in Rams
    BY DEF Rams
  <2> QED
    BY <2>1, OneByte, LowAddresses
<1>2. noIdentity = u
  BY DEF noIdentity, writeEEPROM, bytesAt
<1> HIDE DEF w
<1>3. \A i \in 0 .. 3 : x(i) \in Seq(Writes) /\ Len(x(i)) = 1 /\ x(i)[1] = w(i)
  BY <1>1
<1>4. x(0) \in Seq(Writes) /\ x(1) \in Seq(Writes) /\ x(2) \in Seq(Writes) /\ x(3) \in Seq(Writes)
  BY <1>3
<1>5. /\ Len(x(0)) = 1 /\ Len(x(1)) = 1 /\ Len(x(2)) = 1 /\ Len(x(3)) = 1
      /\ x(0)[1] = w(0) /\ x(1)[1] = w(1) /\ x(2)[1] = w(2) /\ x(3)[1] = w(3)
  BY <1>3
<1> HIDE DEF x
<1>6. /\ s \in Seq(Writes) /\ Len(s) = Len(x(0)) + Len(x(1))
      /\ \A k \in 1 .. Len(x(0)) + Len(x(1)) :
           s[k] = IF k <= Len(x(0)) THEN x(0)[k] ELSE x(1)[k - Len(x(0))]
  BY <1>4, Joined
<1> HIDE DEF s
<1>7. s \in Seq(Writes)
  BY <1>6
<1>8. /\ t \in Seq(Writes) /\ Len(t) = Len(s) + Len(x(2))
      /\ \A k \in 1 .. Len(s) + Len(x(2)) :
           t[k] = IF k <= Len(s) THEN s[k] ELSE x(2)[k - Len(s)]
  BY <1>4, <1>7, Joined
<1> HIDE DEF t
<1>9. t \in Seq(Writes)
  BY <1>8
<1>10. /\ u \in Seq(Writes) /\ Len(u) = Len(t) + Len(x(3))
       /\ \A k \in 1 .. Len(t) + Len(x(3)) :
            u[k] = IF k <= Len(t) THEN t[k] ELSE x(3)[k - Len(t)]
  BY <1>4, <1>9, Joined
<1> HIDE DEF u
<1>11. Len(s) = 2 /\ s[1] = w(0) /\ s[2] = w(1)
  BY <1>5, <1>6
<1>12. Len(t) = 3 /\ t[1] = w(0) /\ t[2] = w(1) /\ t[3] = w(2)
  BY <1>5, <1>8, <1>11
<1>13. Len(u) = 4 /\ u[1] = w(0) /\ u[2] = w(1) /\ u[3] = w(2) /\ u[4] = w(3)
  BY <1>5, <1>10, <1>12
<1>14. \A i \in 0 .. 3 : u[i + 1] = w(i)
  BY <1>13
<1> QED
  BY <1>2, <1>10, <1>13, <1>14 DEF w

\* What resetModule writes, in order.
LEMMA ResetWrites ==
    ASSUME eeprom_type \in EepromTypes
    PROVE  LET L == Len(erased)
           IN  /\ L \in Nat
               /\ resetModule \in Seq(Writes)
               /\ Len(resetModule) = L + 5 + EE_NUM_NVS
               /\ \A k \in 1 .. L : resetModule[k] = erased[k]
               /\ \A i \in 0 .. 3 : resetModule[L + 1 + i] = [addr |-> i, data |-> <<0>>, ram |-> nothing]
               /\ resetModule[L + 5] = [addr |-> 5, data |-> <<99>>, ram |-> nothing]
               /\ \A i \in 1 .. EE_NUM_NVS : resetModule[L + 5 + i] =
                     [addr |-> EE_NVS_START + (i - 1), data |-> <<0>>, ram |-> nothing]
               /\ \A k \in 1 .. Len(resetModule) : Legal(resetModule[k])
<1> DEFINE L == Len(erased)
           f == setResetFlag
           a == erased \o noIdentity
           b == a \o f
           c == b \o zeroNVs
           F == [addr |-> 5, data |-> <<99>>, ram |-> nothing]
           Z(i) == [addr |-> i, data |-> <<0>>, ram |-> nothing]
           N(i) == [addr |-> EE_NVS_START + (i - 1), data |-> <<0>>, ram |-> nothing]
<1>1. erased \in Seq(Writes) /\ \A k \in 1 .. L : Legal(erased[k])
  BY Erased
<1>2. nothing \in Rams
  BY DEF Rams
<1>3. /\ noIdentity \in Seq(Writes) /\ Len(noIdentity) = 4
      /\ \A i \in 0 .. 3 : noIdentity[i + 1] = Z(i)
  BY NoIdentityWrites
<1>4. /\ \A i \in 0 .. 3 : Legal(Z(i))
      /\ F \in Writes /\ Legal(F)
  BY <1>2, OneByte, LowAddresses
<1>5. f = <<F>>
  BY WriteOneByte, LowAddresses DEF setResetFlag
<1>6. \A i \in 1 .. EE_NUM_NVS : N(i) \in Writes /\ Legal(N(i))
  BY <1>2, Addresses, OneByte, LowAddresses
<1>7. zeroNVs = [i \in 1 .. EE_NUM_NVS |-> N(i)]
  BY DEF zeroNVs, writeNV, writeEEPROM, bytesAt
<1>8. resetModule = c
  BY DEF resetModule
<1> HIDE DEF F, Z, N, f
<1>9. f \in Seq(Writes) /\ Len(f) = 1 /\ f[1] = F
  BY <1>4, <1>5
<1>10. zeroNVs \in [1 .. EE_NUM_NVS -> Writes] /\ \A i \in 1 .. EE_NUM_NVS : zeroNVs[i] = N(i)
  BY <1>6, <1>7
<1>11. zeroNVs \in Seq(Writes) /\ Len(zeroNVs) = EE_NUM_NVS /\ EE_NUM_NVS \in Nat
  BY <1>10, FunctionIsSeq, LowAddresses
<1>12. erased \in Seq(Writes) /\ noIdentity \in Seq(Writes) /\ f \in Seq(Writes) /\ zeroNVs \in Seq(Writes)
  BY <1>1, <1>3, <1>9, <1>11
<1>13. /\ a \in Seq(Writes) /\ Len(erased) \in Nat /\ Len(a) = Len(erased) + Len(noIdentity)
       /\ \A k \in 1 .. Len(erased) + Len(noIdentity) :
            a[k] = IF k <= Len(erased) THEN erased[k] ELSE noIdentity[k - Len(erased)]
  BY <1>12, Joined
<1> HIDE DEF a
<1>14. a \in Seq(Writes)
  BY <1>13
<1>15. /\ b \in Seq(Writes) /\ Len(b) = Len(a) + Len(f)
       /\ \A k \in 1 .. Len(a) + Len(f) : b[k] = IF k <= Len(a) THEN a[k] ELSE f[k - Len(a)]
  BY <1>12, <1>14, Joined
<1> HIDE DEF b
<1>16. b \in Seq(Writes)
  BY <1>15
<1>17. /\ c \in Seq(Writes) /\ Len(c) = Len(b) + Len(zeroNVs)
       /\ \A k \in 1 .. Len(b) + Len(zeroNVs) :
            c[k] = IF k <= Len(b) THEN b[k] ELSE zeroNVs[k - Len(b)]
  BY <1>12, <1>16, Joined
<1>18. L \in Nat /\ Len(a) = L + 4 /\ Len(b) = L + 5 /\ Len(c) = L + 5 + EE_NUM_NVS
  BY <1>3, <1>9, <1>11, <1>13, <1>15, <1>17
<1> HIDE DEF c, L
<1>19. ASSUME NEW k \in 1 .. L
       PROVE  c[k] = erased[k]
  <2>1. c[k] = b[k] /\ b[k] = a[k]
    BY <1>9, <1>11, <1>15, <1>17, <1>18
  <2> QED
    BY <1>3, <1>13, <1>18, <2>1 DEF L
<1>20. ASSUME NEW i \in 0 .. 3
       PROVE  c[L + 1 + i] = Z(i)
  <2> DEFINE k == L + 1 + i
  <2>1. k \in 1 .. L + 4 /\ k > L /\ k - L = i + 1
    BY <1>18
  <2> HIDE DEF k
  <2>2. c[k] = b[k] /\ b[k] = a[k]
    <3>1. k \in 1 .. Len(a) /\ k <= Len(a) /\ k <= Len(b)
      BY <1>18, <2>1
    <3>2. k \in 1 .. Len(a) + Len(f) /\ k \in 1 .. Len(b) + Len(zeroNVs)
      BY <1>9, <1>11, <1>18, <3>1
    <3> QED
      BY <1>15, <1>17, <3>1, <3>2
  <2>3. a[k] = noIdentity[k - L]
    BY <1>3, <1>13, <1>18, <2>1 DEF L
  <2>4. c[k] = Z(i)
    BY <1>3, <2>1, <2>2, <2>3
  <2> QED
    BY <2>4 DEF k
<1>21. c[L + 5] = F
  <2> DEFINE k == L + 5
  <2>1. k \in 1 .. L + 5 /\ k > L + 4 /\ k - (L + 4) = 1
    BY <1>18
  <2> HIDE DEF k
  <2>2. c[k] = b[k]
    BY <1>11, <1>17, <1>18, <2>1
  <2>3. b[k] = f[k - (L + 4)]
    BY <1>9, <1>15, <1>18, <2>1
  <2>4. c[k] = F
    BY <1>9, <2>1, <2>2, <2>3
  <2> QED
    BY <2>4 DEF k
<1>22. ASSUME NEW i \in 1 .. EE_NUM_NVS
       PROVE  c[L + 5 + i] = N(i)
  <2> DEFINE k == L + 5 + i
  <2>1. k \in 1 .. L + 5 + EE_NUM_NVS /\ k > L + 5 /\ k - (L + 5) = i
    BY <1>11, <1>18
  <2> HIDE DEF k
  <2>2. c[k] = zeroNVs[i]
    BY <1>11, <1>17, <1>18, <2>1
  <2>3. c[k] = N(i)
    BY <1>10, <2>2
  <2> QED
    BY <2>3 DEF k
<1>23. ASSUME NEW k \in 1 .. Len(c)
       PROVE  Legal(c[k])
  <2>1. k \in Nat /\ k >= 1 /\ k <= L + 5 + EE_NUM_NVS
    BY <1>11, <1>18
  <2>2. CASE k <= L
    BY <1>1, <1>18, <1>19, <2>1, <2>2 DEF L
  <2>3. CASE k > L /\ k <= L + 4
    <3>1. k - L - 1 \in 0 .. 3 /\ k = L + 1 + (k - L - 1)
      BY <1>18, <2>1, <2>3
    <3>2. c[k] = Z(k - L - 1)
      BY <1>20, <3>1
    <3> QED
      BY <1>4, <3>1, <3>2 DEF Z
  <2>4. CASE k = L + 5
    BY <1>4, <1>21, <2>4
  <2>5. CASE k > L + 5
    <3>1. k - L - 5 \in 1 .. EE_NUM_NVS /\ k = L + 5 + (k - L - 5)
      BY <1>11, <1>18, <2>1, <2>5
    <3>2. c[k] = N(k - L - 5)
      BY <1>22, <3>1
    <3> QED
      BY <1>6, <3>1, <3>2 DEF N
  <2> QED
    BY <1>18, <2>1, <2>2, <2>3, <2>4, <2>5
<1> QED
  BY <1>8, <1>17, <1>18, <1>19, <1>20, <1>21, <1>22, <1>23 DEF F, Z, N, L

-----------------------------------------------------------------------------
(* What the steps do to the memory.                                         *)

\* The memory with the write-back under way completed is a memory.
LEMMA StoredBytes ==
    ASSUME Types
    PROVE  /\ stored \in Mem
           /\ writeback.at # "erased" => stored = rom
           /\ writeback.at = "erased" => stored = programmed(rom, writeback.page, cache_page)
BY Programmed DEF stored, Types

\* The first write of a call.
LEMMA FirstWrite ==
    ASSUME Types, todo # <<>>
    PROVE  /\ Head(todo) = todo[1] /\ 1 \in DOMAIN todo
           /\ Legal(Head(todo)) /\ Head(todo) \in Writes
           /\ Tail(todo) \in Seq(Writes) /\ Len(Tail(todo)) = Len(todo) - 1 /\ Len(todo) \in Nat
           /\ \A k \in DOMAIN Tail(todo) : k + 1 \in DOMAIN todo /\ Tail(todo)[k] = todo[k + 1]
           /\ \A k \in DOMAIN todo : k # 1 => k - 1 \in DOMAIN Tail(todo) /\ Tail(todo)[k - 1] = todo[k]
<1>1. todo \in Seq(Writes) /\ \A k \in DOMAIN todo : Legal(todo[k])
  BY DEF Types
<1>2. /\ Head(todo) = todo[1] /\ 1 \in DOMAIN todo /\ Len(todo) \in Nat
      /\ Tail(todo) \in Seq(Writes) /\ Len(Tail(todo)) = Len(todo) - 1
      /\ DOMAIN todo = 1 .. Len(todo) /\ DOMAIN Tail(todo) = 1 .. Len(todo) - 1
  BY <1>1
<1>3. \A k \in 1 .. Len(todo) - 1 : Tail(todo)[k] = todo[k + 1]
  BY <1>1
<1>4. \A k \in 1 .. Len(todo) - 1 : k + 1 \in 1 .. Len(todo)
  BY <1>2
<1>5. ASSUME NEW k \in 1 .. Len(todo), k # 1
      PROVE  k - 1 \in 1 .. Len(todo) - 1 /\ Tail(todo)[k - 1] = todo[k]
  <2>1. k - 1 \in 1 .. Len(todo) - 1 /\ (k - 1) + 1 = k
    BY <1>2, <1>5
  <2>2. Tail(todo)[k - 1] = todo[(k - 1) + 1]
    BY <1>3, <2>1
  <2> QED
    BY <2>1, <2>2
<1> QED
  BY <1>1, <1>2, <1>3, <1>4, <1>5 DEF Legal

\* The data of a write.
LEMMA WriteData ==
    ASSUME NEW w, Legal(w)
    PROVE  /\ w.addr \in Addr /\ w.addr \in Nat /\ w.data \in Seq(Byte)
           /\ Len(w.data) \in Nat /\ Len(w.data) >= 1
           /\ w.data[1] = Head(w.data) /\ Head(w.data) \in Byte
           /\ w.addr + Len(w.data) <= Size /\ w.ram \in Rams
<1>1. w.addr \in Addr /\ w.data \in Seq(Byte) /\ w.data # <<>> /\ w.ram \in Rams
      /\ w.addr + Len(w.data) <= Size
  BY DEF Legal, Writes
<1>2. w.addr \in Nat
  BY <1>1, PageOfAddr
<1>3. /\ Len(w.data) \in Nat /\ Len(w.data) >= 1
      /\ w.data[1] = Head(w.data) /\ Head(w.data) \in Byte
  BY <1>1
<1> QED
  BY <1>1, <1>2, <1>3

\* What the memory holds when the write w, or its first byte, is done.
Done(w, n) ==
    /\ stored' \in Mem
    /\ \A a \in Addr : stored'[a] =
          IF a \in w.addr .. w.addr + n - 1 THEN w.data[a - w.addr + 1] ELSE stored[a]

\* With the erasure a write to flash counts as done.
LEMMA EraseDoes ==
    ASSUME Types, CacheTrue, Erase
    PROVE  /\ Flash /\ todo # <<>>
           /\ Done(Head(todo), Len(Head(todo).data))
           /\ todo' = Tail(todo)
<1> DEFINE w == Head(todo)
           page == newPage(w)
           blank == programmed(rom, page, blankPage)
           copy == overlaid(pageOf(rom, page), w.addr % FLASH_PAGE_SIZE, w.data)
           new == programmed(rom, page, copy)
<1>1. writeback.at = "filled"
  BY DEF Erase
<1>2. Flash
  BY <1>1, Erased DEF CacheTrue, idle, Types
<1>3. todo # <<>> /\ writeback.page = page /\ cache_page = copy
  BY <1>1 DEF CacheTrue
<1>4. Legal(w)
  BY <1>3, FirstWrite
<1>5. rom \in Mem /\ cache_page \in PageBytes /\ page \in Pages /\ writeback \in [at : {"idle", "filled", "erased"}, page : Pages]
  BY <1>3 DEF Types
<1>6. rom' = blank /\ cache_page' = cache_page /\ writeback'.at = "erased" /\ writeback'.page = page
  BY <1>3, <1>5 DEF Erase
<1>7. stored' = programmed(blank, page, copy)
  BY <1>3, <1>6 DEF stored
<1>8. stored = rom
  BY <1>1, StoredBytes
<1>9. blankPage \in PageBytes
  BY <1>5, PageBytesOf
<1>10. /\ new \in Mem
       /\ \A a \in Addr : new[a] =
             IF a \in w.addr .. w.addr + Len(w.data) - 1 THEN w.data[a - w.addr + 1] ELSE rom[a]
  BY <1>2, <1>4, <1>5, WrittenThroughPage
<1>11. programmed(blank, page, copy) = new
  BY DEF programmed
<1>12. todo' = Tail(todo)
  BY DEF Erase
<1> QED
  BY <1>2, <1>3, <1>7, <1>8, <1>10, <1>11, <1>12 DEF Done

\* A byte of on-chip EEPROM is done when it is written.
LEMMA WriteByteDoes ==
    ASSUME Types, CacheTrue, WriteByte
    PROVE  /\ Internal /\ todo # <<>>
           /\ Done(Head(todo), 1)
           /\ stored = rom /\ stored' = rom'
<1> DEFINE w == Head(todo)
<1>1. Internal /\ todo # <<>> /\ rom' = [rom EXCEPT ![w.addr] = Head(w.data)]
  BY DEF WriteByte
<1>2. idle /\ writeback' = writeback
  BY <1>1 DEF CacheTrue, WriteByte, cached
<1>3. stored = rom /\ stored' = rom'
  BY <1>2 DEF stored, idle
<1>4. Legal(w)
  BY <1>1, FirstWrite
<1>5. rom \in Mem
  BY DEF Types
<1>6. w.addr \in Addr /\ w.addr \in Nat /\ w.data[1] = Head(w.data) /\ Head(w.data) \in Byte
  BY <1>4, WriteData
<1>7. rom' \in Mem
  BY <1>1, <1>5, <1>6 DEF Mem
<1>8. ASSUME NEW a \in Addr
      PROVE  rom'[a] = IF a \in w.addr .. w.addr + 1 - 1 THEN w.data[a - w.addr + 1] ELSE rom[a]
  <2>1. a \in Nat
    BY PageOfAddr
  <2>2. rom'[a] = IF a = w.addr THEN Head(w.data) ELSE rom[a]
    BY <1>1, <1>5, <1>6 DEF Mem
  <2>3. a \in w.addr .. w.addr + 1 - 1 <=> a = w.addr
    <3> DEFINE from == w.addr
    <3>1. from \in Nat
      BY <1>6
    <3> HIDE DEF from
    <3>2. a \in from .. from + 1 - 1 <=> a = from
      BY <2>1, <3>1
    <3> QED
      BY <3>2 DEF from
  <2>4. a = w.addr => a - w.addr + 1 = 1
    BY <2>1
  <2> QED
    BY <1>6, <2>2, <2>3, <2>4
<1> QED
  BY <1>1, <1>3, <1>7, <1>8 DEF Done

\* Filling the copy of a page changes nothing stored.
LEMMA FillKeeps ==
    ASSUME Types, Fill
    PROVE  stored' = stored /\ stored = rom
<1>1. idle /\ rom' = rom
  BY DEF Fill
<1>2. writeback'.at = "filled"
  BY DEF Fill
<1> QED
  BY <1>1, <1>2 DEF stored, idle

\* Programming adds nothing to what the erasure has made certain.
LEMMA ProgramKeeps ==
    ASSUME Types, Program
    PROVE  stored' = stored
<1>1. writeback.at = "erased" /\ rom' = programmed(rom, writeback.page, cache_page)
  BY DEF Program
<1>2. writeback'.at = "idle"
  BY DEF Program, Types
<1> QED
  BY <1>1, <1>2 DEF stored

\* What a power cut leaves: bytes that were there, and blanks.
LEMMA PowerLossLeaves ==
    ASSUME Types, PowerLoss
    PROVE  /\ rom' \in Mem /\ Begin(rom')
           /\ \A a \in Addr :
                \/ rom'[a] = stored[a]
                \/ rom'[a] = BLANK /\ writeback.at = "erased" /\ a \div FLASH_PAGE_SIZE = writeback.page
<1>1. CASE writeback.at # "erased" /\ Begin(rom)
  <2>1. rom' = rom /\ stored = rom
    BY <1>1 DEF Begin, stored
  <2> QED
    BY <1>1, <2>1 DEF Types
<1>2. ASSUME writeback.at = "erased", NEW n \in 0 .. FLASH_PAGE_SIZE - 1,
             Begin(programmed(rom, writeback.page, cut(n)))
      PROVE  /\ rom' \in Mem /\ Begin(rom')
             /\ \A a \in Addr :
                  \/ rom'[a] = stored[a]
                  \/ rom'[a] = BLANK /\ writeback.at = "erased" /\ a \div FLASH_PAGE_SIZE = writeback.page
  <2> DEFINE page == writeback.page
  <2>1. rom' = programmed(rom, page, cut(n))
    BY <1>2 DEF Begin
  <2>2. stored = programmed(rom, page, cache_page)
    BY <1>2, StoredBytes
  <2>3. rom \in Mem /\ page \in Pages /\ cache_page \in PageBytes
    BY DEF Types
  <2>4. cut(n) \in PageBytes
    BY <2>3, LowAddresses DEF cut, PageBytes
  <2>5. rom' \in Mem
    BY <2>1, <2>3, <2>4, Programmed
  <2>6. ASSUME NEW a \in Addr
        PROVE  \/ rom'[a] = stored[a]
               \/ rom'[a] = BLANK /\ a \div FLASH_PAGE_SIZE = page
    <3> DEFINE i == a % FLASH_PAGE_SIZE
    <3>1. i \in 0 .. FLASH_PAGE_SIZE - 1
      BY PageOfAddr
    <3>2. /\ rom'[a] = IF a \div FLASH_PAGE_SIZE = page THEN cut(n)[i] ELSE rom[a]
          /\ stored[a] = IF a \div FLASH_PAGE_SIZE = page THEN cache_page[i] ELSE rom[a]
      BY <2>1, <2>2, <2>3, <2>4, Programmed
    <3>3. cut(n)[i] = cache_page[i] \/ cut(n)[i] = BLANK
      BY <3>1 DEF cut
    <3> QED
      BY <3>2, <3>3
  <2> QED
    BY <1>2, <2>1, <2>5, <2>6
<1> QED
  BY <1>1, <1>2 DEF PowerLoss

\* After a restart what is stored is what the memory holds.
LEMMA BeginStored ==
    ASSUME NEW bytes, Begin(bytes)
    PROVE  stored' = rom' /\ rom' = bytes
BY DEF Begin, stored

-----------------------------------------------------------------------------
(* Every call.                                                              *)

\* What holds of the writes of a call that is not a reset, when it has been asked for and
\* id are the bytes of the identity it leaves.
CallOK(writes, id) ==
    /\ writes \in Seq(Writes)
    /\ \A k \in DOMAIN writes : Legal(writes[k]) /\ Ordinary(writes[k])
    /\ id \in [0 .. 3 -> Byte]
    /\ \A a \in 0 .. 3 :
         /\ \A k \in DOMAIN writes : writes[k].addr = a => writes[k].data = <<id[a]>>
         /\ (\A k \in DOMAIN writes : writes[k].addr # a) => stored[a] = id[a]
    /\ \A x \in {"FLiM", "CANID", "nodeNum"} :
         /\ \A k \in DOMAIN writes : x \in DOMAIN writes[k].ram => writes[k].ram[x] = loadNVs(id)[x]
         /\ (\A k \in DOMAIN writes : x \notin DOMAIN writes[k].ram) => config[x] = loadNVs(id)[x]
    /\ \A k \in DOMAIN writes :
         writes[k].addr = 0 /\ writes[k].data = <<1>> =>
           /\ numberIn(id) # 0
           /\ \A j \in DOMAIN writes : j > k => writes[j].addr \notin {2, 3}

\* The identity when no call runs.
Identity == [a \in 0 .. 3 |-> stored[a]]

\* Between calls the identity in RAM is the one that is stored.
LEMMA IdentityNow ==
    ASSUME Types, CallOnItsWay, todo = <<>>, ~resetting
    PROVE  Identity \in [0 .. 3 -> Byte] /\ config = loadNVs(Identity)
<1>1. PICK id \in [0 .. 3 -> Byte] : IdentityComing(id)
  BY DEF CallOnItsWay
<1>2. \A a \in 0 .. 3 : stored[a] = id[a]
  BY <1>1 DEF IdentityComing
<1>3. Identity = id
  BY <1>2 DEF Identity
<1>4. \A x \in {"FLiM", "CANID", "nodeNum"} : config[x] = loadNVs(id)[x]
  BY <1>1 DEF IdentityComing
<1>5. config.FLiM = loadNVs(id).FLiM /\ config.CANID = loadNVs(id).CANID /\ config.nodeNum = loadNVs(id).nodeNum
  BY <1>4
<1>6. config \in Config /\ loadNVs(id) \in Config
  BY IdentityBytes DEF Types
<1>7. config = loadNVs(id)
  BY <1>5, <1>6 DEF Config
<1> QED
  BY <1>3, <1>7

\* A call that leaves the identity alone: its writes are behind it.
LEMMA OtherCall ==
    ASSUME Types, CallOnItsWay, todo = <<>>, ~resetting,
           NEW w, Legal(w), Ordinary(w), w.addr >= 5, w.ram = nothing
    PROVE  CallOK(<<w>>, Identity)
<1>1. <<w>> \in Seq(Writes) /\ DOMAIN <<w>> = {1} /\ <<w>>[1] = w
  BY DEF Legal
<1>2. Identity \in [0 .. 3 -> Byte] /\ config = loadNVs(Identity)
  BY IdentityNow
<1>3. w.addr \notin 0 .. 3 /\ w.addr # 0
  BY WriteData
<1>4. DOMAIN w.ram = {}
  BY DEF nothing
<1>5. \A a \in 0 .. 3 : stored[a] = Identity[a]
  BY DEF Identity
<1> HIDE DEF Identity
<1> DEFINE s == <<w>>
<1>6. s \in Seq(Writes) /\ DOMAIN s = {1} /\ s[1] = w
  BY <1>1
<1> HIDE DEF s
<1>7. CallOK(s, Identity)
  BY <1>2, <1>3, <1>4, <1>5, <1>6 DEF CallOK
<1> QED
  BY <1>7 DEF s

\* setCANID leads to an identity that differs in the id.
LEMMA CanidCall ==
    ASSUME Types, CallOnItsWay, todo = <<>>, ~resetting, NEW canid \in Byte
    PROVE  CallOK(setCANID(canid), [Identity EXCEPT ![1] = canid])
<1> DEFINE w == [addr |-> 1, data |-> <<canid>>, ram |-> [CANID |-> canid]]
           s == setCANID(canid)
           id == [Identity EXCEPT ![1] = canid]
<1>1. s = <<w>> /\ s \in Seq(Writes) /\ Legal(s[1])
  BY IdentityWrites, ZeroWord
<1>2. s \in Seq(Writes) /\ DOMAIN s = {1} /\ s[1] = w
  BY <1>1
<1>3. Identity \in [0 .. 3 -> Byte] /\ config = loadNVs(Identity)
  BY IdentityNow
<1>4. \A a \in 0 .. 3 : stored[a] = Identity[a]
  BY DEF Identity
<1> HIDE DEF Identity, s
<1>5. id \in [0 .. 3 -> Byte] /\ id[1] = canid /\ \A a \in 0 .. 3 : a # 1 => id[a] = Identity[a]
  BY <1>3
<1>6. /\ loadNVs(id).FLiM = config.FLiM /\ loadNVs(id).CANID = canid
      /\ loadNVs(id).nodeNum = config.nodeNum
  BY <1>3, <1>5 DEF loadNVs
<1>7. w.addr = 1 /\ w.data = <<canid>> /\ DOMAIN w.ram = {"CANID"} /\ w.ram["CANID"] = canid
  OBVIOUS
<1>8. Ordinary(w)
  BY DEF Ordinary
<1> HIDE DEF w, id
<1>9. CallOK(s, id)
  <2>1. Legal(s[1])
    BY <1>1
  <2>2. \A a \in 0 .. 3 : /\ \A k \in DOMAIN s : s[k].addr = a => s[k].data = <<id[a]>>
                          /\ (\A k \in DOMAIN s : s[k].addr # a) => stored[a] = id[a]
    BY <1>2, <1>4, <1>5, <1>7
  <2>3. ASSUME NEW x \in {"FLiM", "CANID", "nodeNum"}
        PROVE  /\ \A k \in DOMAIN s : x \in DOMAIN s[k].ram => s[k].ram[x] = loadNVs(id)[x]
               /\ (\A k \in DOMAIN s : x \notin DOMAIN s[k].ram) => config[x] = loadNVs(id)[x]
    BY <1>2, <1>6, <1>7
  <2>4. \A k \in DOMAIN s : ~(s[k].addr = 0)
    BY <1>2, <1>7
  <2> QED
    BY <1>2, <1>5, <1>8, <2>1, <2>2, <2>3, <2>4 DEF CallOK
<1> QED
  BY <1>9 DEF s, id

\* The writes of setNodeNum and setFLiM, as SNN and setSLiM join them.
LEMMA NumberAndMode ==
    ASSUME NEW f \in BOOLEAN, NEW nn \in Word
    PROVE  LET s == setNodeNum(nn) \o setFLiM(f)
           IN  /\ s \in Seq(Writes) /\ Len(s) = 3
               /\ s[1] = [addr |-> 2, data |-> <<highByte(nn)>>, ram |-> [nodeNum |-> nn]]
               /\ s[2] = [addr |-> 3, data |-> <<lowByte(nn)>>, ram |-> nothing]
               /\ s[3] = [addr |-> 0, data |-> <<IF f THEN 1 ELSE 0>>, ram |-> [FLiM |-> f]]
               /\ \A k \in 1 .. 3 : Legal(s[k])
<1> DEFINE a == [addr |-> 2, data |-> <<highByte(nn)>>, ram |-> [nodeNum |-> nn]]
           b == [addr |-> 3, data |-> <<lowByte(nn)>>, ram |-> nothing]
           c == [addr |-> 0, data |-> <<IF f THEN 1 ELSE 0>>, ram |-> [FLiM |-> f]]
           x == setNodeNum(nn)
           y == setFLiM(f)
           s == x \o y
<1>1. /\ x = <<a, b>> /\ y = <<c>> /\ x \in Seq(Writes) /\ y \in Seq(Writes)
      /\ \A k \in 1 .. 2 : Legal(x[k])
      /\ Legal(y[1])
  BY IdentityWrites, LowAddresses
<1> HIDE DEF a, b, c, x, y
<1>2. /\ x \in Seq(Writes) /\ y \in Seq(Writes)
  BY <1>1
<1>3. /\ s \in Seq(Writes) /\ Len(x) \in Nat /\ Len(y) \in Nat /\ Len(s) = Len(x) + Len(y)
      /\ \A k \in 1 .. Len(x) + Len(y) : s[k] = IF k <= Len(x) THEN x[k] ELSE y[k - Len(x)]
  BY <1>2, Joined
<1> HIDE DEF s
<1>4. Len(x) = 2 /\ Len(y) = 1 /\ x[1] = a /\ x[2] = b /\ y[1] = c
  BY <1>1
<1>5. Legal(a) /\ Legal(b) /\ Legal(c)
  BY <1>1, <1>4
<1>6. Len(s) = 3 /\ s[1] = a /\ s[2] = b /\ s[3] = c
  BY <1>3, <1>4
<1>7. \A k \in 1 .. 3 : Legal(s[k])
  BY <1>5, <1>6
<1> QED
  BY <1>3, <1>6, <1>7 DEF a, b, c, s, x, y

\* The identity with the mode and the number of a call.
Numbered(f, nn) ==
    [Identity EXCEPT ![0] = IF f THEN 1 ELSE 0, ![2] = highByte(nn), ![3] = lowByte(nn)]

\* The bytes of a mode and a node number are read back as both.
LEMMA NumberedBytes ==
    ASSUME Types, CallOnItsWay, todo = <<>>, ~resetting, NEW f \in BOOLEAN, NEW nn \in Word
    PROVE  LET id == Numbered(f, nn)
           IN  /\ id \in [0 .. 3 -> Byte]
               /\ id[0] = (IF f THEN 1 ELSE 0) /\ id[1] = stored[1]
               /\ id[2] = highByte(nn) /\ id[3] = lowByte(nn)
               /\ loadNVs(id) = [FLiM |-> f, CANID |-> config.CANID, nodeNum |-> nn]
               /\ numberIn(id) = nn
<1> DEFINE id == Numbered(f, nn)
<1>1. Identity \in [0 .. 3 -> Byte] /\ config = loadNVs(Identity) /\ Identity[1] = stored[1]
  BY IdentityNow DEF Identity
<1>2. highByte(nn) \in Byte /\ lowByte(nn) \in Byte /\ highByte(nn) * 256 + lowByte(nn) = nn
  BY NumberBytes
<1>3. (IF f THEN 1 ELSE 0) \in Byte
  BY LowAddresses
<1> HIDE DEF Identity
<1> DEFINE b0 == IF f THEN 1 ELSE 0
           b2 == highByte(nn)
           b3 == lowByte(nn)
<1>4. id = [[[Identity EXCEPT ![0] = b0] EXCEPT ![2] = b2] EXCEPT ![3] = b3]
  BY DEF Numbered
<1>5. b0 \in Byte /\ b2 \in Byte /\ b3 \in Byte
  BY <1>2, <1>3
<1> HIDE DEF b0, b2, b3, id
<1>6. /\ id \in [0 .. 3 -> Byte]
      /\ id[0] = b0 /\ id[1] = Identity[1] /\ id[2] = b2 /\ id[3] = b3
  BY <1>1, <1>4, <1>5
<1>7. numberIn(id) = nn
  BY <1>2, <1>6 DEF numberIn, b2, b3
<1>8. loadNVs(id) = [FLiM |-> id[0] # 0, CANID |-> id[1], nodeNum |-> numberIn(id)]
  BY DEF loadNVs, numberIn
<1>9. config.CANID = Identity[1]
  BY <1>1, IdentityBytes
<1>10. (id[0] # 0) = f
  BY <1>6 DEF b0
<1>11. loadNVs(id) = [FLiM |-> f, CANID |-> config.CANID, nodeNum |-> nn]
  BY <1>6, <1>7, <1>8, <1>9, <1>10
<1> QED
  BY <1>1, <1>6, <1>7, <1>11 DEF id, b0, b2, b3

\* SNN leads to FLiM with that number.
LEMMA SNNCall ==
    ASSUME Types, CallOnItsWay, todo = <<>>, ~resetting, NEW nn \in Word \ {0}
    PROVE  CallOK(SNN(nn), Numbered(TRUE, nn))
<1> DEFINE s == SNN(nn)
           id == Numbered(TRUE, nn)
           a == [addr |-> 2, data |-> <<highByte(nn)>>, ram |-> [nodeNum |-> nn]]
           b == [addr |-> 3, data |-> <<lowByte(nn)>>, ram |-> nothing]
           c == [addr |-> 0, data |-> <<1>>, ram |-> [FLiM |-> TRUE]]
<1>1. /\ s \in Seq(Writes) /\ Len(s) = 3
      /\ s[1] = a /\ s[2] = b /\ s[3] = c
      /\ \A k \in 1 .. 3 : Legal(s[k])
  BY NumberAndMode DEF SNN
<1>2. /\ id \in [0 .. 3 -> Byte]
      /\ id[0] = 1 /\ id[1] = stored[1]
      /\ id[2] = highByte(nn) /\ id[3] = lowByte(nn)
      /\ loadNVs(id) = [FLiM |-> TRUE, CANID |-> config.CANID, nodeNum |-> nn]
      /\ numberIn(id) = nn
  BY NumberedBytes
<1>3. /\ a.addr = 2 /\ a.data = <<id[2]>> /\ DOMAIN a.ram = {"nodeNum"} /\ a.ram["nodeNum"] = nn
      /\ b.addr = 3 /\ b.data = <<id[3]>> /\ DOMAIN b.ram = {}
      /\ c.addr = 0 /\ c.data = <<id[0]>> /\ DOMAIN c.ram = {"FLiM"} /\ c.ram["FLiM"] = TRUE
  BY <1>2 DEF nothing
<1>4. Ordinary(a) /\ Ordinary(b) /\ Ordinary(c)
  BY DEF Ordinary
<1>5. DOMAIN s = {1, 2, 3}
  BY <1>1
<1>6. /\ loadNVs(id)["FLiM"] = TRUE /\ loadNVs(id)["CANID"] = config["CANID"]
      /\ loadNVs(id)["nodeNum"] = nn
  <2> DEFINE l == loadNVs(id)
             canid == config.CANID
  <2>1. l = [FLiM |-> TRUE, CANID |-> canid, nodeNum |-> nn] /\ config["CANID"] = canid
    BY <1>2
  <2> HIDE DEF l, canid
  <2>2. l["FLiM"] = TRUE /\ l["CANID"] = canid /\ l["nodeNum"] = nn
    BY <2>1
  <2> QED
    BY <2>1, <2>2 DEF l
<1> HIDE DEF s, id, a, b, c
<1>7. \A k \in DOMAIN s : Legal(s[k]) /\ Ordinary(s[k])
  BY <1>1, <1>4, <1>5
<1>8. \A i \in 0 .. 3 : /\ \A k \in DOMAIN s : s[k].addr = i => s[k].data = <<id[i]>>
                        /\ (\A k \in DOMAIN s : s[k].addr # i) => stored[i] = id[i]
  BY <1>1, <1>2, <1>3, <1>5
<1>9. ASSUME NEW x \in {"FLiM", "CANID", "nodeNum"}
      PROVE  /\ \A k \in DOMAIN s : x \in DOMAIN s[k].ram => s[k].ram[x] = loadNVs(id)[x]
             /\ (\A k \in DOMAIN s : x \notin DOMAIN s[k].ram) => config[x] = loadNVs(id)[x]
  BY <1>1, <1>3, <1>5, <1>6
<1>10. ASSUME NEW k \in DOMAIN s, s[k].addr = 0
       PROVE  /\ numberIn(id) # 0
              /\ \A j \in DOMAIN s : j > k => s[j].addr \notin {2, 3}
  <2>1. k = 3
    BY <1>1, <1>3, <1>5, <1>10
  <2> QED
    BY <1>2, <1>5, <2>1
<1>11. CallOK(s, id)
  BY <1>1, <1>2, <1>7, <1>8, <1>9, <1>10 DEF CallOK
<1> QED
  BY <1>11 DEF s, id

\* setSLiM leads to SLiM with neither id nor number.
LEMMA SLiMCall ==
    ASSUME Types, CallOnItsWay, todo = <<>>, ~resetting
    PROVE  CallOK(setSLiM, [Numbered(FALSE, 0) EXCEPT ![1] = 0])
<1> DEFINE s == setSLiM
           t == setNodeNum(0) \o setFLiM(FALSE)
           y == setCANID(0)
           old == Numbered(FALSE, 0)
           id == [old EXCEPT ![1] = 0]
           a == [addr |-> 2, data |-> <<highByte(0)>>, ram |-> [nodeNum |-> 0]]
           b == [addr |-> 3, data |-> <<lowByte(0)>>, ram |-> nothing]
           c == [addr |-> 0, data |-> <<0>>, ram |-> [FLiM |-> FALSE]]
           d == [addr |-> 1, data |-> <<0>>, ram |-> [CANID |-> 0]]
<1>1. /\ t \in Seq(Writes) /\ Len(t) = 3
      /\ t[1] = a /\ t[2] = b /\ t[3] = c
      /\ \A k \in 1 .. 3 : Legal(t[k])
  BY NumberAndMode, ZeroWord
<1>2. y = <<d>> /\ y \in Seq(Writes) /\ Legal(y[1])
  BY IdentityWrites, ZeroWord, LowAddresses
<1>3. /\ old \in [0 .. 3 -> Byte]
      /\ old[0] = 0 /\ old[2] = highByte(0) /\ old[3] = lowByte(0)
      /\ numberIn(old) = 0
  BY NumberedBytes, ZeroWord
<1> HIDE DEF old, t, y
<1>4. /\ id \in [0 .. 3 -> Byte]
      /\ id[0] = 0 /\ id[1] = 0 /\ id[2] = highByte(0) /\ id[3] = lowByte(0)
  BY <1>3, LowAddresses
<1>5. /\ a.addr = 2 /\ a.data = <<id[2]>> /\ DOMAIN a.ram = {"nodeNum"} /\ a.ram["nodeNum"] = 0
      /\ b.addr = 3 /\ b.data = <<id[3]>> /\ DOMAIN b.ram = {}
      /\ c.addr = 0 /\ c.data = <<id[0]>> /\ DOMAIN c.ram = {"FLiM"} /\ c.ram["FLiM"] = FALSE
      /\ d.addr = 1 /\ d.data = <<id[1]>> /\ DOMAIN d.ram = {"CANID"} /\ d.ram["CANID"] = 0
  BY <1>4 DEF nothing
<1>6. Ordinary(a) /\ Ordinary(b) /\ Ordinary(c) /\ Ordinary(d)
  BY DEF Ordinary
<1>7. numberIn(id) = 0
  BY <1>3, <1>4 DEF numberIn
<1>8. loadNVs(id)["FLiM"] = FALSE /\ loadNVs(id)["CANID"] = 0 /\ loadNVs(id)["nodeNum"] = 0
  BY <1>4, <1>7 DEF loadNVs, numberIn
<1>9. s = t \o y
  BY DEF setSLiM, t, y
<1>10. t \in Seq(Writes) /\ y \in Seq(Writes)
  BY <1>1, <1>2
<1>11. c.data # <<1>>
  BY <1>4, <1>5
<1> HIDE DEF s, id, a, b, c, d
<1>12. /\ s \in Seq(Writes) /\ Len(t) \in Nat /\ Len(y) \in Nat /\ Len(s) = Len(t) + Len(y)
       /\ \A k \in 1 .. Len(t) + Len(y) : s[k] = IF k <= Len(t) THEN t[k] ELSE y[k - Len(t)]
  BY <1>9, <1>10, Joined
<1>13. Len(y) = 1 /\ y[1] = d
  BY <1>2
<1>14. Len(s) = 4 /\ s[1] = a /\ s[2] = b /\ s[3] = c /\ s[4] = d
  BY <1>1, <1>12, <1>13
<1>15. DOMAIN s = {1, 2, 3, 4}
  <2>1. s \in Seq(Writes) /\ Len(s) = 4
    BY <1>12, <1>14
  <2> QED
    BY <2>1
<1>16. Legal(a) /\ Legal(b) /\ Legal(c) /\ Legal(d)
  BY <1>1, <1>2, <1>13
<1>17. \A k \in DOMAIN s : Legal(s[k]) /\ Ordinary(s[k])
  BY <1>6, <1>14, <1>15, <1>16
<1>18. \A i \in 0 .. 3 : /\ \A k \in DOMAIN s : s[k].addr = i => s[k].data = <<id[i]>>
                         /\ (\A k \in DOMAIN s : s[k].addr # i) => stored[i] = id[i]
  BY <1>5, <1>14, <1>15
<1>19. ASSUME NEW x \in {"FLiM", "CANID", "nodeNum"}
       PROVE  /\ \A k \in DOMAIN s : x \in DOMAIN s[k].ram => s[k].ram[x] = loadNVs(id)[x]
              /\ (\A k \in DOMAIN s : x \notin DOMAIN s[k].ram) => config[x] = loadNVs(id)[x]
  BY <1>5, <1>8, <1>14, <1>15
<1>20. \A k \in DOMAIN s : ~(s[k].addr = 0 /\ s[k].data = <<1>>)
  BY <1>5, <1>11, <1>14, <1>15
<1>21. CallOK(s, id)
  BY <1>4, <1>12, <1>17, <1>18, <1>19, <1>20 DEF CallOK
<1> QED
  BY <1>21 DEF s, id, old

\* Every call leads to one identity.
LEMMA RequestIsOK ==
    ASSUME EventsFit, Types, CallOnItsWay, Request
    PROVE  /\ idle /\ todo = <<>> /\ ~resetting
           /\ \E id : CallOK(todo', id)
           /\ UNCHANGED <<eeprom_type, rom, cache_page, curr_page_num, writeback, config, resetting>>
<1>1. PICK writes : Call(writes)
  BY DEF Request
<1>2. /\ idle /\ todo = <<>> /\ ~resetting
      /\ UNCHANGED <<eeprom_type, rom, cache_page, curr_page_num, writeback, config, resetting>>
  BY <1>1 DEF Call, cached, Request
<1>3. nothing \in Rams
  BY DEF Rams
<1>4. \E id : CallOK(todo', id)
  <2>1. CASE Call(setSLiM)
    <3>1. todo' = setSLiM
      BY <2>1 DEF Call
    <3> QED
      BY <1>2, <3>1, SLiMCall
  <2>2. ASSUME NEW nn \in NodeNumbers, Call(SNN(nn))
        PROVE  \E id : CallOK(todo', id)
    <3>1. todo' = SNN(nn) /\ nn \in Word \ {0}
      BY <2>2, StorageAssumption DEF Call
    <3> QED
      BY <1>2, <3>1, SNNCall
  <2>3. ASSUME NEW canid \in CANIDs, Call(setCANID(canid))
        PROVE  \E id : CallOK(todo', id)
    <3>1. todo' = setCANID(canid) /\ canid \in Byte
      BY <2>3, StorageAssumption DEF Call
    <3> QED
      BY <1>2, <3>1, CanidCall
  <2>4. ASSUME NEW addr \in Addr, addr >= 9 \/ addr = 5, NEW byte \in Byte, addr = 5 => byte = 0,
               Call(writeEEPROM(addr, byte))
        PROVE  \E id : CallOK(todo', id)
    <3> DEFINE w == [addr |-> addr, data |-> <<byte>>, ram |-> nothing]
    <3>1. todo' = <<w>>
      BY <2>4, WriteOneByte DEF Call
    <3>2. w.addr = addr /\ w.data = <<byte>> /\ w.ram = nothing /\ Len(w.data) = 1
      OBVIOUS
    <3>3. Legal(w)
      BY <1>3, OneByte
    <3> HIDE DEF w
    <3>4. Ordinary(w)
      BY <2>4, <3>2 DEF Ordinary
    <3>5. w.addr >= 5
      BY <2>4, <3>2, PageOfAddr
    <3> QED
      BY <1>2, <3>1, <3>2, <3>3, <3>4, <3>5, OtherCall
  <2>5. ASSUME NEW idx \in 0 .. EE_NUM_NVS, NEW val \in Values, Call(writeNV(idx, val))
        PROVE  \E id : CallOK(todo', id)
    <3>1. EE_NVS_START + (idx - 1) \in Addr /\ EE_NVS_START + (idx - 1) >= 9 /\ val \in Byte
      BY Addresses, StorageAssumption
    <3>2. EE_NVS_START + (idx - 1) # 5
      BY <3>1, PageOfAddr
    <3>3. Call(writeEEPROM(EE_NVS_START + (idx - 1), val))
      BY <2>5 DEF writeNV
    <3> QED
      BY <2>4, <3>1, <3>2, <3>3
  <2>6. ASSUME NEW idx \in 0 .. EE_MAX_EVENTS - 1, NEW data \in [1 .. 4 -> Byte], Call(writeEvent(idx, data))
        PROVE  \E id : CallOK(todo', id)
    <3> DEFINE w == [addr |-> eventAddr(idx), data |-> data, ram |-> nothing]
    <3>1. todo' = <<w>> /\ Legal(w) /\ Len(data) <= 4
      BY <2>6, EventWrites DEF Call, Types
    <3>2. w.addr = eventAddr(idx) /\ w.data = data /\ w.ram = nothing
      OBVIOUS
    <3>3. eventAddr(idx) >= 10 /\ eventAddr(idx) \in Nat
      BY Addresses, PageOfAddr
    <3> HIDE DEF w
    <3>4. Ordinary(w) /\ w.addr >= 5
      <4>1. Len(w.data) <= 4
        BY <3>1, <3>2
      <4>2. w.addr >= 9 /\ w.addr >= 5
        BY <3>2, <3>3
      <4> QED
        BY <4>1, <4>2 DEF Ordinary
    <3> QED
      BY <1>2, <3>1, <3>2, <3>4, OtherCall
  <2>7. ASSUME NEW idx \in 0 .. EE_MAX_EVENTS - 1, NEW data \in Events, Call(writeEvent(idx, data))
        PROVE  \E id : CallOK(todo', id)
    <3>1. data \in [1 .. 4 -> Byte]
      BY StorageAssumption
    <3> QED
      BY <2>6, <2>7, <3>1
  <2>8. ASSUME NEW idx \in 0 .. EE_MAX_EVENTS - 1, Call(cleareventEEPROM(idx))
        PROVE  \E id : CallOK(todo', id)
    <3>1. [i \in 1 .. 4 |-> BLANK] \in [1 .. 4 -> Byte]
      BY LowAddresses
    <3>2. Call(writeEvent(idx, [i \in 1 .. 4 |-> BLANK]))
      BY <2>8 DEF cleareventEEPROM
    <3> QED
      BY <2>6, <3>1, <3>2
  <2>9. ASSUME NEW idx \in 0 .. EE_MAX_EVENTS - 1, NEW evnum \in 1 .. EE_NUM_EVS, NEW evval \in Values,
               Call(writeEventEV(idx, evnum, evval))
        PROVE  \E id : CallOK(todo', id)
    <3>1. eventAddr(idx) + 3 + evnum \in Addr /\ eventAddr(idx) + 3 + evnum >= 10 /\ evval \in Byte
      BY Addresses, StorageAssumption
    <3> DEFINE addr == eventAddr(idx) + 3 + evnum
    <3>2. Call(writeEEPROM(addr, evval))
      BY <2>9 DEF writeEventEV
    <3> HIDE DEF addr
    <3>3. addr \in Addr /\ addr >= 10
      BY <3>1 DEF addr
    <3>4. addr >= 9 /\ addr # 5
      BY <3>3, PageOfAddr
    <3> QED
      BY <2>4, <3>1, <3>2, <3>3, <3>4
  <2>10. CASE Call(clearResetFlag)
    <3>1. 5 \in Addr /\ 0 \in Byte
      BY LowAddresses
    <3>2. Call(writeEEPROM(5, 0))
      BY <2>10 DEF clearResetFlag
    <3> QED
      BY <2>4, <3>1, <3>2
  <2> QED
    BY <2>1, <2>2, <2>3, <2>5, <2>7, <2>8, <2>9, <2>10 DEF Request
<1> QED
  BY <1>2, <1>4

\* The next write of a call that is not a reset is done.
LEMMA NextOfCall ==
    ASSUME Types, todo # <<>>, Ordinary(Head(todo)),
           NEW id \in [0 .. 3 -> Byte], IdentityComing(id),
           Done(Head(todo), Len(Head(todo).data)), todo' = Tail(todo),
           \A x \in {"FLiM", "CANID", "nodeNum"} :
              config'[x] = IF x \in DOMAIN Head(todo).ram THEN Head(todo).ram[x] ELSE config[x]
    PROVE  IdentityComing(id)'
<1> DEFINE w == Head(todo)
<1>1. /\ w = todo[1] /\ 1 \in DOMAIN todo /\ Legal(w)
      /\ \A k \in DOMAIN todo' : k + 1 \in DOMAIN todo /\ todo'[k] = todo[k + 1]
      /\ \A k \in DOMAIN todo : k # 1 => k - 1 \in DOMAIN todo' /\ todo'[k - 1] = todo[k]
  BY FirstWrite
<1>2. /\ w.addr \in Nat /\ Len(w.data) \in Nat /\ Len(w.data) >= 1 /\ DOMAIN todo = 1 .. Len(todo) /\ Len(todo) \in Nat
      /\ DOMAIN todo' = 1 .. Len(todo) - 1
  <2>1. DOMAIN todo = 1 .. Len(todo) /\ Len(todo) \in Nat
    BY DEF Types
  <2>2. DOMAIN todo' = 1 .. Len(todo) - 1
    BY FirstWrite
  <2> QED
    BY <1>1, <2>1, <2>2, WriteData
<1> HIDE DEF w
<1>3. \A a \in 0 .. 3 : stored'[a] = IF w.addr = a THEN w.data[1] ELSE stored[a]
  <2> SUFFICES ASSUME NEW a \in 0 .. 3
               PROVE  stored'[a] = IF w.addr = a THEN w.data[1] ELSE stored[a]
    OBVIOUS
  <2> DEFINE from == w.addr
             len == Len(w.data)
  <2>1. a \in Addr /\ stored'[a] = IF a \in from .. from + len - 1 THEN w.data[a - from + 1] ELSE stored[a]
    BY LowAddresses DEF Done, w
  <2>2. (from \in 0 .. 3 /\ len = 1) \/ from >= 5
    BY <1>2 DEF Ordinary, w
  <2>3. from \in Nat /\ len \in Nat /\ len >= 1
    BY <1>2
  <2> HIDE DEF from, len
  <2>4. (a \in from .. from + len - 1 <=> from = a) /\ (from = a => a - from + 1 = 1)
    BY <2>2, <2>3
  <2> QED
    BY <2>1, <2>4 DEF from
<1>4. ASSUME NEW a \in 0 .. 3
      PROVE  /\ \A k \in DOMAIN todo' : todo'[k].addr = a => todo'[k].data = <<id[a]>>
             /\ (\A k \in DOMAIN todo' : todo'[k].addr # a) => stored'[a] = id[a]
  <2>1. /\ \A k \in DOMAIN todo : todo[k].addr = a => todo[k].data = <<id[a]>>
        /\ (\A k \in DOMAIN todo : todo[k].addr # a) => stored[a] = id[a]
    BY DEF IdentityComing
  <2>2. \A k \in DOMAIN todo' : todo'[k].addr = a => todo'[k].data = <<id[a]>>
    BY <1>1, <2>1
  <2>3. ASSUME \A k \in DOMAIN todo' : todo'[k].addr # a
        PROVE  stored'[a] = id[a]
    <3>1. CASE w.addr = a
      <4>1. w.data = <<id[a]>>
        BY <1>1, <2>1, <3>1
      <4> QED
        BY <1>3, <3>1, <4>1
    <3>2. CASE w.addr # a
      <4>1. ASSUME NEW k \in DOMAIN todo
            PROVE  todo[k].addr # a
        <5>1. CASE k = 1
          BY <1>1, <3>2, <5>1
        <5>2. CASE k # 1
          <6>1. k - 1 \in DOMAIN todo' /\ todo'[k - 1] = todo[k]
            BY <1>1, <5>2
          <6> QED
            BY <2>3, <6>1
        <5> QED
          BY <5>1, <5>2
      <4> QED
        BY <1>3, <2>1, <3>2, <4>1
    <3> QED
      BY <3>1, <3>2
  <2> QED
    BY <2>2, <2>3
<1>5. ASSUME NEW x \in {"FLiM", "CANID", "nodeNum"}
      PROVE  /\ \A k \in DOMAIN todo' : x \in DOMAIN todo'[k].ram => todo'[k].ram[x] = loadNVs(id)[x]
             /\ (\A k \in DOMAIN todo' : x \notin DOMAIN todo'[k].ram) => config'[x] = loadNVs(id)[x]
  <2>1. /\ \A k \in DOMAIN todo : x \in DOMAIN todo[k].ram => todo[k].ram[x] = loadNVs(id)[x]
        /\ (\A k \in DOMAIN todo : x \notin DOMAIN todo[k].ram) => config[x] = loadNVs(id)[x]
    BY DEF IdentityComing
  <2>2. config'[x] = IF x \in DOMAIN w.ram THEN w.ram[x] ELSE config[x]
    BY DEF w
  <2>3. \A k \in DOMAIN todo' : x \in DOMAIN todo'[k].ram => todo'[k].ram[x] = loadNVs(id)[x]
    BY <1>1, <2>1
  <2>4. ASSUME \A k \in DOMAIN todo' : x \notin DOMAIN todo'[k].ram
        PROVE  config'[x] = loadNVs(id)[x]
    <3>1. CASE x \in DOMAIN w.ram
      BY <1>1, <2>1, <2>2, <3>1
    <3>2. CASE x \notin DOMAIN w.ram
      <4>1. \A k \in DOMAIN todo : x \notin DOMAIN todo[k].ram
        BY <1>1, <2>4, <3>2
      <4> QED
        BY <2>1, <2>2, <3>2, <4>1
    <3> QED
      BY <3>1, <3>2
  <2> QED
    BY <2>3, <2>4
<1>6. ASSUME NEW k \in DOMAIN todo', todo'[k].addr = 0 /\ todo'[k].data = << 1 >>
      PROVE  /\ numberIn(id) # 0
             /\ \A j \in DOMAIN todo' : j > k => todo'[j].addr \notin {2, 3}
  <2>1. k + 1 \in DOMAIN todo /\ todo[k + 1].addr = 0 /\ todo[k + 1].data = <<1>>
    BY <1>1, <1>6
  <2>2. numberIn(id) # 0 /\ \A j \in DOMAIN todo : j > k + 1 => todo[j].addr \notin {2, 3}
    BY <2>1 DEF IdentityComing
  <2>3. \A j \in DOMAIN todo' : j > k => j + 1 > k + 1
    BY <1>2
  <2> QED
    BY <1>1, <2>2, <2>3
<1> QED
  BY <1>4, <1>5, <1>6 DEF IdentityComing

\* A write sets in RAM what it names and no more.
LEMMA ConfigAfter ==
    ASSUME config \in Config, NEW ram \in Rams
    PROVE  /\ configAfter(ram) \in Config
           /\ \A x \in {"FLiM", "CANID", "nodeNum"} :
                configAfter(ram)[x] = IF x \in DOMAIN ram THEN ram[x] ELSE config[x]
           /\ DOMAIN ram \subseteq {"FLiM", "CANID", "nodeNum"}
<1>1. DOMAIN config = {"FLiM", "CANID", "nodeNum"}
  BY DEF Config
<1>2. \A x \in {"FLiM", "CANID", "nodeNum"} :
         configAfter(ram)[x] = IF x \in DOMAIN ram THEN ram[x] ELSE config[x]
  BY <1>1 DEF configAfter
<1>3. /\ DOMAIN ram \subseteq {"FLiM", "CANID", "nodeNum"}
      /\ "FLiM" \in DOMAIN ram => ram["FLiM"] \in BOOLEAN
      /\ "CANID" \in DOMAIN ram => ram["CANID"] \in Byte
      /\ "nodeNum" \in DOMAIN ram => ram["nodeNum"] \in Word
  BY DEF Rams, nothing
<1>4. config["FLiM"] \in BOOLEAN /\ config["CANID"] \in Byte /\ config["nodeNum"] \in Word
  BY DEF Config
<1>5. DOMAIN configAfter(ram) = {"FLiM", "CANID", "nodeNum"}
  BY <1>1 DEF configAfter
<1>6. /\ configAfter(ram)["FLiM"] \in BOOLEAN /\ configAfter(ram)["CANID"] \in Byte
      /\ configAfter(ram)["nodeNum"] \in Word
  BY <1>2, <1>3, <1>4
<1>7. configAfter(ram) = [x \in DOMAIN config |-> configAfter(ram)[x]]
  BY DEF configAfter
<1> DEFINE c == configAfter(ram)
<1> HIDE DEF c
<1>8. c = [x \in {"FLiM", "CANID", "nodeNum"} |-> c[x]]
  BY <1>1, <1>7 DEF c
<1>9. c = [FLiM |-> c["FLiM"], CANID |-> c["CANID"], nodeNum |-> c["nodeNum"]]
  BY <1>8
<1>10. c \in Config
  BY <1>6, <1>9 DEF Config, c
<1> QED
  BY <1>2, <1>3, <1>10 DEF c

\* A byte of a longer write is done in place.
Rest(w) == [w EXCEPT !.addr = @ + 1, !.data = Tail(@), !.ram = nothing]

\* What is left of a write after its first byte is a write.
LEMMA RestOfWrite ==
    ASSUME Internal, NEW w, Legal(w), Len(w.data) > 1
    PROVE  /\ Rest(w) \in Writes /\ Legal(Rest(w))
           /\ Rest(w).addr = w.addr + 1 /\ Rest(w).data = Tail(w.data) /\ Rest(w).ram = nothing
<1>1. /\ w \in Writes /\ w.addr \in Nat /\ w.data \in Seq(Byte) /\ Len(w.data) \in Nat
      /\ w.addr + Len(w.data) <= Size
  BY WriteData DEF Legal
<1>2. Rest(w) = [addr |-> w.addr + 1, data |-> Tail(w.data), ram |-> nothing]
  <2> DEFINE a == w.addr
             d == w.data
             m == w.ram
  <2>1. w = [addr |-> a, data |-> d, ram |-> m]
    BY <1>1 DEF Writes
  <2>2. Rest(w) = [[[w EXCEPT !.addr = a + 1] EXCEPT !.data = Tail(d)] EXCEPT !.ram = nothing]
    BY <2>1 DEF Rest
  <2> HIDE DEF a, d, m
  <2>3. [w EXCEPT !.addr = a + 1] = [addr |-> a + 1, data |-> d, ram |-> m]
    BY <2>1
  <2>4. Rest(w) = [addr |-> a + 1, data |-> Tail(d), ram |-> nothing]
    BY <2>2, <2>3
  <2> QED
    BY <2>4 DEF a, d
<1>3. Tail(w.data) \in Seq(Byte) /\ Len(Tail(w.data)) = Len(w.data) - 1
  BY <1>1
<1>4. Tail(w.data) # <<>>
  <2> DEFINE t == Tail(w.data)
  <2>1. Len(t) >= 1
    BY <1>1, <1>3
  <2> HIDE DEF t
  <2> QED
    BY <2>1, NotEmpty DEF t
<1>5. w.addr + 1 \in Addr /\ (w.addr + 1) + (Len(w.data) - 1) <= Size
  BY <1>1, Sizes DEF Addr
<1>6. nothing \in Rams
  BY DEF Rams
<1> DEFINE r == Rest(w)
<1>7. r.addr = w.addr + 1 /\ r.data = Tail(w.data) /\ r.ram = nothing
  BY <1>2
<1>8. r \in Writes
  BY <1>2, <1>3, <1>4, <1>5, <1>6 DEF Writes
<1>9. ~Flash
  BY DEF Internal, Flash
<1> HIDE DEF r
<1>10. Legal(r)
  BY <1>3, <1>5, <1>7, <1>8, <1>9 DEF Legal
<1> QED
  BY <1>7, <1>8, <1>10 DEF r

\* Replacing the first write of a call leaves the others.
LEMMA RestFirst ==
    ASSUME Types, todo # <<>>, NEW r \in Writes
    PROVE  LET new == <<r>> \o Tail(todo)
           IN  /\ new \in Seq(Writes) /\ Len(new) = Len(todo) /\ new # <<>>
               /\ DOMAIN new = DOMAIN todo /\ 1 \in DOMAIN todo
               /\ new[1] = r /\ Head(new) = r
               /\ \A k \in DOMAIN todo : k # 1 => new[k] = todo[k]
<1> DEFINE new == <<r>> \o Tail(todo)
           x == <<r>>
           y == Tail(todo)
<1>1. x \in Seq(Writes) /\ Len(x) = 1 /\ x[1] = r
  OBVIOUS
<1>2. /\ y \in Seq(Writes) /\ Len(y) = Len(todo) - 1 /\ Len(todo) \in Nat /\ 1 \in DOMAIN todo
      /\ \A k \in DOMAIN todo : k # 1 => y[k - 1] = todo[k]
  BY FirstWrite
<1>3. DOMAIN todo = 1 .. Len(todo)
  BY DEF Types
<1>4. new = x \o y
  OBVIOUS
<1> HIDE DEF x, y, new
<1>5. x \in Seq(Writes) /\ y \in Seq(Writes)
  BY <1>1, <1>2
<1>6. /\ new \in Seq(Writes) /\ Len(new) = Len(x) + Len(y)
      /\ \A k \in 1 .. Len(x) + Len(y) : new[k] = IF k <= Len(x) THEN x[k] ELSE y[k - Len(x)]
  <2> DEFINE s == x \o y
  <2>1. /\ s \in Seq(Writes) /\ Len(s) = Len(x) + Len(y)
        /\ \A k \in 1 .. Len(x) + Len(y) : s[k] = IF k <= Len(x) THEN x[k] ELSE y[k - Len(x)]
    BY <1>5, Joined
  <2>2. new = s
    BY <1>4
  <2> HIDE DEF s
  <2> QED
    BY <2>1, <2>2
<1>7. Len(new) = Len(todo) /\ Len(todo) >= 1
  BY <1>1, <1>2, <1>3, <1>6
<1>8. new[1] = r
  BY <1>1, <1>2, <1>6, <1>7
<1>9. \A k \in DOMAIN todo : k # 1 => new[k] = todo[k]
  BY <1>1, <1>2, <1>3, <1>6, <1>7
<1>10. new \in Seq(Writes) /\ Len(new) = Len(todo) /\ Len(todo) >= 1 /\ DOMAIN new = 1 .. Len(new)
  BY <1>6, <1>7
<1>11. new # <<>>
  BY <1>10, NotEmpty
<1>12. Head(new) = new[1]
  BY <1>10, <1>11
<1> QED
  BY <1>2, <1>3, <1>8, <1>9, <1>10, <1>11, <1>12 DEF new

\* The first byte of an event is done: the identity is not concerned.
LEMMA PartOfCall ==
    ASSUME Types, Internal, todo # <<>>, Ordinary(Head(todo)), Len(Head(todo).data) > 1,
           NEW id \in [0 .. 3 -> Byte], IdentityComing(id),
           Done(Head(todo), 1), todo' = <<Rest(Head(todo))>> \o Tail(todo),
           \A x \in {"FLiM", "CANID", "nodeNum"} :
              config'[x] = IF x \in DOMAIN Head(todo).ram THEN Head(todo).ram[x] ELSE config[x]
    PROVE  IdentityComing(id)' /\ Ordinary(Rest(Head(todo)))
<1> DEFINE w == Head(todo)
           r == Rest(w)
<1>1. w = todo[1] /\ Legal(w)
  BY FirstWrite
<1>2. /\ r \in Writes /\ r.addr = w.addr + 1 /\ r.data = Tail(w.data) /\ r.ram = nothing
  BY <1>1, RestOfWrite
<1>3. /\ DOMAIN todo' = DOMAIN todo /\ 1 \in DOMAIN todo /\ todo'[1] = r
      /\ \A k \in DOMAIN todo : k # 1 => todo'[k] = todo[k]
  BY <1>2, RestFirst
<1>4. /\ w.addr \in Nat /\ w.data \in Seq(Byte) /\ Len(w.data) \in Nat /\ Len(w.data) <= 4
      /\ DOMAIN w.ram \subseteq {"FLiM", "CANID", "nodeNum"}
  BY <1>1, WriteData, ConfigAfter DEF Ordinary, Types
<1>5. w.addr >= 9
  <2> DEFINE d == w.data
             a == w.addr
             n == Len(d)
  <2>1. /\ a \in Nat /\ n \in Nat /\ n > 1
        /\ (a \in 0 .. 3 /\ n = 1) \/ (a = 5 /\ d = <<0>>) \/ a >= 9
    BY <1>4 DEF Ordinary
  <2>2. Len(<<0>>) = 1
    OBVIOUS
  <2>3. d = <<0>> => n = 1
    BY <2>2, Zenon
  <2> HIDE DEF a, d, n
  <2>4. n # 1
    BY <2>1
  <2>5. a >= 9
    BY <2>1, <2>3, <2>4, Zenon
  <2> QED
    BY <2>5 DEF a
<1> HIDE DEF w, r
<1>6. Ordinary(r)
  <2>1. Len(r.data) = Len(w.data) - 1
    BY <1>2, <1>4 DEF w
  <2> QED
    BY <1>2, <1>4, <1>5, <2>1 DEF Ordinary
<1>7. \A a \in 0 .. 3 : stored'[a] = stored[a] /\ w.addr # a /\ r.addr # a
  <2> SUFFICES ASSUME NEW a \in 0 .. 3
               PROVE  stored'[a] = stored[a] /\ w.addr # a /\ r.addr # a
    OBVIOUS
  <2>1. a \in Addr /\ a \notin w.addr .. w.addr + 1 - 1
    BY <1>4, <1>5, LowAddresses
  <2> QED
    BY <1>2, <1>4, <1>5, <2>1 DEF Done, w
<1>8. ASSUME NEW a \in 0 .. 3
      PROVE  /\ \A k \in DOMAIN todo' : todo'[k].addr = a => todo'[k].data = <<id[a]>>
             /\ (\A k \in DOMAIN todo' : todo'[k].addr # a) => stored'[a] = id[a]
  <2>1. /\ \A k \in DOMAIN todo : todo[k].addr = a => todo[k].data = <<id[a]>>
        /\ (\A k \in DOMAIN todo : todo[k].addr # a) => stored[a] = id[a]
    BY DEF IdentityComing
  <2>2. \A k \in DOMAIN todo' : todo'[k].addr = a => todo'[k].data = <<id[a]>>
    BY <1>3, <1>7, <2>1
  <2>3. ASSUME \A k \in DOMAIN todo' : todo'[k].addr # a
        PROVE  stored'[a] = id[a]
    <3>1. \A k \in DOMAIN todo : todo[k].addr # a
      BY <1>1, <1>3, <1>7, <2>3
    <3> QED
      BY <1>7, <2>1, <3>1
  <2> QED
    BY <2>2, <2>3
<1>9. ASSUME NEW x \in {"FLiM", "CANID", "nodeNum"}
      PROVE  /\ \A k \in DOMAIN todo' : x \in DOMAIN todo'[k].ram => todo'[k].ram[x] = loadNVs(id)[x]
             /\ (\A k \in DOMAIN todo' : x \notin DOMAIN todo'[k].ram) => config'[x] = loadNVs(id)[x]
  <2>1. /\ \A k \in DOMAIN todo : x \in DOMAIN todo[k].ram => todo[k].ram[x] = loadNVs(id)[x]
        /\ (\A k \in DOMAIN todo : x \notin DOMAIN todo[k].ram) => config[x] = loadNVs(id)[x]
    BY DEF IdentityComing
  <2>2. config'[x] = IF x \in DOMAIN w.ram THEN w.ram[x] ELSE config[x]
    BY DEF w
  <2>3. x \notin DOMAIN r.ram
    BY <1>2 DEF nothing
  <2> QED
    BY <1>1, <1>3, <2>1, <2>2, <2>3
<1>10. ASSUME NEW k \in DOMAIN todo', todo'[k].addr = 0 /\ todo'[k].data = << 1 >>
       PROVE  /\ numberIn(id) # 0
              /\ \A j \in DOMAIN todo' : j > k => todo'[j].addr \notin {2, 3}
  <2>1. k # 1
    BY <1>3, <1>7, <1>10
  <2>2. k \in DOMAIN todo /\ todo[k].addr = 0 /\ todo[k].data = <<1>>
    BY <1>3, <1>10, <2>1
  <2>3. numberIn(id) # 0 /\ \A j \in DOMAIN todo : j > k => todo[j].addr \notin {2, 3}
    BY <2>2 DEF IdentityComing
  <2>4. r.addr \notin {2, 3}
    BY <1>2, <1>4, <1>5
  <2> QED
    BY <1>3, <2>3, <2>4
<1> QED
  BY <1>6, <1>8, <1>9, <1>10 DEF IdentityComing, r, w

-----------------------------------------------------------------------------
(* A reset.                                                                 *)

\* A reset does its writes in order.
LEMMA ResetHead ==
    ASSUME Types, ResetOnItsWay, resetting, todo # <<>>
    PROVE  /\ done \in Nat /\ done + 1 \in 1 .. Len(resetModule)
           /\ Head(todo) = resetModule[done + 1]
           /\ Len(todo) = Len(resetModule) - done
<1>1. Len(todo) \in Nat /\ 1 \in DOMAIN todo /\ Head(todo) = todo[1]
  BY FirstWrite
<1>2. Len(resetModule) \in Nat
  BY ResetWrites DEF Types
<1>3. /\ Len(todo) <= Len(resetModule)
      /\ todo[1] = resetModule[done + 1]
  BY <1>1 DEF ResetOnItsWay
<1>4. Len(todo) >= 1
  BY <1>1 DEF Types
<1> QED
  BY <1>1, <1>2, <1>3, <1>4 DEF done

\* A write other than those of whole pages, in a reset.
LEMMA ResetHeads ==
    ASSUME Types, ResetOnItsWay, resetting, todo # <<>>
    PROVE  LET L == Len(erased)
               w == Head(todo)
           IN  /\ L \in Nat /\ done \in Nat
               /\ done + 1 <= L => w = erased[done + 1] /\ done + 1 \in 1 .. L
               /\ done \in L .. L + 3 => w = [addr |-> done - L, data |-> <<0>>, ram |-> nothing]
               /\ done = L + 4 => w = [addr |-> 5, data |-> <<99>>, ram |-> nothing]
               /\ done >= L + 5 => w.addr >= 10 /\ w.addr \in Nat /\ w.data = <<0>> /\ w.ram = nothing
<1> DEFINE L == Len(erased)
           w == Head(todo)
<1>1. /\ L \in Nat
      /\ Len(resetModule) = L + 5 + EE_NUM_NVS
      /\ \A k \in 1 .. L : resetModule[k] = erased[k]
      /\ \A i \in 0 .. 3 : resetModule[L + 1 + i] = [addr |-> i, data |-> <<0>>, ram |-> nothing]
      /\ resetModule[L + 5] = [addr |-> 5, data |-> <<99>>, ram |-> nothing]
      /\ \A i \in 1 .. EE_NUM_NVS : resetModule[L + 5 + i] =
            [addr |-> EE_NVS_START + (i - 1), data |-> <<0>>, ram |-> nothing]
  BY ResetWrites DEF Types
<1>2. done \in Nat /\ done + 1 \in 1 .. Len(resetModule) /\ w = resetModule[done + 1]
  BY ResetHead
<1> HIDE DEF L, w
<1>3. ASSUME done + 1 <= L
      PROVE  w = erased[done + 1] /\ done + 1 \in 1 .. L
  BY <1>1, <1>2, <1>3
<1>4. ASSUME done \in L .. L + 3
      PROVE  w = [addr |-> done - L, data |-> <<0>>, ram |-> nothing]
  <2>1. done - L \in 0 .. 3 /\ L + 1 + (done - L) = done + 1
    BY <1>1, <1>2, <1>4
  <2>2. resetModule[L + 1 + (done - L)] = [addr |-> done - L, data |-> <<0>>, ram |-> nothing]
    BY <1>1, <2>1
  <2> QED
    BY <1>2, <2>1, <2>2, Zenon
<1>5. ASSUME done = L + 4
      PROVE  w = [addr |-> 5, data |-> <<99>>, ram |-> nothing]
  <2>1. done + 1 = L + 5
    BY <1>1, <1>5
  <2> QED
    BY <1>1, <1>2, <2>1
<1>6. ASSUME done >= L + 5
      PROVE  w.addr >= 10 /\ w.addr \in Nat /\ w.data = <<0>> /\ w.ram = nothing
  <2> DEFINE i == done - (L + 4)
  <2>1. i \in 1 .. EE_NUM_NVS /\ L + 5 + i = done + 1
    BY <1>1, <1>2, <1>6, LowAddresses
  <2>2. w = [addr |-> EE_NVS_START + (i - 1), data |-> <<0>>, ram |-> nothing]
    BY <1>1, <1>2, <2>1
  <2>3. EE_NVS_START + (i - 1) \in Nat /\ EE_NVS_START + (i - 1) >= 10
    BY <2>1, LowAddresses
  <2> HIDE DEF i
  <2> QED
    BY <2>2, <2>3
<1> QED
  BY <1>1, <1>2, <1>3, <1>4, <1>5, <1>6 DEF L, w

\* In place, a reset writes byte by byte.
LEMMA ResetBytewise ==
    ASSUME Types, Internal, ResetOnItsWay, resetting, todo # <<>>
    PROVE  Len(Head(todo).data) = 1
<1> DEFINE L == Len(erased)
           d == Head(todo).data
<1>1. /\ L \in Nat /\ done \in Nat
      /\ done + 1 <= L => Head(todo) = erased[done + 1] /\ done + 1 \in 1 .. L
      /\ done \in L .. L + 3 => d = <<0>>
      /\ done = L + 4 => d = <<99>>
      /\ done >= L + 5 => d = <<0>>
  BY ResetHeads
<1>2. done + 1 \in 1 .. L => erased[done + 1] = [addr |-> 9 + (done + 1), data |-> <<BLANK>>, ram |-> nothing]
  BY Erased DEF Types
<1>3. done + 1 <= L => d = <<BLANK>>
  BY <1>1, <1>2
<1>4. done + 1 <= L \/ done \in L .. L + 3 \/ done = L + 4 \/ done >= L + 5
  BY <1>1
<1>5. d = <<0>> \/ d = <<99>> \/ d = <<BLANK>>
  BY <1>1, <1>3, <1>4
<1>6. Len(<<0>>) = 1 /\ Len(<<99>>) = 1 /\ Len(<<BLANK>>) = 1
  OBVIOUS
<1> QED
  BY <1>5, <1>6, Zenon

\* Every byte behind the identity is erased by one of the erasing writes.
LEMMA ErasedBy ==
    ASSUME Types, NEW a \in Addr
    PROVE  /\ a >= 10 \/ Flash => erasedBy(a) \in 1 .. Len(erased)
           /\ \A k \in 1 .. Len(erased) :
                /\ (a \in erased[k].addr .. erased[k].addr + Len(erased[k].data) - 1) =>
                     erased[k].data[a - erased[k].addr + 1] = BLANK
                /\ (a >= 10 \/ Flash) /\ erasedBy(a) = k =>
                     a \in erased[k].addr .. erased[k].addr + Len(erased[k].data) - 1
<1>1. a \in Nat /\ a <= Size - 1
  BY PageOfAddr, Sizes DEF Addr
<1>2. CASE Internal
  <2>1. /\ Len(erased) = Size - 10
        /\ \A k \in 1 .. Len(erased) : erased[k] = [addr |-> 9 + k, data |-> <<BLANK>>, ram |-> nothing]
    BY <1>2, Erased DEF Types
  <2>2. ~Flash /\ erasedBy(a) = a - 9
    BY <1>2 DEF Internal, Flash, erasedBy
  <2>3. ASSUME NEW k \in 1 .. Len(erased)
        PROVE  /\ (a \in erased[k].addr .. erased[k].addr + Len(erased[k].data) - 1) =>
                    erased[k].data[a - erased[k].addr + 1] = BLANK
               /\ erasedBy(a) = k =>
                    a \in erased[k].addr .. erased[k].addr + Len(erased[k].data) - 1
    <3> DEFINE from == erased[k].addr
               data == erased[k].data
               len == Len(data)
    <3>1. from = 9 + k /\ data = <<BLANK>> /\ len = 1
      BY <2>1
    <3>2. data[1] = BLANK
      BY <3>1
    <3>3. k \in Nat
      BY Sizes, <2>1
    <3> HIDE DEF from, data, len
    <3>4. a \in from .. from + len - 1 <=> a = 9 + k
      BY <1>1, <3>1, <3>3
    <3>5. a = 9 + k => a - from + 1 = 1
      BY <3>1, <3>3
    <3>6. erasedBy(a) = k => a = 9 + k
      BY <1>1, <2>2, <3>3
    <3>7. /\ (a \in from .. from + len - 1) => data[a - from + 1] = BLANK
          /\ erasedBy(a) = k => a \in from .. from + len - 1
      BY <3>2, <3>4, <3>5, <3>6
    <3> QED
      BY <3>7 DEF from, data, len
  <2>4. a >= 10 => erasedBy(a) \in 1 .. Len(erased)
    BY <1>1, <2>1, <2>2, Sizes
  <2> QED
    BY <2>2, <2>3, <2>4
<1>3. CASE Flash
  <2> DEFINE blanks == [i \in 1 .. FLASH_PAGE_SIZE |-> BLANK]
             P == FLASH_PAGE_SIZE
             page == a \div P
             i == a % P
  <2>1. /\ Len(erased) = NUM_FLASH_PAGES
        /\ \A k \in 1 .. Len(erased) :
             /\ erased[k] = [addr |-> pageStart(k - 1), ram |-> nothing, data |-> blanks]
             /\ newPage(erased[k]) = k - 1
    BY <1>3, Erased DEF Types
  <2>2. erasedBy(a) = page + 1
    BY <1>3 DEF Internal, Flash, erasedBy
  <2>3. /\ page \in Pages /\ i \in 0 .. P - 1 /\ a = pageStart(page) + i
    BY PageOfAddr
  <2>4. page \in 0 .. NUM_FLASH_PAGES - 1 /\ P \in Nat /\ NUM_FLASH_PAGES \in Nat
    BY <2>3, Sizes DEF Pages
  <2>5. blanks \in [1 .. P -> Byte] /\ \A j \in 1 .. P : blanks[j] = BLANK
    BY LowAddresses
  <2>6. Len(blanks) = P
    BY <2>4, <2>5, FunctionIsSeq
  <2>7. ASSUME NEW k \in 1 .. Len(erased)
        PROVE  /\ (a \in erased[k].addr .. erased[k].addr + Len(erased[k].data) - 1) =>
                    erased[k].data[a - erased[k].addr + 1] = BLANK
               /\ erasedBy(a) = k =>
                    a \in erased[k].addr .. erased[k].addr + Len(erased[k].data) - 1
    <3> DEFINE from == erased[k].addr
               data == erased[k].data
               len == Len(data)
    <3>1. from = pageStart(k - 1) /\ data = blanks /\ len = P
      <4> HIDE DEF blanks, P
      <4>1. erased[k] = [addr |-> pageStart(k - 1), ram |-> nothing, data |-> blanks]
        BY <2>1
      <4>2. from = pageStart(k - 1) /\ data = blanks
        BY <4>1
      <4> QED
        BY <2>6, <4>2
    <3>2. k - 1 \in Nat /\ k - 1 \in Pages
      BY <2>1, <2>4 DEF Pages
    <3>3. from \in Nat
      BY <3>1, <3>2, Sizes DEF pageStart
    <3>4. erasedBy(a) = k => a = from + i
      BY <2>2, <2>3, <2>4, <3>1, <3>2
    <3> HIDE DEF from, data, len, i, blanks, P
    <3>5. erasedBy(a) = k => a \in from .. from + len - 1
      BY <2>3, <2>4, <3>1, <3>3, <3>4
    <3>6. (a \in from .. from + len - 1) => a - from + 1 \in 1 .. P
      BY <1>1, <2>4, <3>1, <3>3
    <3>7. (a \in from .. from + len - 1) => data[a - from + 1] = BLANK
      BY <2>5, <3>1, <3>6
    <3> QED
      BY <3>5, <3>7 DEF from, data, len
  <2>8. erasedBy(a) \in 1 .. Len(erased)
    <3> HIDE DEF page
    <3> QED
      BY <2>1, <2>2, <2>4
  <2> QED
    BY <2>7, <2>8
<1> QED
  BY <1>2, <1>3, Erased DEF Types

\* The next write of a reset is done.
LEMMA NextOfReset ==
    ASSUME Types, todo # <<>>, resetting, ResetOnItsWay,
           Done(Head(todo), Len(Head(todo).data)), todo' = Tail(todo),
           eeprom_type' = eeprom_type, resetting' = resetting
    PROVE  ResetOnItsWay' /\ done' = done + 1
<1> DEFINE L == Len(erased)
           w == Head(todo)
           len == Len(w.data)
<1>1. /\ Legal(w)
      /\ Len(todo') = Len(todo) - 1 /\ Len(todo) \in Nat
      /\ \A k \in DOMAIN todo' : k + 1 \in DOMAIN todo /\ todo'[k] = todo[k + 1]
  BY FirstWrite
<1>2. resetModule' = resetModule /\ erased' = erased
  BY DEF resetModule, erased
<1>3. done \in Nat /\ Len(resetModule) \in Nat
  BY ResetHead, ResetWrites DEF Types
<1>4. done' = done + 1
  BY <1>1, <1>2, <1>3 DEF done
<1>5. /\ Len(todo) <= Len(resetModule)
      /\ \A k \in DOMAIN todo : todo[k] = resetModule[done + k]
      /\ done <= L + 5 =>
           \A a \in Addr : erasedBy(a) <= done /\ (a >= 10 \/ (Flash /\ done <= L)) => stored[a] = BLANK
      /\ done <= L + 5 => \A i \in 0 .. 3 : done >= L + 1 + i => stored[i] = 0
  BY DEF ResetOnItsWay
<1>6. Len(todo') <= Len(resetModule')
  BY <1>1, <1>2, <1>3, <1>5
<1>7. ASSUME NEW k \in DOMAIN todo'
      PROVE  todo'[k] = resetModule'[done' + k]
  <2>1. todo'[k] = resetModule[done + (k + 1)]
    BY <1>1, <1>5
  <2>2. DOMAIN todo' = 1 .. Len(todo) - 1
    BY FirstWrite DEF Types
  <2>3. done + (k + 1) = (done + 1) + k
    BY <1>1, <1>3, <2>2
  <2> QED
    BY <1>2, <1>4, <2>1, <2>3
<1>8. /\ L \in Nat
      /\ done + 1 <= L => w = erased[done + 1] /\ done + 1 \in 1 .. L
      /\ done \in L .. L + 3 => w = [addr |-> done - L, data |-> <<0>>, ram |-> nothing]
      /\ done = L + 4 => w = [addr |-> 5, data |-> <<99>>, ram |-> nothing]
  BY ResetHeads
<1>9. \A a \in Addr : a \in Nat /\ stored'[a] =
         IF a \in w.addr .. w.addr + len - 1 THEN w.data[a - w.addr + 1] ELSE stored[a]
  BY PageOfAddr DEF Done
<1>10. (Flash' <=> Flash) /\ (Internal' <=> Internal) /\ \A a : erasedBy(a)' = erasedBy(a)
  BY DEF Flash, Internal, erasedBy
<1> HIDE DEF w, len, L
<1>11. CASE done + 1 <= L
  <2>1. ASSUME NEW a \in Addr, erasedBy(a) <= done + 1, a >= 10 \/ Flash
        PROVE  stored'[a] = BLANK
    <3>1. /\ erasedBy(a) \in 1 .. L
          /\ \A k \in 1 .. L :
                /\ (a \in erased[k].addr .. erased[k].addr + Len(erased[k].data) - 1) =>
                     erased[k].data[a - erased[k].addr + 1] = BLANK
                /\ (a >= 10 \/ Flash) /\ erasedBy(a) = k =>
                     a \in erased[k].addr .. erased[k].addr + Len(erased[k].data) - 1
      BY <2>1, ErasedBy DEF L
    <3>2. w = erased[done + 1] /\ done + 1 \in 1 .. L
      BY <1>8, <1>11
    <3>3. /\ a \in w.addr .. w.addr + len - 1 => w.data[a - w.addr + 1] = BLANK
          /\ erasedBy(a) = done + 1 => a \in w.addr .. w.addr + len - 1
      BY <2>1, <3>1, <3>2 DEF len
    <3>4. erasedBy(a) <= done => stored[a] = BLANK
      BY <1>3, <1>5, <1>8, <1>11, <2>1
    <3>5. erasedBy(a) <= done \/ erasedBy(a) = done + 1
      BY <1>3, <1>8, <2>1, <3>1
    <3> QED
      BY <1>9, <3>3, <3>4, <3>5
  <2>2. \A i \in 0 .. 3 : ~(done + 1 >= L + 1 + i)
    BY <1>3, <1>8, <1>11
  <2>3. ResetOnItsWay'
    BY <1>2, <1>4, <1>6, <1>7, <1>10, <2>1, <2>2 DEF ResetOnItsWay, L
  <2> QED
    BY <1>4, <2>3
<1>12. CASE done \in L .. L + 4
  <2>1. /\ w.addr \in 0 .. 9 /\ len = 1
        /\ done \in L .. L + 3 => w.addr = done - L /\ w.data = <<0>> /\ w.data[1] = 0
        /\ done = L + 4 => w.addr = 5
    <3>1. CASE done \in L .. L + 3
      <4>1. w = [addr |-> done - L, data |-> <<0>>, ram |-> nothing]
        BY <1>8, <3>1
      <4>2. w.addr = done - L /\ w.data = <<0>>
        BY <4>1
      <4>3. Len(<<0>>) = 1 /\ <<0>>[1] = 0
        OBVIOUS
      <4>4. done - L \in 0 .. 9 /\ done # L + 4
        BY <1>3, <1>8, <3>1
      <4> QED
        BY <4>2, <4>3, <4>4, Zenon DEF len
    <3>2. CASE done = L + 4
      <4>1. w = [addr |-> 5, data |-> <<99>>, ram |-> nothing]
        BY <1>8, <3>2
      <4>2. w.addr = 5 /\ w.data = <<99>>
        BY <4>1
      <4>3. Len(<<99>>) = 1
        OBVIOUS
      <4>4. 5 \in 0 .. 9 /\ done \notin L .. L + 3
        BY <1>3, <1>8, <3>2
      <4> QED
        BY <4>2, <4>3, <4>4, Zenon DEF len
    <3> QED
      BY <1>3, <1>8, <1>12, <3>1, <3>2
  <2> DEFINE from == w.addr
  <2>2. from \in 0 .. 9 /\ len = 1
    BY <2>1
  <2>3. ASSUME NEW a \in Addr
        PROVE  /\ a # from => stored'[a] = stored[a]
               /\ a = from => stored'[a] = w.data[1]
    <3>1. a \in Nat /\ stored'[a] =
             IF a \in from .. from + len - 1 THEN w.data[a - from + 1] ELSE stored[a]
      BY <1>9
    <3> HIDE DEF from
    <3>2. (a \in from .. from + len - 1 <=> a = from) /\ (a = from => a - from + 1 = 1)
      BY <2>2, <3>1
    <3> QED
      BY <3>1, <3>2
  <2> HIDE DEF from
  <2>4. ASSUME NEW a \in Addr, a >= 10
        PROVE  stored'[a] = BLANK
    <3>1. erasedBy(a) \in 1 .. L
      BY <2>4, ErasedBy DEF L
    <3>2. erasedBy(a) <= done
      BY <1>3, <1>8, <1>12, <3>1
    <3>3. done <= L + 5
      BY <1>3, <1>8, <1>12
    <3>4. stored[a] = BLANK
      BY <1>5, <2>4, <3>2, <3>3
    <3>5. a # from
      BY <1>9, <2>2, <2>4
    <3> QED
      BY <2>3, <3>4, <3>5
  <2>5. ~(done + 1 <= L)
    BY <1>3, <1>8, <1>12
  <2>6. ASSUME NEW i \in 0 .. 3, done + 1 >= L + 1 + i
        PROVE  stored'[i] = 0
    <3>1. i \in Addr
      BY LowAddresses
    <3>2. CASE i = done - L
      <4>1. done \in L .. L + 3
        BY <1>3, <1>8, <1>12, <3>2
      <4>2. i = from /\ w.data[1] = 0
        BY <2>1, <3>2, <4>1 DEF from
      <4> QED
        BY <2>3, <3>1, <4>2
    <3>3. CASE i # done - L
      <4>1. done >= L + 1 + i /\ done <= L + 5
        BY <1>3, <1>8, <1>12, <2>6, <3>3
      <4>2. stored[i] = 0
        BY <1>5, <4>1
      <4>3. from = done - L \/ from = 5
        BY <1>3, <1>8, <1>12, <2>1 DEF from
      <4>4. i # from
        BY <3>3, <4>3
      <4> QED
        BY <2>3, <3>1, <4>2, <4>4
    <3> QED
      BY <3>2, <3>3
  <2>7. ResetOnItsWay'
    BY <1>2, <1>4, <1>6, <1>7, <1>10, <2>4, <2>5, <2>6 DEF ResetOnItsWay, L
  <2> QED
    BY <1>4, <2>7
<1>13. CASE done >= L + 5
  <2>1. ~(done + 1 <= L + 5)
    BY <1>3, <1>8, <1>13
  <2>2. ResetOnItsWay'
    BY <1>2, <1>4, <1>6, <1>7, <2>1 DEF ResetOnItsWay, L
  <2> QED
    BY <1>4, <2>2
<1> QED
  BY <1>3, <1>8, <1>11, <1>12, <1>13

-----------------------------------------------------------------------------
(* The invariant.                                                           *)

\* When nothing is under way and the copy is the page it is taken for, all is well.
LEMMA Quiet ==
    ASSUME NEW bytes \in Mem, eeprom_type \in EepromTypes, rom = bytes, curr_page_num = 0,
           cache_page = cachedAtBegin(bytes) \/ cache_page = pageOf(bytes, 0), cache_page \in PageBytes,
           writeback = [at |-> "idle", page |-> 0], todo = <<>>, config = loadNVs(bytes),
           resetting = FALSE
    PROVE  IInv
<1>1. writeback.at = "idle" /\ 0 \in Pages
  BY Sizes
<1>2. stored = bytes
  BY <1>1 DEF stored
<1> DEFINE id == [a \in 0 .. 3 |-> bytes[a]]
<1>3. id \in [0 .. 3 -> Byte] /\ \A a \in 0 .. 3 : id[a] = bytes[a]
  BY LowAddresses DEF Mem
<1>4. loadNVs(bytes) = loadNVs(id)
  BY <1>3 DEF loadNVs
<1>5. config \in Config
  BY <1>3, <1>4, IdentityBytes
<1>6. todo \in Seq(Writes) /\ DOMAIN todo = {}
  OBVIOUS
<1>7. Types
  BY <1>1, <1>5, <1>6 DEF Types
<1>8. CacheTrue
  <2>1. idle
    BY <1>1 DEF idle
  <2>2. Flash => cache_page = pageOf(bytes, 0)
    BY DEF cachedAtBegin
  <2> QED
    BY <1>1, <1>2, <2>1, <2>2 DEF CacheTrue
<1>9. ResetOnItsWay
  BY DEF ResetOnItsWay
<1>10. IdentityComing(id)
  BY <1>2, <1>3, <1>4, <1>6 DEF IdentityComing
<1>11. CallOnItsWay
  BY <1>3, <1>6, <1>10 DEF CallOnItsWay
<1> QED
  BY <1>7, <1>8, <1>9, <1>11 DEF IInv

\* The invariant holds at the start, and every step keeps it: a restart,
LEMMA InitIInv == Init => IInv
<1> SUFFICES ASSUME Init
             PROVE  IInv
  OBVIOUS
<1>1. rom \in Mem
  BY LowAddresses DEF Init, Mem
<1>2. cache_page = pageOf(rom, 0) /\ cache_page \in PageBytes
  BY <1>1, Sizes, PageBytesOf DEF Init
<1> QED
  BY <1>1, <1>2, Quiet DEF Init

\* on any memory,
LEMMA BeginIInv ==
    ASSUME IInv, NEW bytes \in Mem, Begin(bytes)
    PROVE  IInv'
<1>1. /\ rom' = bytes /\ curr_page_num' = 0 /\ writeback' = [at |-> "idle", page |-> 0]
      /\ todo' = <<>> /\ config' = loadNVs(bytes) /\ resetting' = FALSE
      /\ cache_page' = cachedAtBegin(bytes) /\ eeprom_type' = eeprom_type
  BY DEF Begin
<1>2. (Flash' <=> Flash) /\ (Internal' <=> Internal)
  BY <1>1 DEF Flash, Internal
<1>3. cache_page' \in PageBytes
  BY <1>1, Sizes, PageBytesOf DEF cachedAtBegin, IInv, Types
<1>4. eeprom_type' \in EepromTypes
  BY <1>1 DEF IInv, Types
<1>5. writeback'.at = "idle" /\ writeback'.page = 0 /\ 0 \in Pages
  BY <1>1, Sizes
<1>6. stored' = bytes
  BY <1>1, <1>5 DEF stored
<1> DEFINE id == [a \in 0 .. 3 |-> bytes[a]]
<1>7. id \in [0 .. 3 -> Byte] /\ \A a \in 0 .. 3 : id[a] = bytes[a]
  BY LowAddresses DEF Mem
<1>8. loadNVs(bytes) = loadNVs(id)
  BY <1>7 DEF loadNVs
<1>9. config' \in Config
  BY <1>1, <1>7, <1>8, IdentityBytes
<1>10. todo' \in Seq(Writes) /\ DOMAIN todo' = {}
  BY <1>1
<1> HIDE DEF id
<1>11. Types'
  BY <1>1, <1>3, <1>4, <1>5, <1>9, <1>10 DEF Types
<1>12. CacheTrue'
  <2>1. idle'
    BY <1>5 DEF idle
  <2>2. Flash => cache_page' = pageOf(bytes, 0)
    BY <1>1 DEF cachedAtBegin
  <2> QED
    BY <1>1, <1>2, <1>5, <1>6, <2>1, <2>2 DEF CacheTrue, pageOf
<1>13. ResetOnItsWay'
  BY <1>1 DEF ResetOnItsWay
<1>14. IdentityComing(id)'
  BY <1>1, <1>6, <1>7, <1>8, <1>10 DEF IdentityComing
<1>15. CallOnItsWay'
  BY <1>1, <1>7, <1>10, <1>14 DEF CallOnItsWay
<1> QED
  BY <1>11, <1>12, <1>13, <1>15 DEF IInv

\* (no write crosses a page while the memory stays the same,)
LEMMA LegalStays ==
    ASSUME eeprom_type' = eeprom_type, \A k \in DOMAIN todo' : Legal(todo'[k])
    PROVE  (\A k \in DOMAIN todo : Legal(todo[k]))'
<1>1. Flash' <=> Flash
  BY DEF Flash
<1> QED
  BY <1>1 DEF Legal

\* A call is asked for: the memory and its copy stay.
LEMMA AskIInv ==
    ASSUME IInv, idle, todo = <<>>,
           UNCHANGED <<eeprom_type, rom, cache_page, curr_page_num, writeback, config>>,
           todo' \in Seq(Writes), \A k \in DOMAIN todo' : Legal(todo'[k]),
           resetting' \in BOOLEAN
    PROVE  Types' /\ CacheTrue' /\ stored' = stored
<1>1. (Flash' <=> Flash) /\ (Internal' <=> Internal) /\ stored' = stored
  BY DEF Flash, Internal, stored
<1>2. (\A k \in DOMAIN todo : Legal(todo[k]))'
  BY LegalStays
<1>3. Types'
  BY <1>2 DEF IInv, Types
<1>4. Flash => cache_page = pageOf(stored, curr_page_num)
  BY DEF IInv, CacheTrue, idle
<1>5. CacheTrue'
  BY <1>1, <1>4 DEF IInv, CacheTrue, idle, pageOf
<1> QED
  BY <1>1, <1>3, <1>5

\* a call,
LEMMA RequestIInv ==
    ASSUME EventsFit, IInv, Request
    PROVE  IInv'
<1>1. /\ idle /\ todo = <<>> /\ ~resetting
      /\ \E id : CallOK(todo', id)
      /\ UNCHANGED <<eeprom_type, rom, cache_page, curr_page_num, writeback, config, resetting>>
  BY RequestIsOK DEF IInv
<1>2. PICK id : CallOK(todo', id)
  BY <1>1
<1>3. /\ todo' \in Seq(Writes) /\ resetting' \in BOOLEAN
      /\ \A k \in DOMAIN todo' : Legal(todo'[k]) /\ Ordinary(todo'[k])
  BY <1>1, <1>2 DEF CallOK, IInv, Types
<1>4. Types' /\ CacheTrue' /\ stored' = stored
  BY <1>1, <1>3, AskIInv
<1>5. ResetOnItsWay'
  BY <1>1 DEF ResetOnItsWay
<1>6. IdentityComing(id)' /\ id \in [0 .. 3 -> Byte]
  BY <1>1, <1>2, <1>4 DEF CallOK, IdentityComing
<1>7. CallOnItsWay'
  BY <1>3, <1>6 DEF CallOnItsWay
<1> QED
  BY <1>4, <1>5, <1>7 DEF IInv

\* a reset,
LEMMA ResetIInv ==
    ASSUME IInv, Reset
    PROVE  IInv'
<1>1. /\ idle /\ todo = <<>> /\ todo' = resetModule /\ resetting' = TRUE
      /\ UNCHANGED <<eeprom_type, rom, cache_page, curr_page_num, writeback, config>>
  BY DEF Reset, Call, cached
<1> DEFINE L == Len(erased)
<1>2. /\ L \in Nat /\ Len(resetModule) = L + 5 + EE_NUM_NVS /\ EE_NUM_NVS \in Nat
      /\ resetModule \in Seq(Writes)
      /\ \A k \in 1 .. Len(resetModule) : Legal(resetModule[k])
  BY ResetWrites, LowAddresses DEF IInv, Types
<1>3. DOMAIN resetModule = 1 .. Len(resetModule)
  BY <1>2
<1>4. Types' /\ CacheTrue' /\ stored' = stored
  BY <1>1, <1>2, <1>3, AskIInv
<1>5. resetModule' = resetModule /\ erased' = erased
  BY <1>1 DEF resetModule, erased
<1>6. (Flash' <=> Flash) /\ (Internal' <=> Internal) /\ \A a : erasedBy(a)' = erasedBy(a)
  BY <1>1 DEF Flash, Internal, erasedBy
<1>7. done' = 0
  BY <1>1, <1>2, <1>5 DEF done
<1>8. \A k \in DOMAIN todo' : todo'[k] = resetModule'[done' + k]
  BY <1>1, <1>2, <1>3, <1>5, <1>7
<1>9. \A a \in Addr : a >= 10 \/ Flash => ~(erasedBy(a) <= 0)
  <2> SUFFICES ASSUME NEW a \in Addr, a >= 10 \/ Flash
               PROVE  ~(erasedBy(a) <= 0)
    OBVIOUS
  <2>1. erasedBy(a) \in 1 .. L
    BY ErasedBy DEF IInv
  <2> QED
    BY <1>2, <2>1
<1>10. \A i \in 0 .. 3 : ~(0 >= L + 1 + i)
  BY <1>2
<1>11. Len(todo') <= Len(resetModule')
  BY <1>1, <1>2, <1>5
<1>12. ResetOnItsWay'
  BY <1>5, <1>6, <1>7, <1>8, <1>9, <1>10, <1>11 DEF ResetOnItsWay
<1>13. CallOnItsWay'
  BY <1>1 DEF CallOnItsWay
<1> QED
  BY <1>4, <1>12, <1>13 DEF IInv

\* What a step that does a write keeps, in a call of either kind.
LEMMA HeadIsSmall ==
    ASSUME IInv, todo # <<>>, ~resetting
    PROVE  Ordinary(Head(todo)) /\ ~wholePage(Head(todo))
<1>1. Ordinary(Head(todo))
  BY FirstWrite DEF IInv, CallOnItsWay
<1>2. Len(Head(todo).data) \in Nat /\ Len(Head(todo).data) <= 4
  BY <1>1, FirstWrite, WriteData DEF IInv, Ordinary
<1> QED
  BY <1>1, <1>2, Sizes DEF wholePage

\* a byte of EEPROM,
LEMMA WriteByteIInv ==
    ASSUME IInv, WriteByte
    PROVE  IInv' /\ Len(todo') <= Len(todo)
<1> DEFINE w == Head(todo)
<1>1. /\ Internal /\ todo # <<>> /\ Done(w, 1) /\ stored = rom /\ stored' = rom'
  BY WriteByteDoes DEF IInv
<1>2. /\ config' = configAfter(w.ram)
      /\ todo' = (IF Len(w.data) > 1 THEN <<Rest(w)>> ELSE <<>>) \o Tail(todo)
      /\ UNCHANGED <<eeprom_type, cache_page, curr_page_num, writeback, resetting>>
  BY DEF WriteByte, Rest, cached
<1>3. Types /\ CacheTrue /\ ResetOnItsWay /\ CallOnItsWay
  BY DEF IInv
<1>4. /\ Legal(w) /\ Tail(todo) \in Seq(Writes)
      /\ \A k \in DOMAIN Tail(todo) : k + 1 \in DOMAIN todo /\ Tail(todo)[k] = todo[k + 1]
  BY <1>1, <1>3, FirstWrite
<1>5. Len(w.data) \in Nat /\ Len(w.data) >= 1 /\ w.ram \in Rams
  BY <1>4, WriteData
<1>6. /\ config' \in Config
      /\ \A x \in {"FLiM", "CANID", "nodeNum"} :
           config'[x] = IF x \in DOMAIN w.ram THEN w.ram[x] ELSE config[x]
  BY <1>2, <1>3, <1>5, ConfigAfter DEF Types
<1>7. \A k \in DOMAIN todo : Legal(todo[k])
  BY <1>3 DEF Types
<1> HIDE DEF w
<1> DEFINE len == Len(w.data)
<1>8. ASSUME todo' \in Seq(Writes), \A k \in DOMAIN todo' : Legal(todo'[k])
      PROVE  Types' /\ CacheTrue'
  <2>1. rom' \in Mem
    BY <1>1 DEF Done
  <2>2. (\A k \in DOMAIN todo : Legal(todo[k]))'
    BY <1>2, <1>8, LegalStays
  <2>3. Types'
    BY <1>2, <1>3, <1>6, <1>8, <2>1, <2>2 DEF Types
  <2>4. Internal' /\ ~Flash' /\ idle' /\ writeback'.at # "filled"
    BY <1>1, <1>2, <1>3 DEF Internal, Flash, CacheTrue, idle
  <2>5. CacheTrue'
    BY <2>4 DEF CacheTrue
  <2> QED
    BY <2>3, <2>5
<1>9. CASE Len(w.data) = 1
  <2>1. todo' = Tail(todo)
    <3>1. todo' = <<>> \o Tail(todo)
      BY <1>2, <1>9
    <3> QED
      BY <1>4, <3>1
  <2>2. Types' /\ CacheTrue'
    BY <1>4, <1>7, <1>8, <2>1
  <2>3. Done(w, Len(w.data))
    BY <1>1, <1>9
  <2>4. ResetOnItsWay'
    <3>1. CASE resetting
      BY <1>1, <1>2, <1>3, <2>1, <2>3, <3>1, NextOfReset DEF w
    <3>2. CASE ~resetting
      BY <1>2, <3>2 DEF ResetOnItsWay
    <3> QED
      BY <3>1, <3>2
  <2>5. CallOnItsWay'
    <3>1. CASE resetting
      BY <1>2, <3>1 DEF CallOnItsWay
    <3>2. CASE ~resetting
      <4>1. PICK id \in [0 .. 3 -> Byte] : IdentityComing(id)
        BY <1>3, <3>2 DEF CallOnItsWay
      <4>2. Ordinary(w)
        BY <1>1, <3>2, HeadIsSmall DEF w
      <4>3. IdentityComing(id)'
        BY <1>1, <1>3, <1>6, <2>1, <2>3, <4>1, <4>2, NextOfCall DEF w
      <4>4. \A k \in DOMAIN todo' : Ordinary(todo'[k])
        BY <1>3, <1>4, <2>1, <3>2 DEF CallOnItsWay
      <4> QED
        BY <4>3, <4>4 DEF CallOnItsWay
    <3> QED
      BY <3>1, <3>2
  <2>6. Len(todo') <= Len(todo)
    BY <1>1, <1>3, <2>1, FirstWrite
  <2> QED
    BY <2>2, <2>4, <2>5, <2>6 DEF IInv
<1>10. CASE Len(w.data) > 1
  <2>1. todo' = <<Rest(w)>> \o Tail(todo)
    BY <1>2, <1>10
  <2>2. Rest(w) \in Writes /\ Legal(Rest(w))
    BY <1>1, <1>4, <1>10, RestOfWrite
  <2>3. /\ todo' \in Seq(Writes) /\ Len(todo') = Len(todo)
        /\ DOMAIN todo' = DOMAIN todo /\ todo'[1] = Rest(w)
        /\ \A k \in DOMAIN todo : k # 1 => todo'[k] = todo[k]
    <3>1. Types /\ todo # <<>> /\ Rest(w) \in Writes
      BY <1>1, <1>3, <2>2
    <3> DEFINE r == Rest(w)
               new == <<r>> \o Tail(todo)
    <3>2. /\ new \in Seq(Writes) /\ Len(new) = Len(todo)
          /\ DOMAIN new = DOMAIN todo /\ new[1] = r
          /\ \A k \in DOMAIN todo : k # 1 => new[k] = todo[k]
      BY <3>1, RestFirst
    <3>3. todo' = new
      BY <2>1
    <3> HIDE DEF new
    <3> QED
      BY <3>2, <3>3
  <2>4. \A k \in DOMAIN todo' : Legal(todo'[k])
    BY <1>7, <2>2, <2>3
  <2>5. Types' /\ CacheTrue'
    BY <1>8, <2>3, <2>4
  <2>6. ~resetting
    <3>1. ASSUME resetting
          PROVE  Len(w.data) = 1
      BY <1>1, <1>3, <3>1, ResetBytewise DEF w
    <3>2. len \in Nat /\ len > 1 /\ (resetting => len = 1)
      BY <1>5, <1>10, <3>1
    <3> HIDE DEF len
    <3> QED
      BY <3>2
  <2>7. ResetOnItsWay'
    BY <1>2, <2>6 DEF ResetOnItsWay
  <2>8. PICK id \in [0 .. 3 -> Byte] : IdentityComing(id)
    BY <1>3, <2>6 DEF CallOnItsWay
  <2>9. Ordinary(w)
    BY <1>1, <2>6, HeadIsSmall DEF w
  <2>10. IdentityComing(id)' /\ Ordinary(Rest(w))
    BY <1>1, <1>3, <1>6, <1>10, <2>1, <2>8, <2>9, PartOfCall DEF w
  <2>11. \A k \in DOMAIN todo' : Ordinary(todo'[k])
    BY <1>3, <2>3, <2>6, <2>10 DEF CallOnItsWay
  <2>12. CallOnItsWay'
    BY <2>10, <2>11 DEF CallOnItsWay
  <2>13. Len(todo') <= Len(todo)
    BY <1>3, <2>3 DEF Types
  <2> QED
    BY <2>5, <2>7, <2>12, <2>13 DEF IInv
<1>11. len = 1 \/ len > 1
  <2>1. len \in Nat /\ len >= 1
    BY <1>5
  <2> HIDE DEF len
  <2> QED
    BY <2>1
<1> QED
  BY <1>9, <1>10, <1>11

\* (a step that stores nothing leaves a reset where it is,)
LEMMA SameReset ==
    ASSUME ResetOnItsWay, UNCHANGED <<eeprom_type, todo, resetting>>, stored' = stored
    PROVE  ResetOnItsWay'
<1>1. resetModule' = resetModule /\ erased' = erased
  BY DEF resetModule, erased
<1>2. (Flash' <=> Flash) /\ \A a : erasedBy(a)' = erasedBy(a)
  BY DEF Flash, Internal, erasedBy
<1>3. done' = done
  BY <1>1 DEF done
<1> QED
  BY <1>1, <1>2, <1>3 DEF ResetOnItsWay

\* (Fill makes the copy the page with the new bytes,)
LEMMA FillCopy ==
    ASSUME IInv, Fill
    PROVE  LET w == Head(todo)
               page == newPage(w)
           IN  /\ Flash /\ todo # <<>> /\ page \in Pages
               /\ cache_page' = overlaid(pageOf(rom, page), w.addr % FLASH_PAGE_SIZE, w.data)
               /\ cache_page' \in PageBytes
               /\ curr_page_num' \in Pages
               /\ writeback' = [at |-> "filled", page |-> page]
               /\ ~wholePage(w) => curr_page_num' = page
<1> DEFINE w == Head(todo)
           page == newPage(w)
           off == w.addr % FLASH_PAGE_SIZE
           P == FLASH_PAGE_SIZE
<1>1. Types /\ CacheTrue
  BY DEF IInv
<1>2. Flash /\ idle /\ todo # <<>> /\ stored = rom
  BY <1>1, FillKeeps DEF Fill
<1>3. Legal(w)
  BY <1>1, <1>2, FirstWrite
<1>4. /\ w.addr \in Addr /\ w.data \in Seq(Byte) /\ Len(w.data) \in Nat
      /\ DOMAIN w.data = 1 .. Len(w.data)
  BY <1>3, WriteData
<1>5. off + Len(w.data) <= P
  BY <1>2, <1>3 DEF Legal
<1>6. page \in Pages /\ off \in 0 .. P - 1 /\ off \in Nat /\ P \in Nat
  BY <1>4, PageOfAddr, Sizes DEF newPage
<1>7. rom \in Mem /\ cache_page \in PageBytes /\ curr_page_num \in Pages
  BY <1>1 DEF Types
<1>8. pageOf(rom, page) \in PageBytes
  BY <1>6, <1>7, PageBytesOf
<1>9. flash_cached_page(page) \in PageBytes
  BY <1>7, <1>8 DEF flash_cached_page
<1>10. cache_page' = overlaid(flash_cached_page(page), off, w.data)
  BY DEF Fill
<1>11. overlaid(flash_cached_page(page), off, w.data) = overlaid(pageOf(rom, page), off, w.data)
  <2>1. CASE ~wholePage(w)
    <3>1. cache_page = pageOf(rom, curr_page_num)
      BY <1>1, <1>2, <2>1 DEF CacheTrue, idle
    <3>2. flash_cached_page(page) = pageOf(rom, page)
      BY <3>1 DEF flash_cached_page
    <3> QED
      BY <3>2
  <2>2. CASE wholePage(w)
    <3> DEFINE x == overlaid(flash_cached_page(page), off, w.data)
               y == overlaid(pageOf(rom, page), off, w.data)
               len == Len(w.data)
    <3>1. len = P
      BY <2>2 DEF wholePage
    <3>2. /\ x \in PageBytes
          /\ \A i \in 0 .. P - 1 : x[i] = IF i \in off .. off + len - 1 THEN w.data[i - off + 1]
                                          ELSE flash_cached_page(page)[i]
      BY <1>4, <1>6, <1>9, Overlaid
    <3>3. /\ y \in PageBytes
          /\ \A i \in 0 .. P - 1 : y[i] = IF i \in off .. off + len - 1 THEN w.data[i - off + 1]
                                          ELSE pageOf(rom, page)[i]
      BY <1>4, <1>6, <1>8, Overlaid
    <3>4. off + len <= P
      BY <1>5
    <3> HIDE DEF x, y, len, off, P
    <3>5. \A i \in 0 .. P - 1 : i \in off .. off + len - 1
      BY <1>6, <3>1, <3>4
    <3>6. \A i \in 0 .. P - 1 : x[i] = y[i]
      BY <3>2, <3>3, <3>5
    <3>7. x \in [0 .. P - 1 -> Byte] /\ y \in [0 .. P - 1 -> Byte]
      BY <3>2, <3>3 DEF PageBytes, P
    <3>8. x = y
      BY <3>2, <3>3, <3>6, SamePage DEF P
    <3> QED
      BY <3>8 DEF x, y, off
  <2> QED
    BY <2>1, <2>2
<1>12. cache_page' \in PageBytes
  BY <1>4, <1>6, <1>9, <1>10, Overlaid
<1>13. pastPage(w) = {}
  <2>1. \A k \in DOMAIN w.data : ~(off + k > P)
    <3> DEFINE len == Len(w.data)
    <3>1. len \in Nat /\ off + len <= P /\ DOMAIN w.data = 1 .. len
      BY <1>4, <1>5
    <3> HIDE DEF len, off, P
    <3> QED
      BY <1>6, <3>1
  <2> QED
    BY <2>1 DEF pastPage
<1>14. /\ curr_page_num' \in Pages
       /\ writeback' = [at |-> "filled", page |-> page]
       /\ ~wholePage(w) => curr_page_num' = page
  BY <1>6, <1>7, <1>13 DEF Fill
<1> QED
  BY <1>2, <1>6, <1>10, <1>11, <1>12, <1>14

\* and the three steps of a write to flash,
LEMMA FillIInv ==
    ASSUME IInv, Fill
    PROVE  IInv'
<1> DEFINE w == Head(todo)
<1>1. /\ Flash /\ todo # <<>> /\ newPage(w) \in Pages
      /\ cache_page' = overlaid(pageOf(rom, newPage(w)), w.addr % FLASH_PAGE_SIZE, w.data)
      /\ cache_page' \in PageBytes
      /\ curr_page_num' \in Pages
      /\ writeback' = [at |-> "filled", page |-> newPage(w)]
      /\ ~wholePage(w) => curr_page_num' = newPage(w)
  BY FillCopy
<1>2. /\ config' = configAfter(w.ram)
      /\ UNCHANGED <<eeprom_type, rom, todo, resetting>>
  BY DEF Fill
<1>3. Types /\ CacheTrue /\ ResetOnItsWay /\ CallOnItsWay
  BY DEF IInv
<1>4. w = todo[1] /\ 1 \in DOMAIN todo /\ Legal(w)
  BY <1>1, <1>3, FirstWrite
<1>5. /\ config' \in Config
      /\ \A x \in {"FLiM", "CANID", "nodeNum"} :
           config'[x] = IF x \in DOMAIN w.ram THEN w.ram[x] ELSE config[x]
      /\ DOMAIN w.ram \subseteq {"FLiM", "CANID", "nodeNum"}
  BY <1>2, <1>3, <1>4, WriteData, ConfigAfter DEF Types
<1>6. stored' = stored
  BY <1>3, FillKeeps
<1>7. \A k \in DOMAIN todo : Legal(todo[k])
  BY <1>3 DEF Types
<1>8. writeback'.at = "filled" /\ writeback'.page = newPage(w)
  BY <1>1
<1>9. Types'
  <2>1. (\A k \in DOMAIN todo : Legal(todo[k]))'
    BY <1>2, <1>7, LegalStays
  <2>2. writeback' \in [at : {"idle", "filled", "erased"}, page : Pages]
    BY <1>1
  <2> QED
    BY <1>1, <1>2, <1>3, <1>5, <2>1, <2>2 DEF Types
<1>10. CacheTrue'
  <2>1. ~Internal'
    BY <1>1, <1>2 DEF Internal, Flash
  <2>2. \A x \in DOMAIN w.ram : config'[x] = w.ram[x]
    BY <1>5
  <2>3. writeback'.at = "filled" =>
         /\ todo' # <<>>
         /\ writeback'.page = newPage(Head(todo'))
         /\ ~wholePage(Head(todo')) => curr_page_num' = newPage(Head(todo'))
         /\ cache_page' = overlaid(pageOf(rom', newPage(Head(todo'))),
                                  Head(todo').addr % FLASH_PAGE_SIZE, Head(todo').data)
         /\ \A x \in DOMAIN Head(todo').ram : config'[x] = Head(todo').ram[x]
    BY <1>1, <1>2, <1>8, <2>2
  <2> QED
    BY <1>8, <2>1, <2>3 DEF CacheTrue, newPage, wholePage, pageOf, overlaid
<1>11. ResetOnItsWay'
  BY <1>2, <1>3, <1>6, SameReset
<1>12. CallOnItsWay'
  <2>1. CASE resetting
    BY <1>2, <2>1 DEF CallOnItsWay
  <2>2. CASE ~resetting
    <3>1. PICK id \in [0 .. 3 -> Byte] : IdentityComing(id)
      BY <1>3, <2>2 DEF CallOnItsWay
    <3>2. ASSUME NEW x \in {"FLiM", "CANID", "nodeNum"}, \A k \in DOMAIN todo : x \notin DOMAIN todo[k].ram
          PROVE  config'[x] = loadNVs(id)[x]
      <4>1. x \notin DOMAIN w.ram
        BY <1>4, <3>2
      <4> QED
        BY <1>5, <3>1, <3>2, <4>1 DEF IdentityComing
    <3>3. IdentityComing(id)'
      BY <1>2, <1>6, <3>1, <3>2 DEF IdentityComing
    <3> QED
      BY <1>2, <1>3, <3>3 DEF CallOnItsWay, Ordinary
  <2> QED
    BY <2>1, <2>2
<1> QED
  BY <1>9, <1>10, <1>11, <1>12 DEF IInv

\* programming,
LEMMA ProgramIInv ==
    ASSUME IInv, Program
    PROVE  IInv'
<1>1. /\ writeback.at = "erased" /\ rom' = programmed(rom, writeback.page, cache_page)
      /\ writeback' = [writeback EXCEPT !.at = "idle"]
      /\ UNCHANGED <<eeprom_type, cache_page, curr_page_num, todo, config, resetting>>
  BY DEF Program
<1>2. Types /\ CacheTrue /\ ResetOnItsWay /\ CallOnItsWay
  BY DEF IInv
<1>3. stored' = stored
  BY <1>2, ProgramKeeps
<1>4. writeback' \in [at : {"idle", "filled", "erased"}, page : Pages] /\ writeback'.at = "idle"
  BY <1>1, <1>2 DEF Types
<1>5. rom' \in Mem
  BY <1>1, <1>2, Programmed DEF Types
<1>6. \A k \in DOMAIN todo : Legal(todo[k])
  BY <1>2 DEF Types
<1>7. Types'
  <2>1. (\A k \in DOMAIN todo : Legal(todo[k]))'
    BY <1>1, <1>6, LegalStays
  <2> QED
    BY <1>1, <1>2, <1>4, <1>5, <2>1 DEF Types
<1>8. CacheTrue'
  <2>1. (Flash' <=> Flash) /\ idle'
    BY <1>1, <1>4 DEF Flash, idle
  <2>2. writeback.at # "filled"
    BY <1>1
  <2>3. pageOf(stored, curr_page_num)' = pageOf(stored, curr_page_num)
    BY <1>1, <1>3 DEF pageOf
  <2>4. (todo # <<>> => ~wholePage(Head(todo)))' <=> (todo # <<>> => ~wholePage(Head(todo)))
    BY <1>1 DEF wholePage
  <2> QED
    BY <1>1, <1>2, <1>4, <2>1, <2>2, <2>3, <2>4 DEF CacheTrue
<1>9. ResetOnItsWay'
  BY <1>1, <1>2, <1>3, SameReset
<1>10. CallOnItsWay'
  BY <1>1, <1>2, <1>3 DEF CallOnItsWay, IdentityComing, Ordinary
<1> QED
  BY <1>7, <1>8, <1>9, <1>10 DEF IInv

\* erasure,
LEMMA EraseIInv ==
    ASSUME IInv, Erase
    PROVE  IInv' /\ Len(todo') <= Len(todo)
<1> DEFINE w == Head(todo)
<1>1. Types /\ CacheTrue /\ ResetOnItsWay /\ CallOnItsWay
  BY DEF IInv
<1>2. /\ Flash /\ todo # <<>> /\ Done(w, Len(w.data)) /\ todo' = Tail(todo)
  BY <1>1, EraseDoes
<1>3. /\ writeback.at = "filled" /\ rom' = programmed(rom, writeback.page, blankPage)
      /\ writeback' = [writeback EXCEPT !.at = "erased"]
      /\ UNCHANGED <<eeprom_type, cache_page, curr_page_num, config, resetting>>
  BY DEF Erase
<1>4. /\ writeback.page = newPage(w)
      /\ ~wholePage(w) => curr_page_num = newPage(w)
      /\ \A x \in DOMAIN w.ram : config[x] = w.ram[x]
  BY <1>1, <1>3 DEF CacheTrue
<1>5. /\ writeback' \in [at : {"idle", "filled", "erased"}, page : Pages]
      /\ writeback'.at = "erased" /\ writeback'.page = writeback.page /\ writeback.page \in Pages
  BY <1>1, <1>3 DEF Types
<1>6. rom' \in Mem
  BY <1>1, <1>3, <1>5, PageBytesOf, Programmed DEF Types
<1>7. /\ Tail(todo) \in Seq(Writes) /\ w = todo[1] /\ Legal(w)
      /\ \A k \in DOMAIN Tail(todo) : k + 1 \in DOMAIN todo /\ Tail(todo)[k] = todo[k + 1]
      /\ Len(todo') = Len(todo) - 1 /\ Len(todo) \in Nat
  BY <1>1, <1>2, FirstWrite
<1>8. \A k \in DOMAIN todo' : Legal(todo'[k])
  BY <1>1, <1>2, <1>7 DEF Types
<1>9. Types'
  <2>1. (\A k \in DOMAIN todo : Legal(todo[k]))'
    BY <1>3, <1>8, LegalStays
  <2> QED
    BY <1>1, <1>2, <1>3, <1>5, <1>6, <1>7, <2>1 DEF Types
<1> HIDE DEF w
<1>10. ResetOnItsWay' /\ (resetting => done' = done + 1)
  <2>1. CASE resetting
    BY <1>1, <1>2, <1>3, <2>1, NextOfReset DEF w
  <2>2. CASE ~resetting
    BY <1>3, <2>2 DEF ResetOnItsWay
  <2> QED
    BY <2>1, <2>2
<1>11. CallOnItsWay'
  <2>1. CASE resetting
    BY <1>3, <2>1 DEF CallOnItsWay
  <2>2. CASE ~resetting
    <3>1. PICK id \in [0 .. 3 -> Byte] : IdentityComing(id)
      BY <1>1, <2>2 DEF CallOnItsWay
    <3>2. Ordinary(w)
      BY <1>2, <2>2, HeadIsSmall DEF w
    <3>3. \A x \in {"FLiM", "CANID", "nodeNum"} :
             config'[x] = IF x \in DOMAIN w.ram THEN w.ram[x] ELSE config[x]
      BY <1>3, <1>4
    <3>4. IdentityComing(id)'
      BY <1>1, <1>2, <3>1, <3>2, <3>3, NextOfCall DEF w
    <3>5. \A k \in DOMAIN todo' : Ordinary(todo'[k])
      BY <1>1, <1>2, <1>7, <2>2 DEF CallOnItsWay
    <3> QED
      BY <3>4, <3>5 DEF CallOnItsWay
  <2> QED
    BY <2>1, <2>2
<1>12. ASSUME todo' # <<>> => ~wholePage(Head(todo'))
       PROVE  cache_page' = pageOf(stored', curr_page_num')
  <2>1. stored' = programmed(rom', writeback.page, cache_page)
    BY <1>3, <1>5 DEF stored
  <2>2. pageOf(stored', writeback.page) = cache_page
    BY <1>1, <1>5, <1>6, <2>1, Programmed DEF Types
  <2>3. CASE ~wholePage(w)
    BY <1>3, <1>4, <2>2, <2>3
  <2>4. CASE wholePage(w)
    <3> DEFINE L == Len(erased)
    <3>1. resetting
      BY <1>2, <2>4, HeadIsSmall DEF w
    <3>2. erased' = erased
      BY <1>3 DEF erased
    <3>3. L \in Nat /\ L + 5 <= Len(resetModule) /\ Len(resetModule) \in Nat
      BY ResetWrites, LowAddresses, <1>1 DEF Types
    <3>4. Len(w.data) = FLASH_PAGE_SIZE
      BY <2>4 DEF wholePage
    <3>5. done \in Nat /\ done + 1 <= L
      <4>1. /\ done \in Nat
            /\ done \in L .. L + 3 => w.data = <<0>>
            /\ done = L + 4 => w.data = <<99>>
            /\ done >= L + 5 => w.data = <<0>>
        BY <1>1, <1>2, <3>1, ResetHeads DEF w
      <4>2. Len(<<0>>) = 1 /\ Len(<<99>>) = 1
        OBVIOUS
      <4>3. ~(FLASH_PAGE_SIZE = 1)
        BY Sizes
      <4>4. w.data # <<0>> /\ w.data # <<99>>
        BY <3>4, <4>2, <4>3, Zenon
      <4>5. ~(done \in L .. L + 3) /\ done # L + 4 /\ ~(done >= L + 5)
        BY <4>1, <4>4, Zenon
      <4> HIDE DEF L
      <4> QED
        BY <3>3, <4>1, <4>5
    <3>6. done' = done + 1
      BY <1>10, <3>1
    <3> HIDE DEF L
    <3>7. done + 1 = L
      <4> SUFFICES ASSUME done + 1 < L
                   PROVE  FALSE
        BY <3>3, <3>5
      <4>1. Len(todo') >= 1 /\ Len(todo) >= 2 /\ Len(todo) = Len(resetModule) - done
        BY <1>1, <1>2, <1>7, <3>1, <3>3, <3>5, ResetHead
      <4>2. todo' # <<>>
        BY <4>1, NotEmpty
      <4>3. Types' /\ ResetOnItsWay' /\ resetting' /\ todo' # <<>>
        BY <1>3, <1>9, <1>10, <3>1, <4>2
      <4>4. 1 \in DOMAIN todo' /\ Head(todo') = todo'[1]
        BY <1>2, <1>7, <4>1, <4>2
      <4>5. todo'[1] = todo[2] /\ 2 \in DOMAIN todo
        BY <1>2, <1>7, <4>4
      <4>6. todo[2] = resetModule[done + 2]
        BY <1>1, <3>1, <4>5 DEF ResetOnItsWay
      <4>7. done + 2 \in 1 .. L /\ resetModule[done + 2] = erased[done + 2]
        BY <3>3, <3>5, ResetWrites, <1>1 DEF L, Types
      <4>8. Head(todo') = erased[done + 2]
        BY <4>4, <4>5, <4>6, <4>7
      <4>9. erased[done + 2].data = [i \in 1 .. FLASH_PAGE_SIZE |-> BLANK]
        <5> DEFINE blanks == [i \in 1 .. FLASH_PAGE_SIZE |-> BLANK]
        <5>1. \A k \in 1 .. L :
                erased[k] = [addr |-> pageStart(k - 1), ram |-> nothing, data |-> blanks]
          BY <1>1, <1>2, Erased DEF Types, L
        <5> HIDE DEF blanks
        <5>2. ASSUME NEW k \in 1 .. L
              PROVE  erased[k].data = blanks
          <6>1. erased[k] = [addr |-> pageStart(k - 1), ram |-> nothing, data |-> blanks]
            BY <5>1
          <6> QED
            BY <6>1
        <5> QED
          BY <4>7, <5>2 DEF blanks
      <4>10. [i \in 1 .. FLASH_PAGE_SIZE |-> BLANK] \in [1 .. FLASH_PAGE_SIZE -> Byte]
        BY LowAddresses
      <4>11. Len([i \in 1 .. FLASH_PAGE_SIZE |-> BLANK]) = FLASH_PAGE_SIZE
        BY <4>10, FunctionIsSeq, Sizes
      <4>12. wholePage(Head(todo'))
        BY <4>8, <4>9, <4>11 DEF wholePage
      <4> QED
        BY <1>12, <4>2, <4>12
    <3>8. ASSUME NEW a \in Addr
          PROVE  stored'[a] = BLANK
      <4>1. erasedBy(a)' = erasedBy(a) /\ Flash'
        BY <1>2, <1>3 DEF erasedBy, Internal, Flash
      <4>2. erasedBy(a) \in 1 .. L
        BY <1>1, <1>2, ErasedBy DEF L
      <4>3. done' = L /\ Len(erased') = L /\ L <= L + 5 /\ erasedBy(a) <= L /\ L <= L
        BY <3>2, <3>3, <3>6, <3>7, <4>2 DEF L
      <4> QED
        BY <1>3, <1>10, <3>1, <4>1, <4>3 DEF ResetOnItsWay
    <3>9. cache_page \in PageBytes /\ curr_page_num \in Pages
      BY <1>1 DEF Types
    <3>10. ASSUME NEW page \in Pages, NEW i \in 0 .. FLASH_PAGE_SIZE - 1
           PROVE  pageOf(stored', page)[i] = BLANK
      BY <3>8, AddrOfPage DEF pageOf
    <3>11. \A i \in 0 .. FLASH_PAGE_SIZE - 1 : cache_page[i] = BLANK
      BY <1>5, <2>2, <3>10
    <3>12. \A i \in 0 .. FLASH_PAGE_SIZE - 1 : pageOf(stored', curr_page_num)[i] = BLANK
      BY <3>9, <3>10
    <3>13. stored' \in Mem
      BY <1>2 DEF Done
    <3>14. pageOf(stored', curr_page_num) \in PageBytes
      BY <3>9, <3>13, PageBytesOf
    <3>15. cache_page = pageOf(stored', curr_page_num)
      BY <3>9, <3>11, <3>12, <3>14, SamePage
    <3> QED
      BY <1>3, <3>15
  <2> QED
    BY <2>3, <2>4
<1>13. CacheTrue'
  <2>1. Flash' /\ ~Internal' /\ writeback'.at # "filled"
    BY <1>2, <1>3, <1>5 DEF Flash, Internal
  <2>2. pageOf(stored, curr_page_num)' = pageOf(stored', curr_page_num')
    BY DEF pageOf
  <2>3. (todo # <<>> => ~wholePage(Head(todo)))' <=> (todo' # <<>> => ~wholePage(Head(todo')))
    BY DEF wholePage
  <2> QED
    BY <1>12, <2>1, <2>2, <2>3 DEF CacheTrue
<1>14. Len(todo') <= Len(todo)
  BY <1>7
<1> QED
  BY <1>9, <1>10, <1>11, <1>13, <1>14 DEF IInv

\* and so any step.
LEMMA NextIInv ==
    ASSUME EventsFit, IInv, [Next]_vars
    PROVE  IInv'
<1>1. CASE Request
  BY <1>1, RequestIInv
<1>2. CASE Reset
  BY <1>2, ResetIInv
<1>3. CASE WriteByte
  BY <1>3, WriteByteIInv
<1>4. CASE Fill
  BY <1>4, FillIInv
<1>5. CASE Erase
  BY <1>5, EraseIInv
<1>6. CASE Program
  BY <1>6, ProgramIInv
<1>7. CASE Reboot
  <2>1. rom \in Mem /\ Begin(rom)
    BY <1>7 DEF Reboot, IInv, Types
  <2> QED
    BY <2>1, BeginIInv
<1>8. CASE PowerLoss
  <2>1. rom' \in Mem /\ Begin(rom')
    BY <1>8, PowerLossLeaves DEF IInv
  <2>2. PICK bytes \in Mem : Begin(bytes)
    <3>1. CASE writeback.at # "erased" /\ Begin(rom)
      BY <3>1 DEF IInv, Types
    <3>2. ASSUME NEW n \in 0 .. FLASH_PAGE_SIZE - 1, Begin(programmed(rom, writeback.page, cut(n)))
          PROVE  \E bytes \in Mem : Begin(bytes)
      <4>1. cut(n) \in PageBytes
        BY LowAddresses DEF cut, PageBytes, IInv, Types
      <4>2. programmed(rom, writeback.page, cut(n)) \in Mem
        BY <4>1, Programmed DEF IInv, Types
      <4> QED
        BY <3>2, <4>2
    <3> QED
      BY <1>8, <3>1, <3>2 DEF PowerLoss
  <2> QED
    BY <2>2, BeginIInv
<1>9. CASE UNCHANGED vars
  <2>1. UNCHANGED <<eeprom_type, rom, cache_page, curr_page_num, writeback, todo, config, resetting>>
    BY <1>9 DEF vars, cached
  <2>2. Types /\ CacheTrue /\ ResetOnItsWay /\ CallOnItsWay
    BY DEF IInv
  <2>3. stored' = stored /\ (Flash' <=> Flash) /\ (Internal' <=> Internal) /\ (idle' <=> idle)
    BY <2>1 DEF stored, Flash, Internal, idle
  <2>4. (\A k \in DOMAIN todo : Legal(todo[k]))'
    BY <2>1, <2>2, LegalStays DEF Types
  <2>5. Types'
    BY <2>1, <2>2, <2>4 DEF Types
  <2>6. CacheTrue'
    BY <2>1, <2>2, <2>3 DEF CacheTrue, newPage, wholePage, pageOf, overlaid
  <2>7. ResetOnItsWay'
    BY <2>1, <2>2, <2>3, SameReset
  <2>8. CallOnItsWay'
    BY <2>1, <2>2, <2>3 DEF CallOnItsWay, IdentityComing, Ordinary
  <2> QED
    BY <2>5, <2>6, <2>7, <2>8 DEF IInv
<1> QED
  BY <1>1, <1>2, <1>3, <1>4, <1>5, <1>6, <1>7, <1>8, <1>9 DEF Next

-----------------------------------------------------------------------------
(* The theorems.                                                            *)

\* The invariant holds at every step, of every call and after every power cut
\* (MLCBConfig with both kinds of memory).
THEOREM Inductive ==
    ASSUME EventsFit
    PROVE  Spec => []IInv
<1>1. Init => IInv
  BY InitIInv
<1>2. IInv /\ [Next]_vars => IInv'
  BY NextIInv
<1> QED
  BY <1>1, <1>2, PTL DEF Spec

\* Types; and outside a write the copy of a page in RAM is the page it is taken for,
\* so that the next write puts no old bytes back (flash_write_bytes).
THEOREM TypeCorrect ==
    ASSUME EventsFit
    PROVE  Spec => []TypeOK
<1>1. IInv => TypeOK
  <2> SUFFICES ASSUME IInv
               PROVE  TypeOK
    OBVIOUS
  <2>1. Types /\ CacheTrue
    BY DEF IInv
  <2>2. writeback.at \in {"idle", "filled", "erased"} /\ writeback.page \in Pages
    BY <2>1 DEF Types
  <2>3. config.CANID \in Byte /\ config.nodeNum \in Word /\ config.FLiM \in BOOLEAN
    BY <2>1 DEF Types, Config
  <2>4. idle => stored = rom /\ writeback.at # "filled"
    BY DEF idle, stored
  <2>5. Flash /\ idle /\ (todo # <<>> => ~wholePage(Head(todo))) => cache_page = pageOf(rom, curr_page_num)
    BY <2>1, <2>4 DEF CacheTrue
  <2> QED
    BY <2>1, <2>2, <2>3, <2>5 DEF TypeOK, Types, Mem
<1> QED
  BY <1>1, Inductive, PTL

\* Between calls the identity in RAM is the one the next restart finds, however the
\* calls that set it were cut short (setFLiM, setCANID, setNodeNum, loadNVs).
THEOREM IdentitySurvives ==
    ASSUME EventsFit
    PROVE  Spec => []IdentityStored
<1>1. IInv => IdentityStored
  <2> SUFFICES ASSUME IInv, idle, todo = <<>>, ~resetting
               PROVE  config = loadNVs(rom)
    BY DEF IdentityStored
  <2>1. config = loadNVs(Identity)
    BY IdentityNow DEF IInv
  <2>2. stored = rom
    BY DEF idle, stored
  <2>3. loadNVs(Identity) = loadNVs(rom)
    BY <2>2 DEF loadNVs, Identity
  <2> QED
    BY <2>1, <2>3
<1> QED
  BY <1>1, Inductive, PTL

\* When the reset flag appears the old identity and all node variables and events are
\* gone (resetModule, setResetFlag).
THEOREM FlagTruthful ==
    ASSUME EventsFit
    PROVE  Spec => ResetFlagTruthful
<1> DEFINE A == stored'[5] = 99 /\ stored[5] # 99 =>
                  /\ \A a \in 0 .. 3 : stored'[a] = 0
                  /\ \A a \in Addr : a >= EE_NVS_START => stored'[a] = BLANK
<1>1. IInv /\ [Next]_vars => [A]_vars
  <2> SUFFICES ASSUME IInv, Next
               PROVE  A
    OBVIOUS
  <2>1. Types /\ CacheTrue /\ ResetOnItsWay /\ CallOnItsWay
    BY DEF IInv
  <2>2. 5 \in Addr /\ BLANK # 99
    BY LowAddresses DEF BLANK
  <2>3. ASSUME stored' = stored
        PROVE  A
    BY <2>3
  \* a write of a call that is not a reset
  <2>4. ASSUME ~resetting, todo # <<>>, NEW n \in Nat, n <= Len(Head(todo).data), n >= 1, Done(Head(todo), n)
        PROVE  A
    <3> DEFINE w == Head(todo)
               from == w.addr
    <3>1. Ordinary(w) /\ Legal(w)
      BY <2>1, <2>4, HeadIsSmall, FirstWrite
    <3>2. from \in Nat /\ Len(w.data) \in Nat
      BY <3>1, WriteData
    <3>3. stored'[5] = IF 5 \in from .. from + n - 1 THEN w.data[5 - from + 1] ELSE stored[5]
      BY <2>2, <2>4 DEF Done
    <3>4. (from \in 0 .. 3 /\ Len(w.data) = 1) \/ (from = 5 /\ w.data = <<0>>) \/ from >= 9
      BY <3>1 DEF Ordinary
    <3>5. n <= Len(w.data) /\ n \in Nat
      BY <2>4
    <3> HIDE DEF w, from
    <3>6. CASE from = 5 /\ w.data = <<0>>
      <4>1. <<0>>[1] = 0
        OBVIOUS
      <4>2. 5 - from + 1 = 1
        BY <3>6
      <4>3. stored'[5] = 0 \/ stored'[5] = stored[5]
        BY <3>3, <3>6, <4>1, <4>2, Zenon
      <4> QED
        BY <4>3
    <3>7. CASE (from \in 0 .. 3 /\ Len(w.data) = 1) \/ from >= 9
      <4> DEFINE len == Len(w.data)
      <4>1. len \in Nat /\ n <= len /\ ((from \in 0 .. 3 /\ len = 1) \/ from >= 9)
        BY <3>2, <3>5, <3>7
      <4> HIDE DEF len
      <4>2. ~(5 \in from .. from + n - 1)
        BY <3>2, <3>5, <4>1
      <4> QED
        BY <3>3, <4>2
    <3> QED
      BY <3>4, <3>6, <3>7
  \* a write of a reset
  <2>5. ASSUME resetting, todo # <<>>, Done(Head(todo), Len(Head(todo).data))
        PROVE  A
    <3> DEFINE L == Len(erased)
               w == Head(todo)
               len == Len(w.data)
    <3>1. /\ L \in Nat /\ done \in Nat
          /\ done + 1 <= L => w = erased[done + 1] /\ done + 1 \in 1 .. L
          /\ done \in L .. L + 3 => w = [addr |-> done - L, data |-> <<0>>, ram |-> nothing]
          /\ done = L + 4 => w = [addr |-> 5, data |-> <<99>>, ram |-> nothing]
          /\ done >= L + 5 => w.addr >= 10 /\ w.addr \in Nat /\ w.data = <<0>> /\ w.ram = nothing
      BY <2>1, <2>5, ResetHeads
    <3>2. \A a \in Addr : stored'[a] =
             IF a \in w.addr .. w.addr + len - 1 THEN w.data[a - w.addr + 1] ELSE stored[a]
      BY <2>5 DEF Done
    <3> HIDE DEF L, w, len
    <3>3. CASE done + 1 <= L
      <4>1. 5 \in w.addr .. w.addr + len - 1 => w.data[5 - w.addr + 1] = BLANK
        BY <2>1, <2>2, <3>1, <3>3, ErasedBy DEF L, len
      <4>2. stored'[5] = BLANK \/ stored'[5] = stored[5]
        BY <2>2, <3>2, <4>1
      <4> QED
        BY <2>2, <4>2
    <3>4. CASE done \in L .. L + 3
      <4>1. w = [addr |-> done - L, data |-> <<0>>, ram |-> nothing]
        BY <3>1, <3>4
      <4>2. w.addr = done - L /\ w.data = <<0>>
        BY <4>1
      <4>3. Len(<<0>>) = 1
        OBVIOUS
      <4>4. len = 1
        BY <4>2, <4>3, Zenon DEF len
      <4>5. w.addr \in 0 .. 3
        BY <3>1, <3>4, <4>2
      <4>6. ~(5 \in w.addr .. w.addr + len - 1)
        BY <4>4, <4>5
      <4> QED
        BY <2>2, <3>2, <4>6
    <3>5. CASE done = L + 4
      <4>1. w = [addr |-> 5, data |-> <<99>>, ram |-> nothing]
        BY <3>1, <3>5
      <4>2. w.addr = 5 /\ w.data = <<99>>
        BY <4>1
      <4>3. Len(<<99>>) = 1
        OBVIOUS
      <4>4. len = 1
        BY <4>2, <4>3, Zenon DEF len
      <4>5. \A a \in Addr : a \in Nat /\ (a \in w.addr .. w.addr + len - 1 => a = 5)
        BY <4>2, <4>4, PageOfAddr
      <4>6. \A a \in Addr : a # 5 => stored'[a] = stored[a]
        BY <3>2, <4>5
      <4>7. \A i \in 0 .. 3 : stored[i] = 0
        <5>1. done <= Len(erased) + 5 /\ \A i \in 0 .. 3 : done >= Len(erased) + 1 + i
          BY <3>1, <3>5 DEF L
        <5> QED
          BY <2>1, <2>5, <5>1 DEF ResetOnItsWay
      <4>8. ASSUME NEW a \in Addr, a >= EE_NVS_START
            PROVE  stored[a] = BLANK
        <5>1. a >= 10
          BY <4>5, <4>8, LowAddresses
        <5>2. erasedBy(a) \in 1 .. Len(erased)
          BY <2>1, <5>1, ErasedBy
        <5>3. done <= Len(erased) + 5 /\ erasedBy(a) <= done
          BY <3>1, <3>5, <5>2 DEF L
        <5> QED
          BY <2>1, <2>5, <5>1, <5>3 DEF ResetOnItsWay
      <4>9. ASSUME NEW a \in Addr, a >= EE_NVS_START
            PROVE  a # 5
        BY <4>9, LowAddresses
      <4> QED
        BY <4>6, <4>7, <4>8, <4>9, LowAddresses
    <3>6. CASE done >= L + 5
      <4>1. w.addr >= 10 /\ w.addr \in Nat
        BY <3>1, <3>6
      <4> DEFINE from == w.addr
      <4>2. from >= 10 /\ from \in Nat
        BY <4>1
      <4> HIDE DEF from
      <4>3. ~(5 \in from .. from + len - 1)
        BY <4>2
      <4> QED
        BY <2>2, <3>2, <4>3 DEF from
    <3> QED
      BY <3>1, <3>3, <3>4, <3>5, <3>6
  <2>6. CASE Request \/ Reset
    <3>1. UNCHANGED <<rom, writeback, cache_page>>
      BY <2>6 DEF Request, Reset, Call, cached
    <3> QED
      BY <2>3, <3>1 DEF stored, programmed
  <2>7. CASE WriteByte
    <3>1. Internal /\ todo # <<>> /\ Done(Head(todo), 1)
      BY <2>1, <2>7, WriteByteDoes
    <3>2. Len(Head(todo).data) \in Nat /\ Len(Head(todo).data) >= 1
      BY <2>1, <3>1, FirstWrite, WriteData
    <3>3. CASE resetting
      <4>1. Len(Head(todo).data) = 1
        BY <2>1, <3>1, <3>3, ResetBytewise
      <4>2. Done(Head(todo), Len(Head(todo).data))
        BY <3>1, <4>1, Zenon
      <4> QED
        BY <2>5, <3>1, <3>3, <4>2
    <3>4. CASE ~resetting
      BY <2>4, <3>1, <3>2, <3>4
    <3> QED
      BY <3>3, <3>4
  <2>8. CASE Erase
    <3>1. todo # <<>> /\ Done(Head(todo), Len(Head(todo).data))
      BY <2>1, <2>8, EraseDoes
    <3>2. Len(Head(todo).data) \in Nat /\ Len(Head(todo).data) >= 1
      BY <2>1, <3>1, FirstWrite, WriteData
    <3> QED
      BY <2>4, <2>5, <3>1, <3>2
  <2>9. CASE Fill
    BY <2>1, <2>3, <2>9, FillKeeps
  <2>10. CASE Program
    BY <2>1, <2>3, <2>10, ProgramKeeps
  <2>11. CASE Reboot
    <3>1. rom' = rom /\ stored' = rom' /\ stored = rom
      BY <2>11, BeginStored DEF Reboot, Begin, stored, idle
    <3> QED
      BY <2>3, <3>1
  <2>12. CASE PowerLoss
    <3>1. Begin(rom') /\ (rom'[5] = stored[5] \/ rom'[5] = BLANK)
      BY <2>1, <2>2, <2>12, PowerLossLeaves
    <3>2. stored' = rom'
      BY <3>1, BeginStored
    <3> QED
      BY <2>2, <3>1, <3>2
  <2> HIDE DEF A
  <2> QED
    BY <2>6, <2>7, <2>8, <2>9, <2>10, <2>11, <2>12 DEF Next
<1> QED
  BY <1>1, Inductive, PTL DEF Spec, ResetFlagTruthful

\* The mode is set to FLiM only with a node number stored, also if the power fails at any
\* moment of SNN: a restart never finds a FLiM node without a number (OPC_SNN, setFLiM).
THEOREM FLiMHasNumber ==
    ASSUME EventsFit
    PROVE  Spec => FLiMNeedsNumber
<1> DEFINE A == stored'[0] = 1 /\ stored[0] # 1 => numberIn(stored') # 0
<1>1. IInv /\ [Next]_vars => [A]_vars
  <2> SUFFICES ASSUME IInv, Next
               PROVE  A
    OBVIOUS
  <2>1. Types /\ CacheTrue /\ ResetOnItsWay /\ CallOnItsWay
    BY DEF IInv
  <2>2. 0 \in Addr /\ 2 \in Addr /\ 3 \in Addr /\ BLANK # 1
    BY LowAddresses DEF BLANK
  <2>3. ASSUME stored'[0] = stored[0] \/ stored'[0] # 1
        PROVE  A
    BY <2>3
  <2>4. ASSUME ~resetting, todo # <<>>, NEW n \in Nat, n <= Len(Head(todo).data), n >= 1, Done(Head(todo), n)
        PROVE  A
    <3> SUFFICES ASSUME stored'[0] = 1, stored[0] # 1
                 PROVE  numberIn(stored') # 0
      OBVIOUS
    <3> DEFINE w == Head(todo)
               from == w.addr
               data == w.data
               len == Len(data)
    <3>1. Ordinary(w) /\ Legal(w) /\ w = todo[1] /\ 1 \in DOMAIN todo
      BY <2>1, <2>4, HeadIsSmall, FirstWrite
    <3>2. from \in Nat /\ len \in Nat /\ n <= len
      BY <2>4, <3>1, WriteData
    <3>3. \A a \in Addr : stored'[a] = IF a \in from .. from + n - 1 THEN data[a - from + 1] ELSE stored[a]
      BY <2>4 DEF Done
    <3>4. (from \in 0 .. 3 /\ len = 1) \/ from = 5 \/ from >= 9
      BY <3>1 DEF Ordinary
    <3> HIDE DEF w, from, data, len
    <3>5. 0 \in from .. from + n - 1
      BY <2>2, <3>3
    <3>6. from = 0 /\ n = 1
      <4>1. from = 0
        BY <2>4, <3>2, <3>4, <3>5
      <4> QED
        BY <2>4, <3>2, <3>4, <4>1
    <3>7. PICK id \in [0 .. 3 -> Byte] : IdentityComing(id)
      BY <2>1, <2>4 DEF CallOnItsWay
    <3>8. data = <<id[0]>>
      BY <3>1, <3>6, <3>7 DEF IdentityComing, from, data
    <3>9. data[1] = 1
      <4>1. 0 - from + 1 = 1
        BY <3>6
      <4> QED
        BY <2>2, <3>3, <3>5, <4>1
    <3>10. data = <<1>>
      BY <3>8, <3>9
    <3>11. /\ numberIn(id) # 0
           /\ \A j \in DOMAIN todo : j > 1 => todo[j].addr \notin {2, 3}
      BY <3>1, <3>6, <3>7, <3>10 DEF IdentityComing, from, data
    <3>12. \A j \in DOMAIN todo : todo[j].addr \notin {2, 3}
      <4> SUFFICES ASSUME NEW j \in DOMAIN todo
                   PROVE  todo[j].addr \notin {2, 3}
        OBVIOUS
      <4>1. j \in Nat /\ j >= 1
        BY <2>1 DEF Types
      <4> QED
        BY <3>1, <3>6, <3>11, <4>1 DEF from
    <3>13. stored[2] = id[2] /\ stored[3] = id[3]
      BY <3>7, <3>12 DEF IdentityComing
    <3>14. stored'[2] = stored[2] /\ stored'[3] = stored[3]
      BY <2>2, <3>3, <3>6
    <3> QED
      BY <3>11, <3>13, <3>14 DEF numberIn
  <2>5. ASSUME resetting, todo # <<>>, Done(Head(todo), Len(Head(todo).data))
        PROVE  A
    <3> DEFINE L == Len(erased)
               w == Head(todo)
               len == Len(w.data)
    <3>1. /\ L \in Nat /\ done \in Nat
          /\ done + 1 <= L => w = erased[done + 1] /\ done + 1 \in 1 .. L
          /\ done \in L .. L + 3 => w = [addr |-> done - L, data |-> <<0>>, ram |-> nothing]
          /\ done = L + 4 => w = [addr |-> 5, data |-> <<99>>, ram |-> nothing]
          /\ done >= L + 5 => w.addr >= 10 /\ w.addr \in Nat /\ w.data = <<0>> /\ w.ram = nothing
      BY <2>1, <2>5, ResetHeads
    <3>2. stored'[0] = IF 0 \in w.addr .. w.addr + len - 1 THEN w.data[0 - w.addr + 1] ELSE stored[0]
      BY <2>2, <2>5 DEF Done
    <3> HIDE DEF L, w, len
    <3>3. CASE done + 1 <= L
      <4>1. w = erased[done + 1] /\ done + 1 \in 1 .. Len(erased)
        BY <3>1, <3>3 DEF L
      <4>2. \A k \in 1 .. Len(erased) :
              0 \in erased[k].addr .. erased[k].addr + Len(erased[k].data) - 1 =>
                 erased[k].data[0 - erased[k].addr + 1] = BLANK
        BY <2>1, <2>2, ErasedBy, Zenon
      <4>3. 0 \in w.addr .. w.addr + len - 1 => w.data[0 - w.addr + 1] = BLANK
        BY <4>1, <4>2, Zenon DEF len
      <4> QED
        BY <2>2, <2>3, <3>2, <4>3
    <3>4. CASE done \in L .. L + 3
      <4>1. w = [addr |-> done - L, data |-> <<0>>, ram |-> nothing]
        BY <3>1, <3>4
      <4>2. w.addr = done - L /\ w.data = <<0>>
        BY <4>1
      <4>3. w.addr \in 0 .. 3
        BY <3>1, <3>4, <4>2
      <4> DEFINE from == w.addr
      <4>4. 0 \in from .. from + len - 1 => 0 - from + 1 = 1
        <5>1. from \in 0 .. 3
          BY <4>3
        <5>2. 0 \in from .. from + len - 1 => 0 >= from
          <6> HIDE DEF from
          <6> QED
            BY <5>1
        <5> HIDE DEF from
        <5> QED
          BY <5>1, <5>2
      <4>5. <<0>>[1] = 0
        OBVIOUS
      <4>6. stored'[0] = 0 \/ stored'[0] = stored[0]
        BY <3>2, <4>2, <4>4, <4>5, Zenon
      <4> QED
        BY <2>3, <4>6
    <3>5. CASE done = L + 4
      <4>1. w = [addr |-> 5, data |-> <<99>>, ram |-> nothing]
        BY <3>1, <3>5
      <4>2. w.addr = 5
        BY <4>1
      <4>3. ~(0 \in w.addr .. w.addr + len - 1)
        BY <4>2
      <4> QED
        BY <2>3, <3>2, <4>3
    <3>6. CASE done >= L + 5
      <4> DEFINE from == w.addr
      <4>1. from >= 10 /\ from \in Nat
        BY <3>1, <3>6
      <4> HIDE DEF from
      <4>2. ~(0 \in from .. from + len - 1)
        BY <4>1
      <4> QED
        BY <2>3, <3>2, <4>2 DEF from
    <3> QED
      BY <3>1, <3>3, <3>4, <3>5, <3>6
  <2>6. CASE Request \/ Reset
    <3>1. UNCHANGED <<rom, writeback, cache_page>>
      BY <2>6 DEF Request, Reset, Call, cached
    <3> QED
      BY <2>3, <3>1 DEF stored, programmed
  <2>7. CASE WriteByte
    <3>1. Internal /\ todo # <<>> /\ Done(Head(todo), 1)
      BY <2>1, <2>7, WriteByteDoes
    <3>2. Len(Head(todo).data) \in Nat /\ Len(Head(todo).data) >= 1
      BY <2>1, <3>1, FirstWrite, WriteData
    <3>3. CASE resetting
      <4>1. Len(Head(todo).data) = 1
        BY <2>1, <3>1, <3>3, ResetBytewise
      <4>2. Done(Head(todo), Len(Head(todo).data))
        BY <3>1, <4>1, Zenon
      <4> QED
        BY <2>5, <3>1, <3>3, <4>2
    <3>4. CASE ~resetting
      BY <2>4, <3>1, <3>2, <3>4
    <3> QED
      BY <3>3, <3>4
  <2>8. CASE Erase
    <3>1. todo # <<>> /\ Done(Head(todo), Len(Head(todo).data))
      BY <2>1, <2>8, EraseDoes
    <3>2. Len(Head(todo).data) \in Nat /\ Len(Head(todo).data) >= 1
      BY <2>1, <3>1, FirstWrite, WriteData
    <3> QED
      BY <2>4, <2>5, <3>1, <3>2
  <2>9. CASE Fill
    BY <2>1, <2>3, <2>9, FillKeeps
  <2>10. CASE Program
    BY <2>1, <2>3, <2>10, ProgramKeeps
  <2>11. CASE Reboot
    <3>1. rom' = rom /\ stored' = rom' /\ stored = rom
      BY <2>11, BeginStored DEF Reboot, Begin, stored, idle
    <3> QED
      BY <2>3, <3>1
  <2>12. CASE PowerLoss
    <3>1. Begin(rom') /\ (rom'[0] = stored[0] \/ rom'[0] = BLANK)
      BY <2>1, <2>2, <2>12, PowerLossLeaves
    <3>2. stored' = rom'
      BY <3>1, BeginStored
    <3> QED
      BY <2>2, <2>3, <3>1, <3>2
  <2> HIDE DEF A
  <2> QED
    BY <2>6, <2>7, <2>8, <2>9, <2>10, <2>11, <2>12 DEF Next
<1> QED
  BY <1>1, Inductive, PTL DEF Spec, FLiMNeedsNumber

-----------------------------------------------------------------------------
(* Storage implements ByteMemory.                                           *)

Asked(t) == [k \in DOMAIN t |-> [addr |-> t[k].addr, data |-> t[k].data]]
AtRisk == IF writeback.at = "erased" THEN {a \in Addr : a \div FLASH_PAGE_SIZE = writeback.page} ELSE {}
AskedWrites == [addr : Addr, data : Seq(Byte)]

\* The abstract memory is asked for the same writes, without what they set in RAM.
LEMMA AskedSeq ==
    ASSUME NEW t \in Seq(Writes)
    PROVE  /\ Asked(t) \in Seq(AskedWrites) /\ Len(Asked(t)) = Len(t) /\ Len(t) \in Nat
           /\ \A k \in 1 .. Len(t) : Asked(t)[k] = [addr |-> t[k].addr, data |-> t[k].data]
<1>1. DOMAIN t = 1 .. Len(t) /\ Len(t) \in Nat
  OBVIOUS
<1>2. ASSUME NEW k \in 1 .. Len(t)
      PROVE  [addr |-> t[k].addr, data |-> t[k].data] \in AskedWrites
  <2>1. t[k] \in Writes
    OBVIOUS
  <2>2. t[k].addr \in Addr /\ t[k].data \in Seq(Byte)
    BY <2>1 DEF Writes
  <2> QED
    BY <2>2 DEF AskedWrites
<1>3. Asked(t) \in [1 .. Len(t) -> AskedWrites]
  BY <1>1, <1>2 DEF Asked
<1>4. \A k \in 1 .. Len(t) : Asked(t)[k] = [addr |-> t[k].addr, data |-> t[k].data]
  BY <1>1 DEF Asked
<1> QED
  BY <1>1, <1>3, <1>4, FunctionIsSeq

\* No writes ask for nothing.
LEMMA AskedEmpty == Asked(<<>>) = <<>>
<1>1. <<>> \in Seq(Writes) /\ Len(<<>>) = 0
  OBVIOUS
<1>2. Asked(<<>>) \in Seq(AskedWrites) /\ Len(Asked(<<>>)) = 0
  BY <1>1, AskedSeq
<1> QED
  BY <1>2, EmptySeq

\* The first write and the others.
LEMMA AskedParts ==
    ASSUME NEW t \in Seq(Writes), t # <<>>
    PROVE  /\ Asked(t) # <<>>
           /\ Head(Asked(t)) = [addr |-> Head(t).addr, data |-> Head(t).data]
           /\ Tail(Asked(t)) = Asked(Tail(t))
<1>1. /\ Asked(t) \in Seq(AskedWrites) /\ Len(Asked(t)) = Len(t) /\ Len(t) \in Nat
      /\ \A k \in 1 .. Len(t) : Asked(t)[k] = [addr |-> t[k].addr, data |-> t[k].data]
  BY AskedSeq
<1>2. Len(t) >= 1 /\ Head(t) = t[1] /\ Tail(t) \in Seq(Writes) /\ Len(Tail(t)) = Len(t) - 1
  OBVIOUS
<1>3. Asked(t) # <<>>
  BY <1>1, <1>2, NotEmpty
<1>4. Head(Asked(t)) = Asked(t)[1]
  BY <1>1, <1>3
<1>5. Asked(t)[1] = [addr |-> Head(t).addr, data |-> Head(t).data]
  BY <1>1, <1>2
<1> DEFINE x == Tail(Asked(t))
           y == Asked(Tail(t))
<1>6. x \in Seq(AskedWrites) /\ Len(x) = Len(t) - 1
  BY <1>1, <1>3
<1>7. \A k \in 1 .. Len(t) - 1 : x[k] = Asked(t)[k + 1]
  BY <1>1, <1>3
<1>8. /\ y \in Seq(AskedWrites) /\ Len(y) = Len(t) - 1
      /\ \A k \in 1 .. Len(t) - 1 : y[k] = [addr |-> Tail(t)[k].addr, data |-> Tail(t)[k].data]
  <2>1. /\ y \in Seq(AskedWrites) /\ Len(y) = Len(Tail(t))
        /\ \A k \in 1 .. Len(Tail(t)) : y[k] = [addr |-> Tail(t)[k].addr, data |-> Tail(t)[k].data]
    BY <1>2, AskedSeq
  <2> QED
    BY <1>2, <2>1
<1>9. \A k \in 1 .. Len(t) - 1 : Tail(t)[k] = t[k + 1]
  BY <1>2
<1>10. ASSUME NEW k \in 1 .. Len(t) - 1
       PROVE  x[k] = y[k]
  <2>1. k + 1 \in 1 .. Len(t)
    BY <1>1
  <2> QED
    BY <1>1, <1>7, <1>8, <1>9, <2>1
<1> HIDE DEF x, y
<1>11. \A k \in 1 .. Len(x) : x[k] = y[k]
  BY <1>6, <1>10
<1>12. x = y
  BY <1>6, <1>8, <1>11, SeqEqual
<1> QED
  BY <1>3, <1>4, <1>5, <1>12 DEF x, y

\* Head and tail of a sequence with an element put before it.
LEMMA HeadTailAppended ==
    ASSUME NEW S, NEW r \in S, NEW t \in Seq(S)
    PROVE  LET s == <<r>> \o t
           IN  s \in Seq(S) /\ s # <<>> /\ Head(s) = r /\ Tail(s) = t
<1> DEFINE s == <<r>> \o t
           tail == Tail(s)
<1>1. <<r>> \in Seq(S) /\ Len(<<r>>) = 1 /\ <<r>>[1] = r
  OBVIOUS
<1>2. /\ s \in Seq(S) /\ Len(t) \in Nat /\ Len(s) = 1 + Len(t)
      /\ \A k \in 1 .. 1 + Len(t) : s[k] = IF k <= 1 THEN <<r>>[k] ELSE t[k - 1]
  OBVIOUS
<1> HIDE DEF s
<1>3. s # <<>> /\ Head(s) = s[1] /\ s[1] = r
  <2>1. s # <<>>
    BY <1>2, NotEmpty
  <2> QED
    BY <1>1, <1>2, <2>1
<1>4. tail \in Seq(S) /\ Len(tail) = Len(t) /\ \A k \in 1 .. Len(t) : tail[k] = s[k + 1]
  BY <1>2, <1>3
<1>5. \A k \in 1 .. Len(t) : s[k + 1] = t[k]
  BY <1>2
<1> HIDE DEF tail
<1>6. tail = t
  BY <1>4, <1>5, SeqEqual
<1> QED
  BY <1>2, <1>3, <1>6 DEF s, tail

\* Asking for a write and then the rest.
LEMMA AskedRest ==
    ASSUME NEW t \in Seq(Writes), NEW r \in Writes
    PROVE  Asked(<<r>> \o t) = <<[addr |-> r.addr, data |-> r.data]>> \o Asked(t)
<1> DEFINE s == <<r>> \o t
           q == [addr |-> r.addr, data |-> r.data]
           x == Asked(s)
           y == <<q>> \o Asked(t)
<1>1. s \in Seq(Writes) /\ s # <<>> /\ Head(s) = r /\ Tail(s) = t
  <2>1. s \in Seq(Writes) /\ Len(s) = Len(t) + 1 /\ Len(t) \in Nat
    OBVIOUS
  <2>2. s # <<>> 
    BY <2>1, NotEmpty
  <2>3. Head(s) = r /\ Tail(s) = t
    BY HeadTailAppended, Zenon
  <2> QED
    BY <2>1, <2>2, <2>3
<1> HIDE DEF s
<1>2. x # <<>> /\ Head(x) = q /\ Tail(x) = Asked(t) /\ x \in Seq(AskedWrites)
  BY <1>1, AskedParts, AskedSeq
<1> HIDE DEF x
<1>3. x = <<Head(x)>> \o Tail(x)
  BY <1>2
<1>4. x = y
  BY <1>2, <1>3
<1> QED
  BY <1>4 DEF x, s

\* The steps of ByteMemory, from what a step of Storage does: a new call asks,
LEMMA AsksMemory ==
    ASSUME todo = <<>>, todo' \in Seq(Writes), stored' = stored, writeback' = writeback
    PROVE  Memory!Ask
<1>1. Asked(todo) = <<>>
  BY AskedEmpty
<1>2. Asked(todo') \in Seq(AskedWrites)
  BY AskedSeq
<1>3. AtRisk' = AtRisk
  BY DEF AtRisk
<1> QED
  BY <1>1, <1>2, <1>3, Zenon DEF Memory!Ask, Memory!Writes, Asked, AtRisk, AskedWrites

Block == [a \in Addr |-> {b \in Addr : b \div FLASH_PAGE_SIZE = a \div FLASH_PAGE_SIZE}]

\* What Write of ByteMemory says, of the first n bytes of the first write.
WritesOf(n) ==
    /\ Asked(todo) # <<>> /\ AtRisk = {}
    /\ n \in 1 .. Len(Head(Asked(todo)).data)
    /\ stored' = [a \in Addr |->
                    IF a \in Head(Asked(todo)).addr .. Head(Asked(todo)).addr + n - 1
                    THEN Head(Asked(todo)).data[a - Head(Asked(todo)).addr + 1] ELSE stored[a]]
    /\ Asked(todo') = (IF n = Len(Head(Asked(todo)).data) THEN <<>>
                       ELSE <<[addr |-> Head(Asked(todo)).addr + n,
                               data |-> SubSeq(Head(Asked(todo)).data, n + 1,
                                               Len(Head(Asked(todo)).data))]>>)
                      \o Tail(Asked(todo))
    /\ AtRisk' \in {{}, Block[Head(Asked(todo)).addr]}

\* a write that is done writes,
LEMMA WritesMemory ==
    ASSUME NEW n, WritesOf(n)
    PROVE  Memory!Write
BY Zenon DEF WritesOf, Memory!Write, Asked, AtRisk, Block

\* a page that is programmed is no longer at risk,
LEMMA SettlesMemory ==
    ASSUME AtRisk # {}, AtRisk' = {}, stored' = stored, todo' = todo
    PROVE  Memory!Settle
BY Zenon DEF Memory!Settle, AtRisk

\* a loss of power blanks cells at risk at most,
LEMMA LosesMemory ==
    ASSUME stored' \in Mem, todo' = <<>>, AtRisk' = {},
           \A a \in Addr : stored'[a] = stored[a] \/ (a \in AtRisk /\ stored'[a] = BLANK)
    PROVE  Memory!PowerLoss
<1>1. Asked(todo') = <<>>
  BY AskedEmpty
<1> QED
  BY <1>1, Zenon DEF Memory!PowerLoss, Asked, AtRisk, Mem

\* all else does not show.
LEMMA LeavesMemory ==
    ASSUME stored' = stored, todo' = todo, AtRisk' = AtRisk
    PROVE  UNCHANGED Memory!vars
BY Zenon DEF Memory!vars, AtRisk

\* The initial states are those of ByteMemory.
LEMMA InitMemory ==
    ASSUME Init
    PROVE  Memory!Init
<1>1. stored = rom /\ rom \in Mem /\ todo = <<>> /\ AtRisk = {}
  <2>1. rom = [a \in Addr |-> BLANK] /\ todo = <<>> /\ writeback.at = "idle"
    BY DEF Init
  <2> QED
    BY <2>1 DEF stored, AtRisk, Mem, Byte, BLANK
<1>2. Asked(todo) = <<>>
  BY <1>1, AskedEmpty
<1> QED
  BY <1>1, <1>2, Zenon DEF Memory!Init, Asked, AtRisk, Mem

\* A byte in place, or the page through the copy: the first n bytes are written.
LEMMA DoneWrites ==
    ASSUME Types, todo # <<>>, AtRisk = {}, NEW n, n \in 1 .. Len(Head(todo).data),
           Done(Head(todo), n),
           todo' = (IF n = Len(Head(todo).data) THEN <<>> ELSE <<Rest(Head(todo))>>) \o Tail(todo),
           n = Len(Head(todo).data) \/ (n = 1 /\ Internal),
           AtRisk' \in {{}, Block[Head(todo).addr]}
    PROVE  WritesOf(n)
<1> DEFINE w == Head(todo)
           q == Head(Asked(todo))
<1>1. /\ Legal(w) /\ todo \in Seq(Writes) /\ Tail(todo) \in Seq(Writes)
      /\ w.data \in Seq(Byte) /\ Len(w.data) \in Nat /\ w.addr \in Nat
  BY FirstWrite, WriteData DEF Types
<1>2. Asked(todo) # <<>> /\ q = [addr |-> w.addr, data |-> w.data] /\ Tail(Asked(todo)) = Asked(Tail(todo))
  BY <1>1, AskedParts
<1>3. q.addr = w.addr /\ q.data = w.data
  BY <1>2
<1>4. stored' = [a \in Addr |-> IF a \in w.addr .. w.addr + n - 1
                                THEN w.data[a - w.addr + 1] ELSE stored[a]]
  <2>1. stored' \in [Addr -> Byte]
        /\ \A a \in Addr : stored'[a] =
              IF a \in w.addr .. w.addr + n - 1 THEN w.data[a - w.addr + 1] ELSE stored[a]
    BY DEF Done, Mem
  <2> QED
    BY <2>1
<1>5. Asked(todo') = (IF n = Len(w.data) THEN <<>>
                      ELSE <<[addr |-> w.addr + n, data |-> SubSeq(w.data, n + 1, Len(w.data))]>>)
                     \o Asked(Tail(todo))
  <2>1. CASE n = Len(w.data)
    <3>1. todo' = Tail(todo)
      BY <1>1, <2>1
    <3>2. Asked(Tail(todo)) \in Seq(AskedWrites)
      BY <1>1, AskedSeq
    <3>3. <<>> \o Asked(Tail(todo)) = Asked(Tail(todo))
      BY <3>2
    <3> QED
      BY <2>1, <3>1, <3>3, Zenon
  <2>2. CASE n # Len(w.data)
    <3>1. n = 1 /\ Internal /\ Len(w.data) > 1
      BY <1>1, <2>2
    <3>2. Rest(w) \in Writes /\ Rest(w).addr = w.addr + 1 /\ Rest(w).data = Tail(w.data)
      BY <1>1, <3>1, RestOfWrite
    <3>3. Asked(<<Rest(w)>> \o Tail(todo))
             = <<[addr |-> Rest(w).addr, data |-> Rest(w).data]>> \o Asked(Tail(todo))
      BY <1>1, <3>2, AskedRest
    <3>4. Tail(w.data) = SubSeq(w.data, n + 1, Len(w.data))
      <4>1. w.data # <<>>
        BY <1>1, <3>1, NotEmpty
      <4>2. Tail(w.data) = SubSeq(w.data, 2, Len(w.data))
        BY <1>1, <4>1, TailIsSubSeq
      <4> QED
        BY <3>1, <4>2
    <3>5. Rest(w).addr = w.addr + n
      BY <3>1, <3>2
    <3>6. todo' = <<Rest(w)>> \o Tail(todo)
      BY <2>2
    <3> QED
      BY <2>2, <3>2, <3>3, <3>4, <3>5, <3>6, Zenon
  <2> QED
    BY <2>1, <2>2
<1> HIDE DEF w, q
<1> QED
  BY <1>2, <1>3, <1>4, <1>5, Zenon DEF WritesOf, w, q

\* For every kind and size of memory in which no event lies across the end of a page,
\* what MLCBConfig keeps is kept as ByteMemory says: writes are done in order, each
\* changes the bytes it names and no others, and a loss of power harms none but those
\* of the page that is being written back (setChipEEPROMVal, flash_write_bytes,
\* flash_writeback_page).
THEOREM MemoryImplemented ==
    ASSUME EventsFit
    PROVE  Spec => ImplementsMemory
<1>1. Init => Memory!Init
  BY InitMemory
<1>2. IInv /\ [Next]_vars => [Memory!Next]_(Memory!vars)
  <2> SUFFICES ASSUME IInv, [Next]_vars
               PROVE  Memory!Next \/ UNCHANGED Memory!vars
    BY Zenon
  <2>1. Types /\ CacheTrue /\ todo \in Seq(Writes)
    BY DEF IInv, Types
  <2>2. CASE Request
    <3>1. todo' \in Seq(Writes) /\ UNCHANGED <<rom, cache_page, curr_page_num, writeback>>
      BY <2>1, <2>2, RequestIsOK DEF IInv, CallOK
    <3>2. todo = <<>>
      BY <2>2 DEF Request, Call
    <3>3. stored' = stored
      BY <3>1 DEF stored, programmed
    <3>4. Memory!Ask
      BY <3>1, <3>2, <3>3, AsksMemory
    <3> QED
      BY <3>4 DEF Memory!Next
  <2>3. CASE Reset
    <3>1. IInv'
      BY <2>3, ResetIInv
    <3>2. todo = <<>> /\ UNCHANGED <<rom, cache_page, curr_page_num, writeback>>
      BY <2>3 DEF Reset, Call, cached
    <3>3. todo' \in Seq(Writes)
      BY <3>1 DEF IInv, Types
    <3>4. stored' = stored
      BY <3>2 DEF stored, programmed
    <3>5. Memory!Ask
      BY <3>2, <3>3, <3>4, AsksMemory
    <3> QED
      BY <3>5 DEF Memory!Next
  <2>4. CASE WriteByte
    <3> DEFINE w == Head(todo)
    <3>1. Internal /\ todo # <<>> /\ Done(w, 1)
      BY <2>1, <2>4, WriteByteDoes
    <3>2. Legal(w) /\ Len(w.data) \in Nat /\ Len(w.data) >= 1
      BY <2>1, <3>1, FirstWrite, WriteData
    <3>3. /\ todo' = (IF Len(w.data) > 1 THEN <<Rest(w)>> ELSE <<>>) \o Tail(todo)
          /\ writeback' = writeback
      BY <2>4 DEF WriteByte, Rest, cached
    <3>4. writeback.at = "idle"
      BY <2>1, <3>1 DEF CacheTrue, idle
    <3>5. AtRisk = {} /\ AtRisk' = {}
      BY <3>3, <3>4 DEF AtRisk
    <3>6. todo' = (IF 1 = Len(w.data) THEN <<>> ELSE <<Rest(w)>>) \o Tail(todo)
      <4> DEFINE len == Len(w.data)
      <4>1. (len > 1) <=> ~(1 = len)
        <5> HIDE DEF len
        <5>1. len \in Nat /\ len >= 1
          BY <3>2 DEF len
        <5> QED
          BY <5>1
      <4> QED
        BY <3>3, <4>1, Zenon
    <3>7. 1 \in 1 .. Len(w.data)
      BY <3>2
    <3>8. WritesOf(1)
      BY <2>1, <3>1, <3>5, <3>6, <3>7, DoneWrites
    <3> QED
      BY <3>8, WritesMemory DEF Memory!Next
  <2>5. CASE Erase
    <3> DEFINE w == Head(todo)
               n == Len(w.data)
    <3>1. Flash /\ todo # <<>> /\ Done(w, n) /\ todo' = Tail(todo)
      BY <2>1, <2>5, EraseDoes
    <3>2. Legal(w) /\ w.addr \in Addr /\ n \in Nat /\ n >= 1 /\ Tail(todo) \in Seq(Writes)
      BY <2>1, <3>1, FirstWrite, WriteData
    <3>3. writeback.at = "filled" /\ writeback' = [writeback EXCEPT !.at = "erased"]
      BY <2>5 DEF Erase
    <3>4. writeback'.at = "erased" /\ writeback'.page = newPage(w)
      <4>1. writeback \in [at : {"idle", "filled", "erased"}, page : Pages]
        BY <2>1 DEF Types
      <4>2. writeback.page = newPage(w)
        BY <2>1, <3>3 DEF CacheTrue
      <4> QED
        BY <3>3, <4>1, <4>2
    <3>5. AtRisk = {} /\ AtRisk' = Block[w.addr]
      <4>1. Block[w.addr] = {b \in Addr : b \div FLASH_PAGE_SIZE = w.addr \div FLASH_PAGE_SIZE}
        BY <3>2 DEF Block
      <4>2. AtRisk' = {a \in Addr : a \div FLASH_PAGE_SIZE = w.addr \div FLASH_PAGE_SIZE}
        BY <3>4 DEF AtRisk, newPage
      <4> QED
        BY <3>3, <4>1, <4>2 DEF AtRisk
    <3>6. todo' = (IF n = Len(w.data) THEN <<>> ELSE <<Rest(w)>>) \o Tail(todo)
      <4>1. <<>> \o Tail(todo) = Tail(todo)
        BY <3>2
      <4> QED
        BY <3>1, <4>1, Zenon
    <3>7. n \in 1 .. Len(w.data)
      BY <3>2
    <3>8. AtRisk' \in {{}, Block[w.addr]}
      BY <3>5
    <3>9. WritesOf(n)
      BY <2>1, <3>1, <3>5, <3>6, <3>7, <3>8, DoneWrites
    <3> QED
      BY <3>9, WritesMemory DEF Memory!Next
  <2>6. CASE Fill
    <3>1. stored' = stored
      BY <2>1, <2>6, FillKeeps
    <3>2. todo' = todo /\ writeback.at = "idle" /\ writeback'.at = "filled"
      BY <2>6 DEF Fill, idle
    <3>3. AtRisk' = AtRisk
      BY <3>2 DEF AtRisk
    <3> QED
      BY <3>1, <3>2, <3>3, LeavesMemory
  <2>7. CASE Program
    <3>1. stored' = stored
      BY <2>1, <2>7, ProgramKeeps
    <3>2. todo' = todo /\ writeback.at = "erased" /\ writeback'.at = "idle"
      BY <2>1, <2>7 DEF Program, Types
    <3>3. AtRisk' = {}
      BY <3>2 DEF AtRisk
    <3>4. AtRisk # {}
      <4>1. writeback.page \in Pages
        BY <2>1 DEF Types
      <4>2. 0 \in 0 .. FLASH_PAGE_SIZE - 1
        BY Sizes
      <4>3. pageStart(writeback.page) + 0 \in Addr
            /\ (pageStart(writeback.page) + 0) \div FLASH_PAGE_SIZE = writeback.page
        BY <4>1, <4>2, AddrOfPage
      <4> QED
        BY <3>2, <4>3 DEF AtRisk
    <3> QED
      BY <3>1, <3>2, <3>3, <3>4, SettlesMemory DEF Memory!Next
  <2>8. CASE Reboot \/ PowerLoss
    <3>1. /\ rom' \in Mem /\ Begin(rom')
          /\ \A a \in Addr : rom'[a] = stored[a] \/ (a \in AtRisk /\ rom'[a] = BLANK)
      <4>1. CASE Reboot
        <5>1. rom' = rom /\ stored = rom /\ Begin(rom)
          BY <4>1 DEF Reboot, Begin, stored, idle
        <5> QED
          BY <2>1, <5>1 DEF Types
      <4>2. CASE PowerLoss
        BY <2>1, <4>2, PowerLossLeaves DEF AtRisk
      <4> QED
        BY <2>8, <4>1, <4>2
    <3>2. stored' = rom'
      BY <3>1, BeginStored
    <3>3. todo' = <<>> /\ AtRisk' = {}
      BY <3>1 DEF Begin, AtRisk
    <3>4. Memory!PowerLoss
      BY <3>1, <3>2, <3>3, LosesMemory
    <3> QED
      BY <3>4 DEF Memory!Next
  <2>9. CASE UNCHANGED vars
    <3>1. todo' = todo /\ rom' = rom /\ writeback' = writeback /\ cache_page' = cache_page
      BY <2>9 DEF vars, cached
    <3>2. stored' = stored /\ AtRisk' = AtRisk
      BY <3>1 DEF stored, programmed, AtRisk
    <3> QED
      BY <3>1, <3>2, LeavesMemory
  <2> QED
    BY <2>2, <2>3, <2>4, <2>5, <2>6, <2>7, <2>8, <2>9 DEF Next
<1> QED
  BY <1>1, <1>2, Inductive, PTL DEF Spec, ImplementsMemory, Memory!Spec
=============================================================================
