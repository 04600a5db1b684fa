------------------------------- MODULE Storage -------------------------------
(***************************************************************************)
(* The memory that MLCBConfig keeps a node's identity, reset flag, node     *)
(* variables and events in, and the calls that change it, with power loss   *)
(* at any moment.  There are two kinds.  EEPROM_INTERNAL writes bytes in    *)
(* place, one at a time.  EEPROM_USES_FLASH, on AVR-Dx parts, keeps one     *)
(* page of flash in RAM, changes it there, and for every write erases the   *)
(* page and programs all of it anew; reads do not go through that copy.     *)
(* The external EEPROM on the I2C bus is not modelled.                      *)
(*                                                                         *)
(* A call is the sequence of writes it makes.  ByteMemory is what it relies *)
(* on; see ImplementsMemory.                                                *)
(***************************************************************************)
EXTENDS Integers, SequencesExt

CONSTANTS
    EepromTypes,       \* the kinds of memory a node may have
    FLASH_PAGE_SIZE,   \* bytes in a page, 512 in the code
    NUM_FLASH_PAGES,
    EE_NVS_START, EE_NUM_NVS,
    EE_EVENTS_START, EE_MAX_EVENTS, EE_NUM_EVS,
    NodeNumbers,       \* numbers SNN gives; none is 0
    CANIDs,            \* ids CANID or an enumeration gives
    Values,            \* values NVSET and EVLRN give
    Events             \* events EVLRN stores, as sequences of four bytes

Byte == 0 .. 255
Word == 0 .. 65535
BLANK == 255           \* an erased byte
EE_BYTES_PER_EVENT == EE_NUM_EVS + 4
Pages == 0 .. NUM_FLASH_PAGES - 1
Size == NUM_FLASH_PAGES * FLASH_PAGE_SIZE
Addr == 0 .. Size - 1

\* The bytes that outlive a reset, and those NVSET reaches, end before the events.  A
\* page is more than the four bytes of an event, which is how writes of it are told apart.
ASSUME StorageAssumption ==
    /\ EepromTypes \subseteq {"EEPROM_INTERNAL", "EEPROM_USES_FLASH"}
    /\ FLASH_PAGE_SIZE \in Nat /\ FLASH_PAGE_SIZE > 4 /\ NUM_FLASH_PAGES \in Nat \ {0}
    /\ {EE_NVS_START, EE_NUM_NVS, EE_EVENTS_START, EE_MAX_EVENTS, EE_NUM_EVS} \subseteq Nat
    /\ 10 <= EE_NVS_START
    /\ EE_NVS_START + EE_NUM_NVS <= EE_EVENTS_START
    /\ EE_EVENTS_START + EE_MAX_EVENTS * EE_BYTES_PER_EVENT <= Size
    /\ NodeNumbers \subseteq Word \ {0} /\ CANIDs \subseteq Byte \ {0}
    /\ Values \subseteq Byte /\ Events \subseteq [1 .. 4 -> Byte]

VARIABLES
    eeprom_type,     \* set once, before begin()
    rom,             \* the bytes of the EEPROM or the flash
    cache_page,      \* the copy of one page, in RAM
    curr_page_num,   \* the page it is a copy of
    writeback,       \* what flash_writeback_page is doing, and to which page
    todo,            \* the writes the running call has not begun
    config,          \* FLiM, CANID and nodeNum in RAM
    resetting        \* resetModule runs, which ends in a reboot

cached == <<cache_page, curr_page_num, writeback>>
vars == <<eeprom_type, rom, cached, todo, config, resetting>>

-----------------------------------------------------------------------------
(* Calls as sequences of writes.  ram is what a call sets in RAM before it  *)
(* writes.                                                                 *)

highByte(n) == (n \div 256) % 256
lowByte(n) == n % 256

nothing == [x \in {} |-> x]
bytesAt(addr, data) == <<[addr |-> addr, data |-> data, ram |-> nothing]>>
writeEEPROM(addr, byte) == bytesAt(addr, <<byte>>)
with(ram, writes) == [writes EXCEPT ![1].ram = ram]

setFLiM(f) == with([FLiM |-> f], writeEEPROM(0, IF f THEN 1 ELSE 0))
setCANID(canid) == with([CANID |-> canid], writeEEPROM(1, canid))
setNodeNum(nn) ==
    with([nodeNum |-> nn], writeEEPROM(2, highByte(nn)) \o writeEEPROM(3, lowByte(nn)))

\* SLiM: MLCBbase::setSLiM.
setSLiM == setNodeNum(0) \o setFLiM(FALSE) \o setCANID(0)

\* Mutant: the mode first.
SNNModeFirst(nn) == setFLiM(TRUE) \o setNodeNum(nn)

\* OPC_SNN in a transition.
SNN(nn) == setNodeNum(nn) \o setFLiM(TRUE)

writeNV(idx, val) == writeEEPROM(EE_NVS_START + (idx - 1), val)

eventAddr(idx) == EE_EVENTS_START + idx * EE_BYTES_PER_EVENT
writeEvent(idx, data) == bytesAt(eventAddr(idx), data)
cleareventEEPROM(idx) == writeEvent(idx, [i \in 1 .. 4 |-> BLANK])
writeEventEV(idx, evnum, evval) == writeEEPROM(eventAddr(idx) + 3 + evnum, evval)

setResetFlag == writeEEPROM(5, 99)
clearResetFlag == writeEEPROM(5, 0)

pageStart(page) == page * FLASH_PAGE_SIZE

\* The bytes from 10 on, one by one, or all pages.
erased ==
    IF eeprom_type = "EEPROM_INTERNAL"
    THEN [k \in 1 .. Size - 10 |-> writeEEPROM(9 + k, BLANK)[1]]
    ELSE [k \in 1 .. NUM_FLASH_PAGES |->
            bytesAt(pageStart(k - 1), [i \in 1 .. FLASH_PAGE_SIZE |-> BLANK])[1]]

noIdentity == writeEEPROM(0, 0) \o writeEEPROM(1, 0) \o writeEEPROM(2, 0) \o writeEEPROM(3, 0)

zeroNVs == [i \in 1 .. EE_NUM_NVS |-> writeNV(i, 0)[1]]

\* Mutant: the flag is set before the work is done.
resetModuleFlagFirst == erased \o setResetFlag \o noIdentity \o zeroNVs

resetModule == erased \o noIdentity \o setResetFlag \o zeroNVs

-----------------------------------------------------------------------------
(* The two kinds of memory.                                                *)

idle == writeback.at = "idle"
Internal == eeprom_type = "EEPROM_INTERNAL"
Flash == eeprom_type = "EEPROM_USES_FLASH"

\* The configuration in RAM after a call has set some of it.
configAfter(ram) == [x \in DOMAIN config |-> IF x \in DOMAIN ram THEN ram[x] ELSE config[x]]

overlaid(bytes, addr, data) ==
    [a \in DOMAIN bytes |->
        IF a \in addr .. addr + Len(data) - 1 THEN data[a - addr + 1] ELSE bytes[a]]

pageOf(bytes, page) == [i \in 0 .. FLASH_PAGE_SIZE - 1 |-> bytes[pageStart(page) + i]]

programmed(bytes, page, new) ==
    [a \in Addr |-> IF a \div FLASH_PAGE_SIZE = page THEN new[a % FLASH_PAGE_SIZE] ELSE bytes[a]]

blankPage == [i \in 0 .. FLASH_PAGE_SIZE - 1 |-> BLANK]

\* setChipEEPROMVal: the next byte of the first write.
WriteByte ==
    /\ Internal /\ todo # <<>>
    /\ LET w == Head(todo)
           rest == [w EXCEPT !.addr = @ + 1, !.data = Tail(@), !.ram = nothing]
       IN  /\ rom' = [rom EXCEPT ![w.addr] = Head(w.data)]
           /\ config' = configAfter(w.ram)
           /\ todo' = (IF Len(w.data) > 1 THEN <<rest>> ELSE <<>>) \o Tail(todo)
    /\ UNCHANGED <<eeprom_type, cached, resetting>>

newPage(w) == w.addr \div FLASH_PAGE_SIZE
wholePage(w) == Len(w.data) = FLASH_PAGE_SIZE

\* Mutant: the copy is not replaced when the page changes.
flash_cached_pageStale(page) == cache_page

\* The copy of a page: read anew if it is not the current one.  No page is ever
\* dirty here, since each write is written back at once.
flash_cached_page(page) == IF page = curr_page_num THEN cache_page ELSE pageOf(rom, page)

\* Bytes behind the end of the page are written behind cache_page, where
\* curr_page_num is.
pastPage(w) ==
    {w.data[k] : k \in {k \in DOMAIN w.data : (w.addr % FLASH_PAGE_SIZE) + k > FLASH_PAGE_SIZE}}

\* flash_write_bytes up to its last call, and the same of resetEEPROM, which
\* fills the copy with blanks and leaves the number of the page alone.
Fill ==
    /\ Flash /\ idle /\ todo # <<>>
    /\ LET w == Head(todo)
           page == newPage(w)
       IN  /\ config' = configAfter(w.ram)
           /\ cache_page' = overlaid(flash_cached_page(page), w.addr % FLASH_PAGE_SIZE, w.data)
           /\ \/ /\ wholePage(w)
                 /\ writeback' = [at |-> "filled", page |-> page]
                 /\ UNCHANGED curr_page_num
              \/ /\ ~wholePage(w)
                 /\ curr_page_num' \in {page} \cup (pastPage(w) \cap Pages)
                 /\ writeback' = [at |-> "filled", page |-> curr_page_num']
    /\ UNCHANGED <<eeprom_type, rom, todo, resetting>>

\* flash_writeback_page: erase, then program.
Erase ==
    /\ writeback.at = "filled"
    /\ rom' = programmed(rom, writeback.page, blankPage)
    /\ writeback' = [writeback EXCEPT !.at = "erased"]
    /\ todo' = Tail(todo)
    /\ UNCHANGED <<eeprom_type, cache_page, curr_page_num, config, resetting>>

Program ==
    /\ writeback.at = "erased"
    /\ rom' = programmed(rom, writeback.page, cache_page)
    /\ writeback' = [writeback EXCEPT !.at = "idle"]
    /\ UNCHANGED <<eeprom_type, cache_page, curr_page_num, todo, config, resetting>>

-----------------------------------------------------------------------------
(* Calls, power loss and restart.                                          *)

Call(writes) ==
    /\ idle /\ todo = <<>> /\ ~resetting
    /\ todo' = writes
    /\ UNCHANGED <<eeprom_type, rom, cached, config>>

\* What the handlers and the sketch ask for.  NVSET lets index 0 pass.
Request ==
    /\ \/ Call(setSLiM)
       \/ \E nn \in NodeNumbers : Call(SNN(nn))
       \/ \E canid \in CANIDs : Call(setCANID(canid))
       \/ \E idx \in 0 .. EE_NUM_NVS, val \in Values : Call(writeNV(idx, val))
       \/ \E idx \in 0 .. EE_MAX_EVENTS - 1, data \in Events : Call(writeEvent(idx, data))
       \/ \E idx \in 0 .. EE_MAX_EVENTS - 1 : Call(cleareventEEPROM(idx))
       \/ \E idx \in 0 .. EE_MAX_EVENTS - 1, evnum \in 1 .. EE_NUM_EVS, evval \in Values :
             Call(writeEventEV(idx, evnum, evval))
       \/ Call(clearResetFlag)
    /\ UNCHANGED resetting

Reset == Call(resetModule) /\ resetting' = TRUE

\* Mutant: the bytes of the node number are swapped.
loadNVsSwapped(bytes) ==
    [FLiM |-> bytes[0] # 0, CANID |-> bytes[1], nodeNum |-> bytes[3] * 256 + bytes[2]]

loadNVs(bytes) ==
    [FLiM |-> bytes[0] # 0, CANID |-> bytes[1], nodeNum |-> bytes[2] * 256 + bytes[3]]

\* Mutant: the copy is what it was.
cachedAtBeginNot(bytes) == cache_page

cachedAtBegin(bytes) == IF Flash THEN pageOf(bytes, 0) ELSE cache_page

\* begin(): nothing is left of the call that ran.
Begin(bytes) ==
    /\ rom' = bytes
    /\ curr_page_num' = 0
    /\ cache_page' = cachedAtBegin(bytes)
    /\ writeback' = [at |-> "idle", page |-> 0]
    /\ todo' = <<>>
    /\ config' = loadNVs(bytes)
    /\ resetting' = FALSE
    /\ UNCHANGED eeprom_type

Reboot == resetting /\ idle /\ todo = <<>> /\ Begin(rom)

\* The page has been erased and its first n bytes programmed.
cut(n) == [i \in 0 .. FLASH_PAGE_SIZE - 1 |-> IF i < n THEN cache_page[i] ELSE BLANK]

PowerLoss ==
    \/ writeback.at # "erased" /\ Begin(rom)
    \/ /\ writeback.at = "erased"
       /\ \E n \in 0 .. FLASH_PAGE_SIZE - 1 : Begin(programmed(rom, writeback.page, cut(n)))

\* A node that was never configured.
Init ==
    /\ eeprom_type \in EepromTypes
    /\ rom = [a \in Addr |-> BLANK]
    /\ curr_page_num = 0
    /\ cache_page = pageOf(rom, 0)
    /\ writeback = [at |-> "idle", page |-> 0]
    /\ todo = <<>>
    /\ config = loadNVs(rom)
    /\ resetting = FALSE

Next == Request \/ Reset \/ WriteByte \/ Fill \/ Erase \/ Program \/ Reboot \/ PowerLoss

Spec == Init /\ [][Next]_vars

-----------------------------------------------------------------------------
(* Properties.                                                             *)

\* The memory with the write-back that is under way done.
stored == IF writeback.at = "erased" THEN programmed(rom, writeback.page, cache_page) ELSE rom

numberIn(bytes) == bytes[2] * 256 + bytes[3]

\* Types; and outside a write the copy in RAM is the page it is taken for, so that
\* the next write does not put old bytes back (flash_write_bytes).
TypeOK ==
    /\ rom \in [Addr -> Byte]
    /\ curr_page_num \in Pages
    /\ writeback.at \in {"idle", "filled", "erased"} /\ writeback.page \in Pages
    /\ config.CANID \in Byte /\ config.nodeNum \in Word /\ config.FLiM \in BOOLEAN
    /\ Flash /\ idle /\ (todo # <<>> => ~wholePage(Head(todo))) =>
          cache_page = pageOf(rom, curr_page_num)

\* Each write changes the bytes it names and no others, and stays, whatever pages
\* are cached in between; a loss of power harms only the page being written, and
\* with bytes written in place nothing.
Memory == INSTANCE ByteMemory WITH
    mem <- stored,
    todo <- [k \in DOMAIN todo |-> [addr |-> todo[k].addr, data |-> todo[k].data]],
    atRisk <- IF writeback.at = "erased"
              THEN {a \in Addr : a \div FLASH_PAGE_SIZE = writeback.page} ELSE {},
    Blank <- BLANK,
    Block <- [a \in Addr |-> {b \in Addr : b \div FLASH_PAGE_SIZE = a \div FLASH_PAGE_SIZE}]

ImplementsMemory == Memory!Spec

\* Between calls the identity in RAM is the one the next restart finds, however
\* the calls that set it were cut short before (setFLiM, setCANID, setNodeNum, loadNVs).
IdentityStored == idle /\ todo = <<>> /\ ~resetting => config = loadNVs(rom)

\* "the resetModule method writes the value 99 to EEPROM address 5 when a module
\* reset has been performed": when the flag appears, and not only at the end of the
\* reset, the old identity and all events are gone, so that a sketch that finds it
\* after a power cut does not set defaults for a module that is still configured.
ResetFlagTruthful ==
    [][stored'[5] = 99 /\ stored[5] # 99 =>
          /\ \A a \in 0 .. 3 : stored'[a] = 0
          /\ \A a \in Addr : a >= EE_NVS_START => stored'[a] = BLANK]_vars

\* The mode is set to FLiM only with a node number stored, also if the power fails
\* at any moment of SNN: a restart must not find a FLiM node without a number.
FLiMNeedsNumber ==
    [][stored'[0] = 1 /\ stored[0] # 1 => numberIn(stored') # 0]_vars

=============================================================================
