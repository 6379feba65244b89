------------------------------- MODULE SdDisk -------------------------------
(***************************************************************************)
(* SD cards: the PowerPC's disk layer with its sector cache                *)
(* (libdiskmii/diskio.c, cache.c), the ARM's card layer (mini/sdmmc.c) and *)
(* the card in the slot, which may be exchanged at any moment.             *)
(*                                                                         *)
(* The PowerPC runs one disk call at a time and sends one request at a     *)
(* time.  The ARM's main loop works off the slow queue, where the PowerPC's*)
(* request and the card interrupt's IPC_SDHC_DISCOVER meet (MiniIpc models *)
(* how they come there and how replies go back).                           *)
(*                                                                         *)
(* Every insertion counts as a card of its own.  What a sector holds is    *)
(* [card, text]: the card is part of it so that stale data can be told.    *)
(***************************************************************************)
EXTENDS SectorCache

CONSTANTS
    Texts,     \* what a client writes in a sector
    Torn,      \* what a write that failed may leave in it
    MaxCards   \* bound: insertions

ASSUME CardsAssumption ==
    /\ MaxCards \in Nat \ {0}
    /\ Torn \notin Texts
    /\ 0 \in Sectors
    /\ Data = [card : 1 .. MaxCards, text : Texts \cup {Torn}]

Cards == 1 .. MaxCards

NoCard == 0

(***************************************************************************)
(* Requests.  state, ack, size, read and write are the PowerPC's;          *)
(* discover is enqueued by sdhc_intr.                                      *)
(***************************************************************************)
Request == [op : {"state", "ack", "size", "read", "write", "discover"},
            first : Sectors, count : 1 .. 2, text : Texts \cup {Torn}]

Plain(op) == [op |-> op, first |-> 0, count |-> 1, text |-> Torn]

Transfer(op, first, count, text) ==
    [op |-> op, first |-> first, count |-> count, text |-> text]

(* A call of the disk layer: big if its buffer is aligned, so that all its *)
(* sectors go in one request; at is the next one to transfer.              *)
Call == [op : {"init", "status", "size", "read", "write"}, first : Sectors,
         count : 1 .. 2, big : BOOLEAN, at : Nat, text : Texts \cup {Torn}]

ASSUME NoCallAssumption == None \notin Call

Disk == [Sectors -> Data]

(* What was read, a function of sectors: here none. *)
NoSectors == [s \in {} |-> Torn]

VARIABLES
    slot, used,    \* the card in the slot; insertions so far
    powered,       \* it is in its transfer state
    disk,          \* what it holds
    cardFlag,      \* the controller's insertion and removal interrupt
    slow,          \* the slow queue
    inserted, selected, newCard,   \* struct sdmmc_card
    mode, sized,   \* the card sdhc_blockmode and num_sectors are of
    call,          \* the PowerPC's call in progress
    reply,         \* the ARM's reply, until the PowerPC takes it
    got,           \* the sectors the call has read so far
    touched        \* cards read or written since the last acknowledgement

hardware == <<slot, used, powered, disk, cardFlag>>
card == <<inserted, selected, newCard, mode, sized>>
ppc == <<call, got>>
vars == <<cacheVars, hardware, slow, card, ppc, reply, touched>>

(***************************************************************************)
(* mini has found the first card, acknowledged it and started the PowerPC  *)
(* with a program from it (sdmmc_attach, mini/diskio.c, main.c).           *)
(***************************************************************************)
Init ==
    /\ CacheInit
    /\ slot = 1 /\ used = 1 /\ powered = TRUE
    /\ disk \in [Sectors -> [card : {1}, text : Texts]]
    /\ cardFlag = FALSE
    /\ slow = <<>>
    /\ inserted = TRUE /\ selected = TRUE /\ newCard = FALSE
    /\ mode = 1 /\ sized = 1
    /\ call = None /\ reply = None /\ got = NoSectors
    /\ touched = {}

-----------------------------------------------------------------------------
(* The slot. *)
InsertCard ==
    /\ slot = NoCard /\ used < MaxCards
    /\ used' = used + 1 /\ slot' = used'
    /\ disk' \in [Sectors -> [card : {used'}, text : Texts]]
    /\ cardFlag' = TRUE
    /\ UNCHANGED <<cacheVars, powered, slow, card, ppc, reply, touched>>

RemoveCard ==
    /\ slot # NoCard
    /\ slot' = NoCard /\ powered' = FALSE
    /\ cardFlag' = TRUE
    /\ UNCHANGED <<cacheVars, used, disk, slow, card, ppc, reply, touched>>

(* sdhc_intr, on a card change *)
CardIrq ==
    /\ cardFlag
    /\ cardFlag' = FALSE
    /\ slow' = Append(slow, Plain("discover"))
    /\ UNCHANGED <<cacheVars, slot, used, powered, disk, card, ppc, reply, touched>>

-----------------------------------------------------------------------------
(***************************************************************************)
(* The ARM's main loop.  Each request is one step: cards are exchanged     *)
(* before it or after it, or, in the middle of it, make it fail first.     *)
(***************************************************************************)
Serving(op) == slow # <<>> /\ Head(slow).op = op

Served == slow' = Tail(slow)

(***************************************************************************)
(* sdmmc_needs_discover, one action for each place where it can end.  It   *)
(* resets the host and sets new_card whatever happens.                     *)
(***************************************************************************)
Discover == Serving("discover") /\ Served

(* Faulty variant: a card that was there before stays acknowledged. *)
AnnounceOnce == newCard' = (newCard \/ ~inserted)

Announce == newCard' = TRUE

DiscoverNone ==
    /\ Discover /\ slot = NoCard
    /\ Announce
    /\ inserted' = FALSE
    /\ powered' = FALSE
    /\ UNCHANGED <<cacheVars, slot, used, disk, cardFlag, selected, mode, sized, ppc, reply, touched>>

(* No power, no clock, GO_IDLE_STATE, the card does not power up. *)
DiscoverDead ==
    /\ Discover /\ slot # NoCard
    /\ Announce
    /\ powered' = FALSE
    /\ UNCHANGED <<cacheVars, slot, used, disk, cardFlag, inserted, selected, mode, sized, ppc, reply, touched>>

(* ALL_SEND_CID or SEND_RELATIVE_ADDR fails. *)
DiscoverAnonymous ==
    /\ Discover /\ slot # NoCard
    /\ Announce
    /\ mode' = slot
    /\ powered' = FALSE
    /\ UNCHANGED <<cacheVars, slot, used, disk, cardFlag, inserted, selected, sized, ppc, reply, touched>>

(* SEND_CSD fails: the card is powered off, and counts as inserted. *)
DiscoverSizeless ==
    /\ Discover /\ slot # NoCard
    /\ Announce
    /\ mode' = slot
    /\ inserted' = TRUE /\ selected' = FALSE
    /\ powered' = FALSE
    /\ UNCHANGED <<cacheVars, slot, used, disk, cardFlag, sized, ppc, reply, touched>>

(* SET_BLOCKLEN fails. *)
DiscoverMute ==
    /\ Discover /\ slot # NoCard
    /\ Announce
    /\ mode' = slot /\ sized' = slot
    /\ inserted' = FALSE /\ selected' = FALSE
    /\ powered' = FALSE
    /\ UNCHANGED <<cacheVars, slot, used, disk, cardFlag, ppc, reply, touched>>

(* All is well; sdmmc_select's answer may be lost, and is not looked at. *)
DiscoverReady ==
    /\ Discover /\ slot # NoCard
    /\ Announce
    /\ mode' = slot /\ sized' = slot
    /\ inserted' = TRUE /\ selected' \in BOOLEAN
    /\ powered' = TRUE
    /\ UNCHANGED <<cacheVars, slot, used, disk, cardFlag, ppc, reply, touched>>

Discovery ==
    \/ DiscoverNone \/ DiscoverDead \/ DiscoverAnonymous
    \/ DiscoverSizeless \/ DiscoverMute \/ DiscoverReady

(* sdmmc_ipc: ipc_post with the value an operation returns. *)
Reply(value, data) == reply' = [value |-> value, data |-> data]

(* sdmmc_check_card *)
CardState ==
    CASE ~inserted -> "no card"
      [] inserted /\ newCard -> "new card"
      [] OTHER -> "inserted"

ServeState ==
    /\ Serving("state") /\ Served
    /\ Reply(CardState, NoSectors)
    /\ UNCHANGED <<cacheVars, hardware, card, ppc, touched>>

(* sdmmc_ack_card *)
ServeAck ==
    /\ Serving("ack") /\ Served
    /\ Reply(IF newCard THEN "ok" ELSE "error", NoSectors)
    /\ newCard' = FALSE
    /\ touched' = IF newCard THEN {} ELSE touched
    /\ UNCHANGED <<cacheVars, hardware, inserted, selected, mode, sized, ppc>>

(* sdmmc_get_sectors; the PowerPC takes -1 for a size. *)
ServeSize ==
    /\ Serving("size") /\ Served
    /\ Reply(IF inserted /\ ~newCard THEN "ok" ELSE "error", NoSectors)
    /\ UNCHANGED <<cacheVars, hardware, card, ppc, touched>>

SectorsOf(first, count) == {s \in Sectors : InRange(s, first, count)}

(***************************************************************************)
(* sdmmc_read and sdmmc_write: select the card if it is not, then refuse   *)
(* if it is not acknowledged.                                              *)
(***************************************************************************)
Select ==
    \/ selected /\ UNCHANGED selected
    \/ ~selected /\ powered /\ selected' = TRUE

ServeRefused ==
    /\ Serving("read") \/ Serving("write")
    /\ \/ ~inserted /\ UNCHANGED selected
       \/ inserted /\ ~selected /\ UNCHANGED selected
       \/ inserted /\ newCard /\ Select
    /\ Served
    /\ Reply("error", NoSectors)
    /\ UNCHANGED <<cacheVars, hardware, inserted, newCard, mode, sized, ppc, touched>>

Accepted == inserted /\ ~newCard /\ Select

ServeRead ==
    /\ Serving("read") /\ Served
    /\ Accepted /\ powered
    /\ LET r == Head(slow) IN
       Reply("ok", [s \in SectorsOf(r.first, r.count) |-> disk[s]])
    /\ touched' = touched \cup {slot}
    /\ UNCHANGED <<cacheVars, hardware, inserted, newCard, mode, sized, ppc>>

(* The command fails, for a card that is not ready or any other reason. *)
ServeReadFails ==
    /\ Serving("read") /\ Served
    /\ Accepted
    /\ Reply("error", NoSectors)
    /\ UNCHANGED <<cacheVars, hardware, inserted, newCard, mode, sized, ppc, touched>>

ServeWrite ==
    /\ Serving("write") /\ Served
    /\ Accepted /\ powered
    /\ LET r == Head(slow) IN
       disk' = [s \in Sectors |-> IF s \in SectorsOf(r.first, r.count)
                                  THEN [card |-> slot, text |-> r.text] ELSE disk[s]]
    /\ Reply("ok", NoSectors)
    /\ touched' = touched \cup {slot}
    /\ UNCHANGED <<cacheVars, slot, used, powered, cardFlag, inserted, newCard, mode, sized, ppc>>

(* The command fails, and may have changed the sectors it names. *)
ServeWriteFails ==
    /\ Serving("write") /\ Served
    /\ Accepted
    /\ LET r == Head(slow) IN
       IF powered
       THEN \E hit \in SUBSET SectorsOf(r.first, r.count) :
              disk' = [s \in Sectors |-> IF s \in hit
                                         THEN [card |-> slot, text |-> Torn] ELSE disk[s]]
       ELSE UNCHANGED disk
    /\ Reply("error", NoSectors)
    /\ touched' = IF powered THEN touched \cup {slot} ELSE touched
    /\ UNCHANGED <<cacheVars, slot, used, powered, cardFlag, inserted, newCard, mode, sized, ppc>>

Arm ==
    \/ Discovery \/ ServeState \/ ServeAck \/ ServeSize
    \/ ServeRefused \/ ServeRead \/ ServeReadFails \/ ServeWrite \/ ServeWriteFails

-----------------------------------------------------------------------------
(***************************************************************************)
(* The PowerPC's disk layer.                                               *)
(***************************************************************************)
Idle == call = None

Send(r) == slow' = Append(slow, r)

Return == call' = None /\ got' = NoSectors

(* SD_disk_initialize, SD_disk_status, SD_disk_ioctl with GET_SECTOR_COUNT *)
CallPlain ==
    /\ Idle
    /\ \E op \in {"init", "status", "size"} :
        /\ call' = [op |-> op, first |-> 0, count |-> 1, big |-> FALSE, at |-> 0, text |-> Torn]
        /\ Send(Plain(IF op = "size" THEN "size" ELSE "state"))
    /\ UNCHANGED <<cacheVars, hardware, card, got, reply, touched>>

(* SD_disk_read, when the sector is cached: the ARM is not asked. *)
CallReadHit(s) ==
    /\ Idle
    /\ ReadFromCache(s)
    /\ UNCHANGED <<hardware, slow, card, ppc, reply, touched>>

Batch(count, big) == IF big THEN count ELSE 1

(* SD_disk_read; several sectors are neither looked up nor cached. *)
CallRead(first, count, big) ==
    /\ Idle
    /\ IF count = 1
       THEN Holding(first) = {} /\ ~big /\ UNCHANGED cacheVars
       ELSE InvalidateCache(first, count)
    /\ call' = [op |-> "read", first |-> first, count |-> count, big |-> big,
                at |-> first, text |-> Torn]
    /\ Send(Transfer("read", first, Batch(count, big), Torn))
    /\ UNCHANGED <<hardware, card, got, reply, touched>>

(* Faulty variant: the cache is not told. *)
CallWriteBehind(first, count, big, text) ==
    /\ Idle /\ (count = 1 => ~big)
    /\ UNCHANGED cacheVars
    /\ call' = [op |-> "write", first |-> first, count |-> count, big |-> big,
                at |-> first, text |-> text]
    /\ Send(Transfer("write", first, Batch(count, big), text))
    /\ UNCHANGED <<hardware, card, got, reply, touched>>

(* SD_disk_write: the cache forgets the sectors before they are written. *)
CallWrite(first, count, big, text) ==
    /\ Idle /\ (count = 1 => ~big)
    /\ InvalidateCache(first, count)
    /\ call' = [op |-> "write", first |-> first, count |-> count, big |-> big,
                at |-> first, text |-> text]
    /\ Send(Transfer("write", first, Batch(count, big), text))
    /\ UNCHANGED <<hardware, card, got, reply, touched>>

Fits(first, count) == first \in Sectors /\ first + count - 1 \in Sectors

CallTransfer ==
    \E first \in Sectors, count \in 1 .. 2, big \in BOOLEAN :
        /\ Fits(first, count)
        /\ \/ CallRead(first, count, big)
           \/ \E text \in Texts : CallWrite(first, count, big, text)

Answered(op) == call # None /\ call.op = op /\ reply # None

Taken == reply' = None

(* SD_disk_initialize goes on to sd_mount. *)
InitMounts ==
    /\ Answered("init") /\ reply.value = "new card"
    /\ Send(Plain("ack"))
    /\ Taken
    /\ UNCHANGED <<cacheVars, hardware, card, ppc, touched>>

PlainReturns ==
    /\ call # None /\ call.op \in {"init", "status", "size"} /\ reply # None
    /\ ~(call.op = "init" /\ reply.value = "new card")
    /\ Return
    /\ Taken
    /\ UNCHANGED <<cacheVars, hardware, slow, card, touched>>

Complete == call.big \/ call.at = call.first + call.count - 1

(* What a call has read and what it is told now. *)
Both(f, g) == [s \in DOMAIN f \cup DOMAIN g |-> IF s \in DOMAIN f THEN f[s] ELSE g[s]]

(* The loop in SD_disk_read_core and SD_disk_write: the next sector. *)
NextSector ==
    /\ call # None /\ call.op \in {"read", "write"} /\ reply # None
    /\ reply.value = "ok" /\ ~Complete
    /\ call' = [call EXCEPT !.at = @ + 1]
    /\ Send(Transfer(call.op, call.at + 1, 1, call.text))
    /\ got' = Both(got, reply.data)
    /\ Taken
    /\ UNCHANGED <<cacheVars, hardware, card, touched>>

ReadReturns ==
    /\ Answered("read")
    /\ reply.value = "ok" /\ Complete
    /\ IF call.count = 1
       THEN AddToCache(call.first, reply.data[call.first])
       ELSE UNCHANGED cacheVars
    /\ Return
    /\ Taken
    /\ UNCHANGED <<hardware, slow, card, touched>>

WriteReturns ==
    /\ Answered("write")
    /\ reply.value = "ok" /\ Complete
    /\ Return
    /\ Taken
    /\ UNCHANGED <<cacheVars, hardware, slow, card, touched>>

TransferFails ==
    /\ call # None /\ call.op \in {"read", "write"} /\ reply # None
    /\ reply.value = "error"
    /\ Return
    /\ Taken
    /\ UNCHANGED <<cacheVars, hardware, slow, card, touched>>

Ppc ==
    \/ CallPlain \/ CallTransfer \/ \E s \in Sectors : CallReadHit(s)
    \/ InitMounts \/ PlainReturns \/ NextSector \/ ReadReturns \/ WriteReturns \/ TransferFails

-----------------------------------------------------------------------------
Next == InsertCard \/ RemoveCard \/ CardIrq \/ Arm \/ Ppc

Spec == Init /\ [][Next]_vars

-----------------------------------------------------------------------------
(***************************************************************************)
(* Properties.                                                             *)
(***************************************************************************)
Replies == [value : {"no card", "new card", "inserted", "ok", "error"},
            data : UNION {[S -> Data] : S \in SUBSET Sectors}]

(* Every variable has the type its declaration gives it. *)
TypeOK ==
    /\ CacheTypeOK
    /\ slot \in {NoCard} \cup Cards /\ used \in {NoCard} \cup Cards
    /\ powered \in BOOLEAN /\ disk \in Disk /\ cardFlag \in BOOLEAN
    /\ slow \in Seq(Request)
    /\ inserted \in BOOLEAN /\ selected \in BOOLEAN /\ newCard \in BOOLEAN
    /\ mode \in {NoCard} \cup Cards /\ sized \in {NoCard} \cup Cards
    /\ call \in Call \cup {None} /\ reply \in Replies \cup {None}
    /\ got \in UNION {[S -> Data] : S \in SUBSET Sectors}
    /\ touched \subseteq Cards

(***************************************************************************)
(* The cache never lies about the card in the slot: a cached sector that   *)
(* was read from it is what the card holds, after writes, writes that      *)
(* failed and reads of several sectors, whatever failed in them.  (What is *)
(* cached of an earlier card stays cached: nobody tells the cache.)        *)
(***************************************************************************)
Valid(i) == cache[i] # None

CacheCoherent ==
    \A i \in Slots : Valid(i) /\ cache[i].data.card = slot => cache[i].data = disk[cache[i].sector]

(***************************************************************************)
(* Cards are not exchanged behind the client's back: between two           *)
(* acknowledgements (sd_mount) the ARM reads and writes one card only,     *)
(* however often cards were exchanged and however their discovery went.    *)
(***************************************************************************)
NoSilentExchange == \A c, d \in touched : c = d

(***************************************************************************)
(* So the sectors a call reads one by one are all of one card, though the  *)
(* card may be exchanged between any two of them.                          *)
(***************************************************************************)
ReadFromOneCard ==
    reply # None => LET read == Both(got, reply.data)
                    IN \A s, t \in DOMAIN read : read[s].card = read[t].card

(***************************************************************************)
(* A card that can be accessed is the one whose addressing mode and size   *)
(* the driver knows, and the driver says it is inserted: no path through   *)
(* the discovery leaves a card on that it has not come to know.            *)
(***************************************************************************)
ReadyIsKnown == powered => slot # NoCard /\ inserted /\ mode = slot /\ sized = slot

=============================================================================
