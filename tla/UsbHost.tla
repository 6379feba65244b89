------------------------------- MODULE UsbHost -------------------------------
(***************************************************************************)
(* The USB stack of the PowerPC (libhextwelve): the OHCI driver with its   *)
(* one endpoint descriptor, the core with its list of devices, and the     *)
(* keyboard, storage and hub drivers, against two root ports into which    *)
(* devices are plugged and from which they are pulled.                     *)
(*                                                                         *)
(* Two contexts run the same code: the program, and the handler of the     *)
(* root hub's interrupt, which enumerates devices.  A context has a job, a *)
(* sequence of items still to be done; a transfer is an item that becomes  *)
(* a queue of transfer descriptors (TDs), one step for each, because the   *)
(* handler may come between any two of them.                               *)
(***************************************************************************)
EXTENDS Naturals, Sequences, SequencesExt, FiniteSets

CONSTANTS
    Kinds,       \* of what is plugged in, of {"keyboard", "disk", "hub"}
    MainOps,     \* what the program does, of {"keys", "sector"}
    AddressMod,  \* values of core.nextaddress, a u8
    MaxMishaps, MaxReports, MaxOps,   \* bounds
    None

ASSUME UsbAssumption ==
    /\ Kinds \subseteq {"keyboard", "disk", "hub"}
    /\ MainOps \subseteq {"keys", "sector"}
    /\ AddressMod \in Nat \ {0, 1}
    /\ MaxMishaps \in Nat /\ MaxReports \in Nat /\ MaxOps \in Nat
    /\ None \notin Nat \cup {"keyboard", "disk", "hub", "device", "config", "address", "idle", "reset"}

Ports == {1, 2}
Contexts == {"main", "irq"}
Drivers == <<"hidkb", "storage", "hub">>
Devices == 1 .. MaxMishaps + 2   \* structs, one allocated for each enumeration
Bad == MaxMishaps + 3            \* (void *) -1 in place of a struct usb_device

VARIABLES
    port,        \* the root ports, and the device in each
    rhsc,        \* RootHubStatusChange is pending
    ed,          \* edhead with its TDs, or None
    running,     \* the controller's list that holds it is enabled
    halted,      \* OHCI_ENDPOINT_HALTED
    dev,         \* structs usb_device
    count,       \* how many were allocated
    devices,     \* core.devices
    connected,   \* ohci.c: the struct that was made for each port
    next,        \* core.nextaddress
    drivers,     \* core.drivers: the first so many of Drivers
    data,        \* usb_driver.data of each
    massstorage, \* with massstorage_in_use as its length
    gbuf,        \* None after cleargbuf, then the port its contents came from
    job,         \* what each context has yet to do
    irqOn,       \* interrupts are enabled
    crashed,     \* a wild access or call stopped the PowerPC
    changes, errors, reports, ops,   \* bounded: plugged or pulled, halted, keys, calls
    raced,       \* history: the handler interrupted a transfer of the program
    missed       \* history: ports that changed when the handler was past them

hc == <<port, rhsc, ed, running, halted, changes, errors, reports>>
core == <<dev, count, devices, connected, next, drivers, data, massstorage>>
vars == <<port, rhsc, ed, running, halted, dev, count, devices, connected, next, drivers,
          data, massstorage, gbuf, job, irqOn, crashed, changes, errors, reports, ops,
          raced, missed>>

Idle(c) == job[c] = <<>>
(* The handler runs to its end before the program goes on. *)
Runs(c) == ~Idle(c) /\ ~crashed /\ (c = "main" => Idle("irq"))
Item(c) == Head(job[c])
At(c, op) == Runs(c) /\ Item(c).op = op
Then(c, items) == job' = [job EXCEPT ![c] = items \o Tail(@)]

-----------------------------------------------------------------------------
(* Transfers: an I/O request is split into packets. *)

(* The epSize of an endpoint; control transfers use bMaxPacketSize0.  *)
EpSize(x) == IF x.ep = 0 THEN dev[x.dev].size0 ELSE 64

(* The loop of control and interrupt transfers: packets of the endpoint's *)
(* size and one for the rest.  To address 0 only the first is asked for.   *)
Packets(len, size) ==
    [i \in 1 .. (len + size - 1) \div size |-> IF i * size <= len THEN size ELSE len % size]

Td(x, pid, togl, len) ==
    [addr |-> dev[x.dev].addr, ep |-> x.ep, type |-> x.type, pid |-> pid,
     togl |-> togl % 2, len |-> len, req |-> x.req, arg |-> next]

DataTds(x, togl) ==
    LET all == Packets(x.len, EpSize(x))
        lens == IF x.req = "device" /\ dev[x.dev].addr = 0 THEN SubSeq(all, 1, 1) ELSE all
    IN  [i \in 1 .. Len(lens) |-> Td(x, "IN", togl + i - 1, lens[i])]

ControlTds(x) ==
    <<Td(x, "SETUP", 0, 8)>>
        \o (IF x.dir = "in" THEN DataTds(x, 1) ELSE <<>>)
        \o <<Td(x, IF x.dir = "in" THEN "OUT" ELSE "IN", 1, 0)>>

(* The loop of bulk transfers ends after a packet only if everything fits in *)
(* it; longer transfers, which no driver here asks for, never end.           *)
BulkTds(x) ==
    <<Td(x, IF x.dir = "in" THEN "IN" ELSE "OUT", dev[x.dev].togl[x.ep], x.len)>>

SubmitIrp(x) ==
    CASE x.type = "control" -> ControlTds(x)
      [] x.type = "bulk" -> BulkTds(x)
      [] x.type = "interrupt" -> DataTds(x, dev[x.dev].togl[x.ep])

Control(d, req, dir, len) ==
    [op |-> "irp", type |-> "control", dev |-> d, ep |-> 0, req |-> req, dir |-> dir, len |-> len]
BulkWrite(d, ep, len) ==
    [op |-> "irp", type |-> "bulk", dev |-> d, ep |-> ep, req |-> None, dir |-> "out", len |-> len]
BulkRead(d, ep, len) ==
    [op |-> "irp", type |-> "bulk", dev |-> d, ep |-> ep, req |-> None, dir |-> "in", len |-> len]
InterruptRead(d, ep, len) ==
    [op |-> "irp", type |-> "interrupt", dev |-> d, ep |-> ep, req |-> None, dir |-> "in", len |-> len]
Step(op, d, p) == [op |-> op, dev |-> d, port |-> p]

Joined(tds) ==
    LET td == Head(tds)
    IN  IF ed = None THEN [addr |-> td.addr, ep |-> td.ep, type |-> td.type, tds |-> tds]
        ELSE [ed EXCEPT !.tds = @ \o tds]

(* Faulty variant: the toggle is not stored, as for interrupt transfers. *)
ToglKept(togl, n) == togl

(* The toggle after n packets. *)
NextTogl(togl, n) == (togl + n) % 2

(* Between two TDs of the program the handler may come. *)
Interruptible(c) == c = "main" /\ irqOn

(* usb_submit_irp: the TDs are worked out with the toggle of the device; that *)
(* of bulk transfers is stored again, that of interrupt transfers is not.     *)
(* What cannot be interrupted is enqueued and fired in one step.              *)
Submit(c) ==
    /\ At(c, "irp")
    /\ LET x == Item(c)
           tds == SubmitIrp(x)
       IN  /\ IF Interruptible(c)
              THEN Then(c, <<[op |-> "queue", tds |-> tds]>>) /\ UNCHANGED <<ed, running>>
              ELSE Then(c, <<[op |-> "poll"]>>) /\ ed' = Joined(tds) /\ running' = TRUE
           /\ dev' = IF x.type = "bulk"
                     THEN [dev EXCEPT ![x.dev].togl[x.ep] = NextTogl(@, Len(tds))]
                     ELSE dev
           /\ gbuf' = IF x.type = "control" THEN None ELSE gbuf
    /\ UNCHANGED <<port, rhsc, halted, changes, errors, reports, count, devices, connected,
                   next, drivers, data, massstorage, irqOn, crashed, ops, raced, missed>>

(* hcdi_enqueue: the first TD makes the endpoint descriptor, with its own *)
(* address and endpoint; whatever is enqueued before it fires joins it.    *)
Enqueue(c) ==
    /\ At(c, "queue") /\ Item(c).tds # <<>>
    /\ ed' = Joined(<<Head(Item(c).tds)>>)
    /\ Then(c, <<[op |-> "queue", tds |-> Tail(Item(c).tds)]>>)
    /\ UNCHANGED <<port, rhsc, running, halted, changes, errors, reports, core, gbuf, irqOn,
                   crashed, ops, raced, missed>>

(* hcdi_fire: the list is handed to the controller, unless it is gone. *)
Fire(c) ==
    /\ At(c, "queue") /\ Item(c).tds = <<>>
    /\ IF ed = None
       THEN Then(c, <<>>) /\ UNCHANGED running
       ELSE Then(c, <<[op |-> "poll"]>>) /\ running' = TRUE
    /\ UNCHANGED <<port, rhsc, ed, halted, changes, errors, reports, core, gbuf, irqOn,
                   crashed, ops, raced, missed>>

(* Faulty variants: edhead stays; only the end of the list is looked at. *)
FireEndsKeeping(c) ==
    /\ At(c, "poll") /\ ed # None
    /\ ed.tds = <<>> \/ halted
    /\ ed' = [ed EXCEPT !.tds = <<>>] /\ running' = FALSE /\ halted' = FALSE
    /\ Then(c, <<>>)
    /\ UNCHANGED <<port, rhsc, changes, errors, reports, core, gbuf, irqOn, crashed, ops,
                   raced, missed>>
FireFinished == ed.tds = <<>>

(* The list is empty, or the endpoint is halted. *)
FireOver == ed.tds = <<>> \/ halted

(* hcdi_fire: polling until the list is empty or halted. *)
FireEnds(c) ==
    /\ At(c, "poll") /\ ed # None
    /\ FireOver
    /\ ed' = None /\ running' = FALSE /\ halted' = FALSE
    /\ Then(c, <<>>)
    /\ UNCHANGED <<port, rhsc, changes, errors, reports, core, gbuf, irqOn, crashed, ops,
                   raced, missed>>

(* The program finds edhead = 0 while it polls: it reads address 0, and leaves *)
(* the loop or does not.                                                        *)
FireEndsWild(c) ==
    /\ At(c, "poll") /\ ed = None
    /\ Then(c, <<>>)
    /\ UNCHANGED <<hc, core, gbuf, irqOn, crashed, ops, raced, missed>>

-----------------------------------------------------------------------------
(* Enumeration. *)

(* Faulty variant: only the first port is looked at. *)
ConfigureFirst(init) == <<[op |-> "port", init |-> init, port |-> 1]>>

ConfigurePorts(init) ==
    <<[op |-> "port", init |-> init, port |-> 1], [op |-> "port", init |-> init, port |-> 2]>>

(* usb_add_device, up to what it does with the answers; descriptors are asked *)
(* for once for each configuration and once more.                             *)
GetConfig(d) ==
    <<Control(d, "config", "in", 8), Control(d, "config", "in", 9),
      Control(d, "config", "in", 34), Step("parse", d, None)>>
AddDevice(d, p) ==
    <<Control(d, "device", "in", 8), Step("check", d, p), Control(d, "address", "out", 0),
      Step("addressed", d, p), Control(d, "device", "in", 8), Step("check", d, p),
      Control(d, "device", "in", 18)>>
        \o GetConfig(d) \o GetConfig(d)
        \o <<Step("list", d, p)>>

NewDevice(p) ==
    [addr |-> 0, size0 |-> IF port[p].dev = "keyboard" THEN 8 ELSE 64, kind |-> None,
     togl |-> [e \in {1, 2} |-> 0], live |-> TRUE]

(* The elements of a list that are in a set: a recursive function, which the *)
(* proofs can expand, in place of SelectSeq, which they cannot.               *)
Filter(list, set) ==
    LET kept[i \in 0 .. Len(list)] ==
            IF i = 0 THEN <<>>
            ELSE IF list[i] \in set THEN Append(kept[i - 1], list[i]) ELSE kept[i - 1]
    IN  kept[Len(list)]

(* list_delete_element: deleting the first element drops the whole list. *)
DeleteElement(list, d) ==
    IF list # <<>> /\ Head(list) = d THEN <<>> ELSE Filter(list, Devices \ {d})

(* Faulty variant: pointers compared in place of what they point to. *)
BoundNever(d) == {}

(* usb_remove_device on what connected[p] holds: the first driver that has it *)
(* lets go of it.                                                             *)
Bound(d) == {i \in 1 .. drivers : data[Drivers[i]] = d}
RemoveDevice(p) ==
    LET d == connected[p]
        drv == Drivers[CHOOSE i \in Bound(d) : \A j \in Bound(d) : i <= j]
        wild == drivers > 0 /\ (devices # <<>> \/ \E i \in 1 .. drivers : data[Drivers[i]] # None)
    IN  /\ connected' = [connected EXCEPT ![p] = None]
        /\ data' = IF d \in Devices /\ Bound(d) # {} THEN [data EXCEPT ![drv] = None] ELSE data
        /\ devices' = DeleteElement(devices, d)
        /\ dev' = IF d \in ToSet(devices) THEN [dev EXCEPT ![d].live = FALSE] ELSE dev
        /\ \/ crashed' = (d \in Devices /\ Bound(d) # {} /\ drv = "hub")
           \/ d = Bad /\ wild /\ crashed' = TRUE

Forget(p) ==
    IF connected[p] = None
    THEN UNCHANGED <<connected, data, devices, dev, crashed>>
    ELSE RemoveDevice(p)

(* setup_port and what configure_ports does with its answer. *)
SetupPort(c) ==
    /\ At(c, "port")
    /\ LET p == Item(c).port
           new == port[p].dev # None /\ (port[p].csc \/ Item(c).init)
       IN  /\ IF new
              THEN /\ port' = [port EXCEPT ![p].csc = FALSE]
                   /\ Then(c, <<Step("enable", None, p)>>)
                   /\ UNCHANGED <<connected, data, devices, dev, crashed>>
              ELSE /\ IF port[p].dev = None THEN Forget(p)
                      ELSE UNCHANGED <<connected, data, devices, dev, crashed>>
                   /\ UNCHANGED port
                   /\ Then(c, <<>>)
    /\ UNCHANGED <<rhsc, ed, running, halted, changes, errors, reports, count, next, drivers,
                   massstorage, gbuf, irqOn, ops, raced, missed>>

(* After 120 ms the port is enabled, if the device is still there, and reset. *)
EnablePort(c) ==
    /\ At(c, "enable")
    /\ LET p == Item(c).port
       IN  IF port[p].dev # None
           THEN /\ port' = [port EXCEPT ![p].pes = TRUE]
                /\ Then(c, <<Step("reset", None, p)>>)
                /\ UNCHANGED <<connected, data, devices, dev, crashed>>
           ELSE /\ Forget(p) /\ Then(c, <<>>) /\ UNCHANGED port
    /\ UNCHANGED <<rhsc, ed, running, halted, changes, errors, reports, count, next, drivers,
                   massstorage, gbuf, irqOn, ops, raced, missed>>

(* The loop that waits for the end of the reset: without a device there is none. *)
PortReset(c) ==
    /\ At(c, "reset")
    /\ LET p == Item(c).port
       IN  /\ port[p].dev # None
           /\ port' = [port EXCEPT ![p].addr = 0, ![p].out = 0, ![p].in = 0,
                                   ![p].phase = "command", ![p].pes = TRUE]
           /\ count' = count + 1
           /\ dev' = [dev EXCEPT ![count + 1] = NewDevice(p)]
           /\ Then(c, AddDevice(count + 1, p))
    /\ UNCHANGED <<rhsc, ed, running, halted, changes, errors, reports, devices, connected,
                   next, drivers, data, massstorage, gbuf, irqOn, crashed, ops, raced, missed>>

(* usb_get_desc_dev_simple: a packet size of 0 is how a failure shows.  Then *)
(* usb_add_device returns -1, which configure_ports takes for a device.      *)
Rest(c) ==
    LET i == CHOOSE j \in 1 .. Len(job[c]) : job[c][j].op = "list"
    IN  SubSeq(job[c], i + 1, Len(job[c]))
Check(c) ==
    /\ At(c, "check")
    /\ IF gbuf # None
       THEN Then(c, <<>>) /\ UNCHANGED connected
       ELSE /\ job' = [job EXCEPT ![c] = Rest(c)]
            /\ connected' = [connected EXCEPT ![Item(c).port] = Bad]
    /\ UNCHANGED <<hc, dev, count, devices, next, drivers, data, massstorage, gbuf, irqOn,
                   crashed, ops, raced, missed>>

(* The answer to SET_ADDRESS is not looked at. *)
Addressed(c) ==
    /\ At(c, "addressed")
    /\ dev' = [dev EXCEPT ![Item(c).dev].addr = next]
    /\ next' = (next + 1) % AddressMod
    /\ Then(c, <<>>)
    /\ UNCHANGED <<hc, count, devices, connected, drivers, data, massstorage, gbuf, irqOn,
                   crashed, ops, raced, missed>>

Parse(c) ==
    /\ At(c, "parse")
    /\ dev' = [dev EXCEPT ![Item(c).dev].kind = IF gbuf = None THEN None ELSE port[gbuf].dev]
    /\ Then(c, <<>>)
    /\ UNCHANGED <<hc, count, devices, connected, next, drivers, data, massstorage, gbuf,
                   irqOn, crashed, ops, raced, missed>>

ListDevice(c) ==
    /\ At(c, "list")
    /\ devices' = Append(devices, Item(c).dev)
    /\ Then(c, [i \in 1 .. drivers |-> [op |-> "probe", drv |-> Drivers[i]]]
                \o <<Step("connect", Item(c).dev, Item(c).port)>>)
    /\ UNCHANGED <<hc, dev, count, connected, next, drivers, data, massstorage, gbuf, irqOn,
                   crashed, ops, raced, missed>>

Connect(c) ==
    /\ At(c, "connect")
    /\ connected' = [connected EXCEPT ![Item(c).port] = Item(c).dev]
    /\ Then(c, <<>>)
    /\ UNCHANGED <<hc, dev, count, devices, next, drivers, data, massstorage, gbuf, irqOn,
                   crashed, ops, raced, missed>>

-----------------------------------------------------------------------------
(* The drivers look at every device of the list whenever one is added. *)

Inquiry == <<BulkWrite(massstorage[1], 2, 31), BulkRead(massstorage[1], 1, 36),
             BulkRead(massstorage[1], 1, 13)>>
Capacity == <<Control(massstorage[1], "reset", "out", 0), BulkWrite(massstorage[1], 2, 31),
              BulkRead(massstorage[1], 1, 8), BulkRead(massstorage[1], 1, 13)>>

(* A keyboard is told to set its idle rate, and remembered: the last one wins. *)
ProbeKeyboard(c) ==
    LET found == Filter(devices, {d \in Devices : dev[d].kind = "keyboard"})
    IN  /\ data' = IF found = <<>> THEN data ELSE [data EXCEPT !["hidkb"] = Last(found)]
        /\ Then(c, [i \in 1 .. Len(found) |-> Control(found[i], "idle", "out", 0)])

(* Storage asks each device for its configuration once more. *)
ProbeStorage(c) ==
    /\ Then(c, [k \in 1 .. 2 * Len(devices) |->
                  IF k % 2 = 1 THEN Control(devices[(k + 1) \div 2], "config", "in", 32)
                  ELSE [op |-> "found", dev |-> devices[k \div 2]]])
    /\ UNCHANGED data

(* usb_open_class finds the first hub. *)
ProbeHub(c) ==
    LET found == Filter(devices, {d \in Devices : dev[d].kind = "hub"})
    IN  /\ data' = IF found = <<>> THEN data ELSE [data EXCEPT !["hub"] = Head(found)]
        /\ Then(c, <<>>)

Probe(c) ==
    /\ At(c, "probe")
    /\ CASE Item(c).drv = "hidkb" -> ProbeKeyboard(c)
         [] Item(c).drv = "storage" -> ProbeStorage(c)
         [] Item(c).drv = "hub" -> ProbeHub(c)
    /\ UNCHANGED <<hc, dev, count, devices, connected, next, drivers, massstorage, gbuf,
                   irqOn, crashed, ops, raced, missed>>

(* A disk that is found is entered again, and the first of them is tried.  The *)
(* third entry is behind the end of the array; nobody looks at it.             *)
Found(c) ==
    /\ At(c, "found")
    /\ IF gbuf # None /\ port[gbuf].dev = "disk"
       THEN /\ massstorage' = Append(massstorage, Item(c).dev)
            /\ Then(c, <<[op |-> "try"]>>)
       ELSE Then(c, <<>>) /\ UNCHANGED massstorage
    /\ UNCHANGED <<hc, dev, count, devices, connected, next, drivers, data, gbuf, irqOn,
                   crashed, ops, raced, missed>>
Try(c) ==
    /\ At(c, "try")
    /\ Then(c, Inquiry \o Capacity)
    /\ UNCHANGED <<hc, core, gbuf, irqOn, crashed, ops, raced, missed>>

-----------------------------------------------------------------------------
(* The program: usb_init, the drivers, then calls; and the interrupt handler. *)

(* usb_register_driver probes at once, with interrupts enabled. *)
Register(c) ==
    /\ At(c, "register")
    /\ drivers' = drivers + 1
    /\ Then(c, <<[op |-> "probe", drv |-> Drivers[drivers + 1]]>>)
    /\ UNCHANGED <<hc, dev, count, devices, connected, next, data, massstorage, gbuf, irqOn,
                   crashed, ops, raced, missed>>

(* The end of hcdi_init: irq_restore. *)
Enable(c) ==
    /\ At(c, "enable irq")
    /\ irqOn' = TRUE
    /\ Then(c, <<>>)
    /\ UNCHANGED <<hc, core, gbuf, crashed, ops, raced, missed>>

GetChars == <<InterruptRead(data["hidkb"], 1, 8)>>
ReadSector == <<BulkWrite(massstorage[1], 2, 31)>>   \* the command and no more

(* The calls of the program, for devices that the drivers have found. *)
Call(op) ==
    /\ Idle("main") /\ Idle("irq") /\ ~crashed
    /\ ops < MaxOps /\ ops' = ops + 1
    /\ \/ /\ op = "keys" /\ data["hidkb"] # None
          /\ job' = [job EXCEPT !["main"] = GetChars]
       \/ /\ op = "sector" /\ massstorage # <<>>
          /\ job' = [job EXCEPT !["main"] = ReadSector]
    /\ UNCHANGED <<hc, core, gbuf, irqOn, crashed, raced, missed>>

(* The program is inside a transfer, or it has begun a command to a disk. *)
Conversing ==
    \/ ~Idle("main") /\ Item("main").op \in {"queue", "poll"}
    \/ \E p \in Ports : port[p].dev = "disk" /\ port[p].phase # "command"

(* hcdi_irq *)
HcdiIrq ==
    /\ rhsc /\ irqOn /\ Idle("irq") /\ ~crashed
    /\ job' = [job EXCEPT !["irq"] = ConfigurePorts(FALSE) \o <<[op |-> "ack"]>>]
    /\ raced' = (raced \/ Conversing) /\ missed' = {}
    /\ UNCHANGED <<hc, core, gbuf, irqOn, crashed, ops>>

(* The status is cleared when both ports have been looked at. *)
Acknowledge(c) ==
    /\ At(c, "ack")
    /\ rhsc' = FALSE
    /\ Then(c, <<>>)
    /\ UNCHANGED <<port, ed, running, halted, changes, errors, reports, core, gbuf, irqOn,
                   crashed, ops, raced, missed>>

Context(c) ==
    \/ Submit(c) \/ Enqueue(c) \/ Fire(c) \/ FireEnds(c)
    \/ SetupPort(c) \/ EnablePort(c) \/ PortReset(c) \/ Check(c) \/ Addressed(c) \/ Parse(c)
    \/ ListDevice(c) \/ Connect(c) \/ Probe(c) \/ Found(c) \/ Try(c)
    \/ Register(c) \/ Enable(c) \/ Acknowledge(c)
Main == \E op \in MainOps : Call(op)

-----------------------------------------------------------------------------
(* The controller and the devices (external). *)

Answering == {p \in Ports : port[p].dev # None /\ port[p].pes /\ port[p].addr = ed.addr}

(* What a device makes of a packet; several that answer to an address do all. *)
NextPhase(phase) == CASE phase = "command" -> "data" [] phase = "data" -> "status"
                      [] phase = "status" -> "command" [] phase = "confused" -> "confused"
Controlled(q, tds) ==
    LET told(req) == {i \in DOMAIN tds : tds[i].type = "control" /\ tds[i].len = 0 /\ tds[i].req = req}
    IN  [q EXCEPT !.addr = IF told("address") = {} THEN @
                           ELSE tds[CHOOSE i \in told("address") : \A j \in told("address") : j <= i].arg,
                  !.phase = IF told("reset") = {} THEN @ ELSE "command"]
Written(q, td) ==
    IF td.togl # q.out THEN q
    ELSE [q EXCEPT !.out = 1 - @, !.phase = IF @ = "command" THEN "data" ELSE "confused"]
Sent(q) ==
    [q EXCEPT !.in = 1 - @, !.report = FALSE,
              !.phase = IF q.dev = "disk" THEN NextPhase(@) ELSE @]
HasData(q) == IF q.dev = "disk" THEN q.phase \in {"data", "status"} ELSE q.report

(* The TDs of a control transfer are retired together.  A packet whose toggle  *)
(* is not the expected one is acknowledged and thrown away, and the TD stays.  *)
(* Without data the device answers NAK, and the TD stays.                      *)
Executes ==
    /\ running /\ ~halted /\ ed # None /\ ed.tds # <<>> /\ Answering # {}
    /\ LET td == Head(ed.tds)
           p == CHOOSE q \in Answering : TRUE
           retire == ed' = [ed EXCEPT !.tds = Tail(@)]
       IN  \/ /\ ed.ep = 0
              /\ ed' = [ed EXCEPT !.tds = <<>>]
              /\ port' = [q \in Ports |-> IF q \in Answering THEN Controlled(port[q], ed.tds) ELSE port[q]]
              /\ gbuf' = IF \E i \in DOMAIN ed.tds : ed.tds[i].type = "control" /\ ed.tds[i].pid = "IN"
                                                      /\ ed.tds[i].len > 0
                         THEN p ELSE gbuf
           \/ /\ ed.ep # 0 /\ td.pid = "OUT" /\ td.type # "control" /\ retire
              /\ port' = [port EXCEPT ![p] = Written(@, td)]
              /\ UNCHANGED gbuf
           \/ /\ ed.ep # 0 /\ td.pid = "IN" /\ td.type # "control" /\ HasData(port[p])
              /\ port' = [port EXCEPT ![p] = Sent(@)]
              /\ IF td.togl = port[p].in THEN retire ELSE UNCHANGED ed
              /\ UNCHANGED gbuf
    /\ UNCHANGED <<rhsc, running, halted, changes, errors, reports, core, job, irqOn, crashed,
                   ops, raced, missed>>

(* Nobody answers, or not as expected, or there is an error on the bus. *)
Halts ==
    /\ running /\ ~halted /\ ed # None /\ ed.tds # <<>>
    /\ halted' = TRUE
    /\ \/ Answering = {} /\ UNCHANGED errors
       \/ ed.ep # 0 /\ Head(ed.tds).type = "control" /\ UNCHANGED errors
       \/ changes + errors < MaxMishaps /\ errors' = errors + 1
    /\ UNCHANGED <<port, rhsc, ed, running, changes, reports, core, gbuf, job, irqOn, crashed,
                   ops, raced, missed>>

(* The handler is past the port already. *)
Past(p) == ~Idle("irq") /\ \A k \in DOMAIN job["irq"] : job["irq"][k].op = "port" => job["irq"][k].port # p
Changed(p) == missed' = IF Past(p) THEN missed \cup {p} ELSE missed

Plug(p, kind) ==
    /\ port[p].dev = None /\ changes + errors < MaxMishaps
    /\ changes' = changes + 1 /\ rhsc' = TRUE
    /\ port' = [port EXCEPT ![p] = [dev |-> kind, csc |-> TRUE, pes |-> FALSE, addr |-> 0,
                                    out |-> 0, in |-> 0, phase |-> "command", report |-> FALSE]]
    /\ Changed(p)
    /\ UNCHANGED <<ed, running, halted, errors, reports, core, gbuf, job, irqOn, crashed,
                   ops, raced>>
Unplug(p) ==
    /\ port[p].dev # None /\ changes + errors < MaxMishaps
    /\ changes' = changes + 1
    /\ port' = [port EXCEPT ![p].dev = None, ![p].csc = TRUE, ![p].pes = FALSE]
    /\ rhsc' = TRUE
    /\ Changed(p)
    /\ UNCHANGED <<ed, running, halted, errors, reports, core, gbuf, job, irqOn,
                   crashed, ops, raced>>
(* A key that is pressed earlier waits in the keyboard. *)
Press(p) ==
    /\ ed # None /\ ed.type = "interrupt"
    /\ port[p].dev = "keyboard" /\ ~port[p].report /\ reports < MaxReports
    /\ reports' = reports + 1
    /\ port' = [port EXCEPT ![p].report = TRUE]
    /\ UNCHANGED <<rhsc, ed, running, halted, changes, errors, core, gbuf, job, irqOn, crashed,
                   ops, raced, missed>>

World == \E p \in Ports : (\E k \in Kinds : Plug(p, k)) \/ Unplug(p) \/ Press(p)

(* What the items of the jobs and the packets are made of. *)
Addresses == 0 .. AddressMod - 1
Requests == {"device", "config", "address", "idle", "reset"}
Irps ==
    {x \in [op : {"irp"}, type : {"control", "bulk", "interrupt"}, dev : Devices, ep : 0 .. 2,
            req : Requests \cup {None}, dir : {"in", "out"}, len : Nat] :
        (x.ep = 0 <=> x.type = "control") /\ (x.req = "device" \/ x.type = "interrupt" => x.len > 0)}
Tds == [addr : Addresses, ep : 0 .. 2, type : {"control", "bulk", "interrupt"},
        pid : {"SETUP", "IN", "OUT"}, togl : {0, 1}, len : Nat, req : Requests \cup {None},
        arg : Addresses]
Items ==
    Irps \cup [op : {"queue"}, tds : Seq(Tds)]
         \cup [op : {"port"}, init : BOOLEAN, port : Ports]
         \cup [op : {"enable", "reset"}, dev : {None}, port : Ports]
         \cup [op : {"check", "addressed", "list", "connect"}, dev : Devices, port : Ports]
         \cup [op : {"parse"}, dev : Devices, port : {None}]
         \cup [op : {"probe"}, drv : ToSet(Drivers)]
         \cup [op : {"found"}, dev : Devices]
         \cup [op : {"poll", "try", "enable irq", "register", "ack"}]

Structs == [addr : Addresses, size0 : {8, 64}, kind : Kinds \cup {None},
            togl : [{1, 2} -> {0, 1}], live : BOOLEAN]
RootPorts == [dev : Kinds \cup {None}, csc : BOOLEAN, pes : BOOLEAN, addr : Addresses,
              out : {0, 1}, in : {0, 1}, phase : {"command", "data", "status", "confused"},
              report : BOOLEAN]
Endpoints == [addr : Addresses, ep : 0 .. 2, type : {"control", "bulk", "interrupt"}, tds : Seq(Tds)]
ASSUME NoEndpoint == None \notin Endpoints

(* The type invariant. *)
TypeOK ==
    /\ port \in [Ports -> RootPorts]
    /\ rhsc \in BOOLEAN /\ running \in BOOLEAN /\ halted \in BOOLEAN
    /\ ed \in Endpoints \cup {None}
    /\ dev \in [Devices -> Structs]
    /\ count \in Nat /\ devices \in Seq(Devices)
    /\ connected \in [Ports -> Devices \cup {Bad, None}]
    /\ next \in Addresses /\ drivers \in 0 .. 3
    /\ data \in [ToSet(Drivers) -> Devices \cup {None}] /\ massstorage \in Seq(Devices)
    /\ gbuf \in Ports \cup {None}
    /\ job \in [Contexts -> Seq(Items)]
    /\ irqOn \in BOOLEAN /\ crashed \in BOOLEAN
    /\ changes \in Nat /\ errors \in Nat /\ reports \in Nat /\ ops \in Nat
    /\ raced \in BOOLEAN /\ missed \subseteq Ports

EmptyPort == [dev |-> None, csc |-> FALSE, pes |-> FALSE, addr |-> 0, out |-> 0, in |-> 0,
              phase |-> "command", report |-> FALSE]
NoDevice == [addr |-> 0, size0 |-> 64, kind |-> None, togl |-> [e \in {1, 2} |-> 0], live |-> FALSE]

(* usb_init, then the initialisation of the drivers *)
Init ==
    /\ \E k \in Kinds \cup {None} :
          port = [p \in Ports |-> IF p = 1 /\ k # None THEN [EmptyPort EXCEPT !.dev = k, !.csc = TRUE]
                                  ELSE EmptyPort]
    /\ rhsc = FALSE
    /\ ed = None /\ running = FALSE /\ halted = FALSE
    /\ dev = [d \in Devices |-> NoDevice] /\ count = 0
    /\ devices = <<>> /\ connected = [p \in Ports |-> None] /\ next = 1
    /\ drivers = 0 /\ data = [d \in ToSet(Drivers) |-> None] /\ massstorage = <<>>
    /\ gbuf = None
    /\ job = [c \in Contexts |-> IF c = "irq" THEN <<>> ELSE ConfigurePorts(TRUE)
                \o <<[op |-> "enable irq"], [op |-> "register"], [op |-> "register"],
                     [op |-> "register"]>>]
    /\ irqOn = FALSE /\ crashed = FALSE
    /\ changes = 0 /\ errors = 0 /\ reports = 0 /\ ops = 0
    /\ raced = FALSE /\ missed = {}

Next ==
    \/ \E c \in Contexts : Context(c) \/ FireEndsWild(c)
    \/ Main \/ HcdiIrq
    \/ Executes \/ Halts
    \/ World

Spec == Init /\ [][Next]_vars

(* The PowerPC and the controller do not both stop while there is work. *)
Working == (\E c \in Contexts : Context(c)) \/ HcdiIrq \/ Executes \/ Halts
FairSpec == Spec /\ WF_vars(Working)

-----------------------------------------------------------------------------
(* The handler waits for the end of a transfer that it has handed over. *)
Appending == ~Idle("irq") /\ Item("irq").op = "poll"

(* A transfer's packets go to the endpoint it was meant for, although there is *)
(* one endpoint descriptor for all (ohci.c, edhead).  Only what the handler    *)
(* appends when it has interrupted the program can go astray, and it is over   *)
(* with that transfer: what the program enqueues of its own afterwards goes to *)
(* the right device again, though half of it may have been taken before.       *)
PacketsToOwner ==
    ed # None =>
        \/ \A i \in 1 .. Len(ed.tds) : ed.tds[i].addr = ed.addr /\ ed.tds[i].ep = ed.ep
        \/ raced /\ Appending

(* The toggles of usb_device and of the disk agree whenever no transfer is   *)
(* under way, whichever the drivers and the program have done before         *)
(* (core.c, epTogl): the next packet is taken, and none is taken twice.      *)
AtRest == ed = None /\ \A c \in Contexts : Idle(c) \/ Item(c).op # "queue"
TogglesAgree ==
    errors = 0 /\ ~raced /\ AtRest =>
        \A p \in Ports : LET d == connected[p] IN
            d \in Devices /\ port[p].dev = "disk" /\ port[p].pes /\ port[p].addr = dev[d].addr
                => dev[d].togl = [e \in {1, 2} |-> IF e = 1 THEN port[p].in ELSE port[p].out]

(* The keyboard that the driver offers the program has not been freed          *)
(* (core.c, usb_remove_device): removal goes through the driver first.         *)
KeyboardAlive == data["hidkb"] # None => dev[data["hidkb"]].live

(* The interrupt handler ends: every one of its transfers is polled without a *)
(* time limit (ohci.c, hcdi_fire).  Exceptions: an error that nobody looks    *)
(* at, a port that is empty while it is reset, and a race.                    *)
Stuck == \/ errors > 0 \/ raced \/ crashed
         \/ ~Idle("irq") /\ Item("irq").op = "reset" /\ port[Item("irq").port].dev = None
HandlerEnds == ~Idle("irq") ~> (Idle("irq") \/ Stuck)

(* A device that is plugged in is looked at, unless it came when the handler *)
(* was already past its port (ohci.c, hcdi_irq acknowledges the interrupt    *)
(* only at its end).                                                         *)
ChangeNoticed ==
    irqOn /\ ~rhsc /\ ~crashed =>
        \A p \in Ports : port[p].csc /\ port[p].dev # None => p \in missed
=============================================================================
