--------------------------- MODULE UsbHostToggles ---------------------------
(***************************************************************************)
(* The toggles of the bulk endpoints, kept in struct usb_device and in the *)
(* disk, agree between transfers.  It takes that nobody else answers to    *)
(* the disk's address, hence who has which address and when: what a job of *)
(* usb_add_device has done so far, which addresses were given, what the    *)
(* TDs say and who answers to them.                                        *)
(***************************************************************************)
EXTENDS UsbHostProofs

-----------------------------------------------------------------------------
(* The job of usb_add_device, step by step.                                *)

(* A sequence of seven elements. *)
LEMMA SeqOfSeven ==
    ASSUME NEW S, NEW a \in S, NEW b \in S, NEW c \in S, NEW d \in S, NEW e \in S, NEW f \in S, NEW g \in S
    PROVE  LET q == <<a, b, c, d, e, f, g>>
           IN  q \in Seq(S) /\ Len(q) = 7 /\ q[1] = a /\ q[2] = b /\ q[3] = c /\ q[4] = d /\ q[5] = e
               /\ q[6] = f /\ q[7] = g
OBVIOUS

(* A sequence of four elements. *)
LEMMA FourOf ==
    ASSUME NEW S, NEW a \in S, NEW b \in S, NEW c \in S, NEW d \in S
    PROVE  LET q == <<a, b, c, d>>
           IN  q \in Seq(S) /\ Len(q) = 4 /\ q[1] = a /\ q[2] = b /\ q[3] = c /\ q[4] = d
OBVIOUS

(* The job of usb_add_device, step by step. *)
LEMMA AddDeviceIs ==
    ASSUME NEW d \in Devices, NEW p \in Ports
    PROVE  LET q == AddDevice(d, p)
           IN  /\ q \in Seq(Items) /\ Len(q) = 16
               /\ q[1] = Control(d, "device", "in", 8) /\ q[2] = Step("check", d, p)
               /\ q[3] = Control(d, "address", "out", 0) /\ q[4] = Step("addressed", d, p)
               /\ q[5] = Control(d, "device", "in", 8) /\ q[6] = Step("check", d, p)
               /\ q[7] = Control(d, "device", "in", 18)
               /\ q[8] = Control(d, "config", "in", 8) /\ q[9] = Control(d, "config", "in", 9)
               /\ q[10] = Control(d, "config", "in", 34) /\ q[11] = Step("parse", d, None)
               /\ q[12] = Control(d, "config", "in", 8) /\ q[13] = Control(d, "config", "in", 9)
               /\ q[14] = Control(d, "config", "in", 34) /\ q[15] = Step("parse", d, None)
               /\ q[16] = Step("list", d, p)
<1> DEFINE x1 == Control(d, "device", "in", 8)
           x2 == Step("check", d, p)
           x3 == Control(d, "address", "out", 0)
           x4 == Step("addressed", d, p)
           x5 == Control(d, "device", "in", 18)
           y1 == Control(d, "config", "in", 8)
           y2 == Control(d, "config", "in", 9)
           y3 == Control(d, "config", "in", 34)
           y4 == Step("parse", d, None)
           z == Step("list", d, p)
           a == <<x1, x2, x3, x4, x1, x2, x5>>
           g == <<y1, y2, y3, y4>>
           e == <<z>>
<1>1. /\ x1 \in Items /\ x3 \in Items /\ x5 \in Items /\ y1 \in Items /\ y2 \in Items /\ y3 \in Items
  BY ControlTyped DEF Requests
<1>2. x2 \in Items /\ x4 \in Items /\ y4 \in Items /\ z \in Items
  BY StepTyped
<1>3. AddDevice(d, p) = ((a \o g) \o g) \o e
  <2>1. g = GetConfig(d)
    BY DEF GetConfig
  <2>2. AddDevice(d, p) = a \o GetConfig(d) \o GetConfig(d) \o e
    BY DEF AddDevice
  <2>3. QED
    BY ONLY <2>1, <2>2
<1> HIDE DEF x1, x2, x3, x4, x5, y1, y2, y3, y4, z
<1>4. a \in Seq(Items) /\ Len(a) = 7 /\ a[1] = x1 /\ a[2] = x2 /\ a[3] = x3 /\ a[4] = x4 /\ a[5] = x1
      /\ a[6] = x2 /\ a[7] = x5
  BY <1>1, <1>2, SeqOfSeven
<1>5. g \in Seq(Items) /\ Len(g) = 4 /\ g[1] = y1 /\ g[2] = y2 /\ g[3] = y3 /\ g[4] = y4
  BY <1>1, <1>2, FourOf
<1>6. e \in Seq(Items) /\ Len(e) = 1 /\ e[1] = z
  BY <1>2, SeqOfOne
<1> HIDE DEF a, g, e
<1> DEFINE ag == a \o g
<1>7. /\ ag \in Seq(Items) /\ Len(ag) = Len(a) + Len(g)
      /\ \A i \in 1 .. Len(a) : ag[i] = a[i]
      /\ \A i \in Len(a) + 1 .. Len(ag) : ag[i] = g[i - Len(a)]
  <2>1. a \in Seq(Items) /\ g \in Seq(Items)
    BY <1>4, <1>5
  <2>2. QED
    BY ONLY <2>1, Concat
<1> HIDE DEF ag
<1>8. /\ ag \in Seq(Items) /\ Len(ag) = 11
      /\ ag[1] = x1 /\ ag[2] = x2 /\ ag[3] = x3 /\ ag[4] = x4 /\ ag[5] = x1 /\ ag[6] = x2 /\ ag[7] = x5
      /\ ag[8] = y1 /\ ag[9] = y2 /\ ag[10] = y3 /\ ag[11] = y4
  BY <1>4, <1>5, <1>7
<1> DEFINE agg == ag \o g
<1>9. /\ agg \in Seq(Items) /\ Len(agg) = Len(ag) + Len(g)
      /\ \A i \in 1 .. Len(ag) : agg[i] = ag[i]
      /\ \A i \in Len(ag) + 1 .. Len(agg) : agg[i] = g[i - Len(ag)]
  <2>1. ag \in Seq(Items) /\ g \in Seq(Items)
    BY <1>8, <1>5
  <2>2. QED
    BY ONLY <2>1, Concat
<1> HIDE DEF agg
<1>10. /\ agg \in Seq(Items) /\ Len(agg) = 15
       /\ agg[1] = x1 /\ agg[2] = x2 /\ agg[3] = x3 /\ agg[4] = x4 /\ agg[5] = x1 /\ agg[6] = x2 /\ agg[7] = x5
       /\ agg[8] = y1 /\ agg[9] = y2 /\ agg[10] = y3 /\ agg[11] = y4
       /\ agg[12] = y1 /\ agg[13] = y2 /\ agg[14] = y3 /\ agg[15] = y4
  BY <1>5, <1>8, <1>9
<1> DEFINE q == agg \o e
<1>11. /\ q \in Seq(Items) /\ Len(q) = Len(agg) + Len(e)
       /\ \A i \in 1 .. Len(agg) : q[i] = agg[i]
       /\ \A i \in Len(agg) + 1 .. Len(q) : q[i] = e[i - Len(agg)]
  <2>1. agg \in Seq(Items) /\ e \in Seq(Items)
    BY <1>6, <1>10
  <2>2. QED
    BY ONLY <2>1, Concat
<1> HIDE DEF q
<1>12. /\ q \in Seq(Items) /\ Len(q) = 16
       /\ q[1] = x1 /\ q[2] = x2 /\ q[3] = x3 /\ q[4] = x4 /\ q[5] = x1 /\ q[6] = x2 /\ q[7] = x5
       /\ q[8] = y1 /\ q[9] = y2 /\ q[10] = y3 /\ q[11] = y4
       /\ q[12] = y1 /\ q[13] = y2 /\ q[14] = y3 /\ q[15] = y4 /\ q[16] = z
  BY <1>6, <1>10, <1>11
<1>13. AddDevice(d, p) = q
  BY <1>3 DEF q, agg, ag
<1>14. QED
  BY <1>12, <1>13 DEF x1, x2, x3, x4, x5, y1, y2, y3, y4, z

(* The same by operations: what is asked of the device and when. *)
Asks == {1, 3, 5, 7, 8, 9, 10, 12, 13, 14}

(* The steps that ask the device, and those that look at an answer. *)
LEMMA AddOps ==
    ASSUME NEW d \in Devices, NEW p \in Ports, NEW k \in 1 .. 16
    PROVE  LET x == AddDevice(d, p)[k]
           IN  /\ x \in Items
               /\ k \in Asks => /\ x.op = "irp" /\ x \in Irps /\ x.dev = d /\ x.type = "control" /\ x.ep = 0
                                /\ x.req = "address" <=> k = 3
                                /\ k = 1 => x.req = "device" /\ x.dir = "in" /\ x.len = 8
                                /\ k = 3 => x.dir = "out" /\ x.len = 0
               /\ k \in {2, 6} => x = Step("check", d, p)
               /\ k = 4 => x = Step("addressed", d, p)
               /\ k \in {11, 15} => x = Step("parse", d, None)
               /\ k = 16 => x = Step("list", d, p)
               /\ k \in Asks \cup {2, 4, 6, 11, 15, 16}
<1> DEFINE q == AddDevice(d, p)
<1>1. /\ q \in Seq(Items) /\ Len(q) = 16
      /\ q[1] = Control(d, "device", "in", 8) /\ q[2] = Step("check", d, p)
      /\ q[3] = Control(d, "address", "out", 0) /\ q[4] = Step("addressed", d, p)
      /\ q[5] = Control(d, "device", "in", 8) /\ q[6] = Step("check", d, p)
      /\ q[7] = Control(d, "device", "in", 18)
      /\ q[8] = Control(d, "config", "in", 8) /\ q[9] = Control(d, "config", "in", 9)
      /\ q[10] = Control(d, "config", "in", 34) /\ q[11] = Step("parse", d, None)
      /\ q[12] = Control(d, "config", "in", 8) /\ q[13] = Control(d, "config", "in", 9)
      /\ q[14] = Control(d, "config", "in", 34) /\ q[15] = Step("parse", d, None)
      /\ q[16] = Step("list", d, p)
  BY AddDeviceIs
<1> HIDE DEF q
<1>2. \A req \in Requests, dir \in {"in", "out"}, len \in Nat : (req = "device" => len > 0) =>
         LET x == Control(d, req, dir, len)
         IN  x \in Items /\ x.op = "irp" /\ x \in Irps /\ x.dev = d /\ x.type = "control" /\ x.ep = 0 /\ x.req = req
             /\ x.dir = dir /\ x.len = len
  <2> SUFFICES ASSUME NEW req \in Requests, NEW dir \in {"in", "out"}, NEW len \in Nat, req = "device" => len > 0
               PROVE LET x == Control(d, req, dir, len)
                     IN  x \in Items /\ x.op = "irp" /\ x \in Irps /\ x.dev = d /\ x.type = "control" /\ x.ep = 0 /\ x.req = req
                         /\ x.dir = dir /\ x.len = len
    OBVIOUS
  <2>1. Control(d, req, dir, len) \in Items /\ Control(d, req, dir, len).op = "irp"
    BY ControlTyped
  <2>2. Control(d, req, dir, len) \in Irps
    BY <2>1, ItemTypes
  <2>3. QED
    BY <2>1, <2>2 DEF Control
<1>3. k \in Asks \cup {2, 4, 6, 11, 15, 16} /\ q[k] \in Items
  <2>1. k \in Asks \cup {2, 4, 6, 11, 15, 16}
    BY DEF Asks
  <2>2. q \in Seq(Items) /\ k \in 1 .. Len(q)
    BY <1>1
  <2>3. QED
    BY ONLY <2>1, <2>2
<1>4. CASE k \in Asks
  <2>1. \E req \in {"device", "config", "address"}, dir \in {"in", "out"}, len \in {0, 8, 18, 9, 34} :
           /\ q[k] = Control(d, req, dir, len) /\ (req = "device" => len > 0) /\ (req = "address" <=> k = 3)
           /\ (k = 1 => req = "device" /\ dir = "in" /\ len = 8) /\ (k = 3 => dir = "out" /\ len = 0)
    BY <1>1, <1>4 DEF Asks
  <2>2. QED
    BY <1>2, <1>3, <1>4, <2>1 DEF q, Requests, Asks
<1>5. CASE k \notin Asks
  BY <1>1, <1>3, <1>5 DEF q, Asks
<1>6. QED
  BY <1>4, <1>5

(* A job that is the rest of usb_add_device from step k on, perhaps with *)
(* the transfer of that step under way, and what comes after it.         *)
Adding(q, d, p, k) ==
    /\ Len(q) >= 17 - k
    /\ \A i \in 2 .. 17 - k : q[i] = AddDevice(d, p)[k + i - 1]
    /\ \/ q[1] = AddDevice(d, p)[k]
       \/ q[1].op = "poll" /\ AddDevice(d, p)[k].op = "irp"

(* The items that only usb_add_device makes. *)
Enumerating(x) == \/ x.op \in {"check", "addressed", "parse", "list"}
                  \/ x.op = "irp" /\ x.req \in {"device", "address"}

Within(q, i) == \E d \in Devices, p \in Ports, k \in 1 .. 16 : Adding(q, d, p, k) /\ i <= 17 - k

(* They are all part of one enumeration that has come to some step. *)
Shaped(q) == \A i \in 1 .. Len(q) : Enumerating(q[i]) => Within(q, i)

(* No enumeration. *)
Clean(q) == \A i \in 1 .. Len(q) : ~Enumerating(q[i])

(* What the head of such a job is. *)
LEMMA AddingHead ==
    ASSUME NEW q \in Seq(Items), NEW d \in Devices, NEW p \in Ports, NEW k \in 1 .. 16, Adding(q, d, p, k)
    PROVE  /\ q # <<>> /\ Len(q) \in Nat /\ 17 - k \in 1 .. Len(q)
           /\ (q[1].op = "poll" /\ k \in Asks) \/ (q[1].op # "poll" /\ q[1] = AddDevice(d, p)[k])
<1>1. Len(q) \in Nat /\ Len(q) >= 17 - k
  BY DEF Adding
<1>2. AddDevice(d, p)[k].op # "poll" /\ (AddDevice(d, p)[k].op = "irp" => k \in Asks)
  <2>1. CASE k \in Asks
    BY <2>1, AddOps
  <2>2. CASE k \in {2, 6}
    BY <2>2, AddOps, StepTyped
  <2>3. CASE k = 4
    BY <2>3, AddOps, StepTyped
  <2>4. CASE k \in {11, 15}
    BY <2>4, AddOps, StepTyped
  <2>5. CASE k = 16
    BY <2>5, AddOps, StepTyped
  <2>6. QED
    BY <2>1, <2>2, <2>3, <2>4, <2>5, AddOps
<1>3. 17 - k \in 1 .. Len(q) /\ q # <<>>
  BY <1>1
<1>4. q[1] = AddDevice(d, p)[k] \/ (q[1].op = "poll" /\ AddDevice(d, p)[k].op = "irp")
  BY DEF Adding
<1> DEFINE x == AddDevice(d, p)[k]
<1> HIDE DEF x
<1>5. x.op # "poll" /\ (x.op = "irp" => k \in Asks) /\ (q[1] = x \/ (q[1].op = "poll" /\ x.op = "irp"))
  BY <1>2, <1>4 DEF x
<1>6. (q[1].op = "poll" /\ k \in Asks) \/ (q[1].op # "poll" /\ q[1] = x)
  BY <1>5
<1>7. QED
  BY <1>1, <1>3, <1>6 DEF x

(* The listing of the device comes last. *)
LEMMA AddingList ==
    ASSUME NEW q \in Seq(Items), NEW d \in Devices, NEW p \in Ports, NEW k \in 1 .. 16, Adding(q, d, p, k)
    PROVE  q[17 - k] = Step("list", d, p) /\ 17 - k \in 1 .. Len(q)
<1>1. AddDevice(d, p)[16] = Step("list", d, p) /\ Step("list", d, p).op = "list"
  BY AddOps, StepTyped
<1>2. CASE k = 16
  BY <1>1, <1>2, AddingHead DEF Adding, Asks
<1>3. CASE k # 16
  <2>1. 17 - k \in 2 .. 17 - k /\ k + (17 - k) - 1 = 16
    BY <1>3
  <2>2. q[17 - k] = AddDevice(d, p)[k + (17 - k) - 1]
    BY <2>1 DEF Adding
  <2>3. QED
    BY <1>1, <2>1, <2>2, AddingHead
<1>4. QED
  BY <1>2, <1>3, AddingHead

(* A job lists at most one device. *)
LEMMA OneList ==
    ASSUME NEW q, Ordered(q), Len(q) \in Nat, NEW i \in 1 .. Len(q), NEW j \in 1 .. Len(q),
           q[i].op = "list", q[j].op = "list"
    PROVE  i = j
<1>1. ~(i < j)
  <2> SUFFICES ASSUME i < j PROVE FALSE
    OBVIOUS
  <2>1. i \in 1 .. j - 1
    OBVIOUS
  <2>2. q[i].op \in BeforeList
    BY <2>1 DEF Ordered
  <2>3. QED
    BY <2>2 DEF BeforeList
<1>2. ~(j < i)
  <2> SUFFICES ASSUME j < i PROVE FALSE
    OBVIOUS
  <2>1. j \in 1 .. i - 1
    OBVIOUS
  <2>2. q[j].op \in BeforeList
    BY <2>1 DEF Ordered
  <2>3. QED
    BY <2>2 DEF BeforeList
<1>3. QED
  BY <1>1, <1>2

(* So there is at most one enumeration in a job, at one step. *)
LEMMA AddingUnique ==
    ASSUME NEW q \in Seq(Items), Ordered(q), NEW d \in Devices, NEW p \in Ports, NEW k \in 1 .. 16,
           NEW e \in Devices, NEW r \in Ports, NEW j \in 1 .. 16, Adding(q, d, p, k), Adding(q, e, r, j)
    PROVE  d = e /\ p = r /\ k = j
<1>1. q[17 - k] = Step("list", d, p) /\ 17 - k \in 1 .. Len(q) /\ Len(q) \in Nat
  BY AddingList
<1>2. q[17 - j] = Step("list", e, r) /\ 17 - j \in 1 .. Len(q)
  BY AddingList
<1>3. q[17 - k].op = "list" /\ q[17 - j].op = "list"
  BY <1>1, <1>2, StepTyped
<1>4. 17 - k = 17 - j
  BY <1>1, <1>2, <1>3, OneList
<1>5. k = j
  BY <1>4
<1>6. Step("list", d, p) = Step("list", e, r)
  BY <1>1, <1>2, <1>5
<1>7. QED
  BY <1>5, <1>6, StepTyped

(* What is not a step before the listing is followed by no enumeration. *)
LEMMA CleanAfter ==
    ASSUME NEW q \in Seq(Items), Ordered(q), Shaped(q), q # <<>>, q[1].op \notin BeforeList
    PROVE  /\ \A i \in 2 .. Len(q) : ~Enumerating(q[i])
           /\ q[1].op # "list" => Clean(q)
           /\ \A d \in Devices, p \in Ports, k \in 1 .. 16 :
                 Adding(q, d, p, k) => k = 16 /\ q[1] = Step("list", d, p)
<1>1. ASSUME NEW d \in Devices, NEW p \in Ports, NEW k \in 1 .. 16, Adding(q, d, p, k)
      PROVE  k = 16 /\ q[1] = Step("list", d, p)
  <2>1. q[17 - k] = Step("list", d, p) /\ 17 - k \in 1 .. Len(q) /\ Len(q) \in Nat
    BY <1>1, AddingList
  <2>2. q[17 - k].op = "list"
    BY <2>1, StepTyped
  <2>3. \A j \in 1 .. (17 - k) - 1 : q[j].op \in BeforeList
    BY <2>1, <2>2 DEF Ordered
  <2>4. ~(1 \in 1 .. (17 - k) - 1)
    BY <2>3
  <2>5. QED
    BY <2>1, <2>4
<1>2. ASSUME NEW i \in 1 .. Len(q), Enumerating(q[i]) PROVE i = 1 /\ q[1].op = "list"
  <2>1. PICK d \in Devices, p \in Ports, k \in 1 .. 16 : Adding(q, d, p, k) /\ i <= 17 - k
    BY <1>2 DEF Shaped, Within
  <2>2. k = 16 /\ q[1] = Step("list", d, p)
    BY <1>1, <2>1
  <2>3. QED
    BY <2>1, <2>2, StepTyped
<1>3. Len(q) \in Nat
  OBVIOUS
<1>4. \A i \in 2 .. Len(q) : ~Enumerating(q[i])
  BY <1>2, <1>3
<1>5. q[1].op # "list" => Clean(q)
  BY <1>2 DEF Clean
<1>6. QED
  BY <1>1, <1>4, <1>5

(* Without an enumeration there are none of its items. *)
LEMMA CleanShaped ==
    ASSUME NEW q \in Seq(Items), Clean(q)
    PROVE  Shaped(q) /\ \A d \in Devices, p \in Ports, k \in 1 .. 16 : ~Adding(q, d, p, k)
<1>1. Shaped(q)
  BY DEF Clean, Shaped
<1>2. ASSUME NEW d \in Devices, NEW p \in Ports, NEW k \in 1 .. 16, Adding(q, d, p, k) PROVE FALSE
  <2>1. q[17 - k] = Step("list", d, p) /\ 17 - k \in 1 .. Len(q)
    BY <1>2, AddingList
  <2>2. Enumerating(q[17 - k])
    BY <2>1, StepTyped DEF Enumerating
  <2>3. QED
    BY <2>1, <2>2 DEF Clean
<1>3. QED
  BY <1>1, <1>2

(* And the other way round. *)
LEMMA ShapedClean ==
    ASSUME NEW q \in Seq(Items), Shaped(q),
           \A d \in Devices, p \in Ports, k \in 1 .. 16 : ~Adding(q, d, p, k)
    PROVE  Clean(q)
BY DEF Shaped, Within, Clean

(* When the head is done, the enumeration has come a step further. *)
LEMMA AddingPop ==
    ASSUME NEW q \in Seq(Items), q # <<>>, Ordered(q), NEW r \in Seq(Items), r = Tail(q),
           NEW d \in Devices, NEW p \in Ports, NEW k \in 1 .. 15, Adding(q, d, p, k)
    PROVE  Adding(r, d, p, k + 1)
<1>1. Len(q) \in Nat /\ Len(r) = Len(q) - 1 /\ \A i \in 1 .. Len(r) : r[i] = q[i + 1]
  OBVIOUS
<1>2. Len(q) >= 17 - k /\ \A i \in 2 .. 17 - k : q[i] = AddDevice(d, p)[k + i - 1]
  BY DEF Adding
<1>3. Len(r) >= 17 - (k + 1)
  BY <1>1, <1>2
<1>4. \A i \in 1 .. 17 - (k + 1) : r[i] = AddDevice(d, p)[(k + 1) + i - 1]
  <2> SUFFICES ASSUME NEW i \in 1 .. 17 - (k + 1) PROVE r[i] = AddDevice(d, p)[(k + 1) + i - 1]
    OBVIOUS
  <2>1. i + 1 \in 2 .. 17 - k /\ i \in 1 .. Len(r) /\ k + (i + 1) - 1 = (k + 1) + i - 1
    BY <1>3
  <2>2. r[i] = q[i + 1] /\ q[i + 1] = AddDevice(d, p)[k + (i + 1) - 1]
    BY <1>1, <1>2, <2>1
  <2>3. QED
    BY <2>1, <2>2
<1>5. 1 \in 1 .. 17 - (k + 1) /\ (k + 1) + 1 - 1 = k + 1
  OBVIOUS
<1>6. r[1] = AddDevice(d, p)[k + 1]
  BY <1>4, <1>5
<1>7. \A i \in 2 .. 17 - (k + 1) : r[i] = AddDevice(d, p)[(k + 1) + i - 1]
  <2>1. \A i \in 2 .. 17 - (k + 1) : i \in 1 .. 17 - (k + 1)
    OBVIOUS
  <2>2. QED
    BY ONLY <1>4, <2>1
<1>8. QED
  BY <1>3, <1>6, <1>7 DEF Adding

(* A step of an enumeration is over: the job is one from the next step on. *)
LEMMA ShapedPop ==
    ASSUME NEW q \in Seq(Items), q # <<>>, Ordered(q), Shaped(q), NEW r \in Seq(Items), r = Tail(q)
    PROVE  /\ Shaped(r)
           /\ \A d \in Devices, p \in Ports, k \in 1 .. 16 :
                 Adding(r, d, p, k) => k >= 2 /\ Adding(q, d, p, k - 1)
<1>1. Len(q) \in Nat /\ Len(r) \in Nat /\ Len(r) = Len(q) - 1 /\ \A i \in 1 .. Len(r) : r[i] = q[i + 1]
  OBVIOUS
<1>2. ASSUME NEW i \in 1 .. Len(r), Enumerating(r[i]) PROVE Within(r, i)
  <2>1. i + 1 \in 1 .. Len(q) /\ Enumerating(q[i + 1])
    BY <1>1, <1>2
  <2>2. PICK d \in Devices, p \in Ports, k \in 1 .. 16 : Adding(q, d, p, k) /\ i + 1 <= 17 - k
    BY <2>1 DEF Shaped, Within
  <2>3. k \in 1 .. 15 /\ k + 1 \in 1 .. 16 /\ i <= 17 - (k + 1)
    BY <1>1, <2>2
  <2>4. Adding(r, d, p, k + 1)
    BY <2>2, <2>3, AddingPop
  <2>5. QED
    BY <2>3, <2>4 DEF Within
<1>3. ASSUME NEW d \in Devices, NEW p \in Ports, NEW k \in 1 .. 16, Adding(r, d, p, k)
      PROVE  k >= 2 /\ Adding(q, d, p, k - 1)
  <2>1. r[17 - k] = Step("list", d, p) /\ 17 - k \in 1 .. Len(r)
    BY <1>3, AddingList
  <2>2. (17 - k) + 1 \in 1 .. Len(q) /\ q[(17 - k) + 1] = Step("list", d, p)
    BY <1>1, <2>1
  <2>3. Enumerating(q[(17 - k) + 1])
    BY <2>2, StepTyped DEF Enumerating
  <2>4. PICK e \in Devices, s \in Ports, j \in 1 .. 16 : Adding(q, e, s, j) /\ (17 - k) + 1 <= 17 - j
    BY <2>2, <2>3 DEF Shaped, Within
  <2>5. q[17 - j] = Step("list", e, s) /\ 17 - j \in 1 .. Len(q)
    BY <2>4, AddingList
  <2>6. q[17 - j].op = "list" /\ q[(17 - k) + 1].op = "list"
    BY <2>2, <2>5, StepTyped
  <2>7. 17 - j = (17 - k) + 1
    BY <1>1, <2>2, <2>5, <2>6, OneList
  <2>8. k >= 2 /\ j = k - 1 /\ Step("list", e, s) = Step("list", d, p)
    BY <2>2, <2>5, <2>7
  <2>9. e = d /\ s = p
    BY <2>8, StepTyped
  <2>10. QED
    BY <2>4, <2>8, <2>9
<1>4. QED
  BY <1>2, <1>3 DEF Shaped

(* A transfer that is under way is still the same step. *)
LEMMA ShapedPoll ==
    ASSUME NEW q \in Seq(Items), q # <<>>, Ordered(q), Shaped(q), NEW r \in Seq(Items), Ordered(r),
           Len(r) = Len(q), \A i \in 2 .. Len(q) : r[i] = q[i], q[1].op = "irp", r[1].op = "poll"
    PROVE  /\ Shaped(r)
           /\ \A d \in Devices, p \in Ports, k \in 1 .. 16 : Adding(r, d, p, k) <=> Adding(q, d, p, k)
<1>1. Len(q) \in Nat
  OBVIOUS
<1>2. ASSUME NEW d \in Devices, NEW p \in Ports, NEW k \in 1 .. 16, Adding(q, d, p, k)
      PROVE  Adding(r, d, p, k)
  <2>1. q[1] = AddDevice(d, p)[k]
    BY <1>2, AddingHead
  <2>2. \A i \in 2 .. 17 - k : i \in 2 .. Len(q)
    BY <1>1, <1>2 DEF Adding
  <2>3. QED
    BY <1>2, <2>1, <2>2 DEF Adding
<1>3. ASSUME NEW d \in Devices, NEW p \in Ports, NEW k \in 1 .. 16, Adding(r, d, p, k)
      PROVE  Adding(q, d, p, k)
  <2>1. r[17 - k] = Step("list", d, p) /\ 17 - k \in 1 .. Len(r) /\ r[17 - k].op = "list"
    BY <1>3, AddingList, StepTyped
  <2>2. 17 - k \in 2 .. Len(q)
    BY <1>1, <2>1
  <2>3. q[17 - k] = Step("list", d, p) /\ 17 - k \in 1 .. Len(q) /\ Enumerating(q[17 - k])
    BY <2>1, <2>2 DEF Enumerating
  <2>4. PICK e \in Devices, s \in Ports, j \in 1 .. 16 : Adding(q, e, s, j) /\ 17 - k <= 17 - j
    BY <2>3 DEF Shaped, Within
  <2>5. Adding(r, e, s, j)
    BY <1>2, <2>4
  <2>6. QED
    BY <1>3, <2>4, <2>5, AddingUnique
<1>4. ASSUME NEW i \in 1 .. Len(r), Enumerating(r[i]) PROVE Within(r, i)
  <2>1. i \in 2 .. Len(q) /\ r[i] = q[i]
    BY <1>1, <1>4 DEF Enumerating
  <2>2. PICK d \in Devices, p \in Ports, k \in 1 .. 16 : Adding(q, d, p, k) /\ i <= 17 - k
    BY <1>4, <2>1 DEF Shaped, Within
  <2>3. QED
    BY <1>2, <2>2 DEF Within
<1>5. QED
  BY <1>2, <1>3, <1>4 DEF Shaped

(* usb_add_device begins. *)
LEMMA ShapedStart ==
    ASSUME NEW q \in Seq(Items), q # <<>>, \A i \in 2 .. Len(q) : ~Enumerating(q[i]),
           NEW r \in Seq(Items), Ordered(r), NEW d \in Devices, NEW p \in Ports, r = AddDevice(d, p) \o Tail(q)
    PROVE  /\ Shaped(r) /\ Adding(r, d, p, 1) /\ r[1].op = "irp"
           /\ \A e \in Devices, s \in Ports, k \in 1 .. 16 : Adding(r, e, s, k) => e = d /\ s = p /\ k = 1
<1> DEFINE items == AddDevice(d, p)
<1>1. items \in Seq(Items) /\ Len(items) = 16 /\ items[1].op = "irp"
  BY AddDeviceIs, AddOps DEF Asks
<1>2. r = items \o Tail(q)
  OBVIOUS
<1> HIDE DEF items
<1>3. /\ Len(r) = Len(items) + Len(q) - 1 /\ Len(q) \in Nat /\ Len(q) >= 1
      /\ \A i \in 1 .. Len(items) : r[i] = items[i]
      /\ \A i \in Len(items) + 1 .. Len(r) : r[i] = q[i - Len(items) + 1]
      /\ \A i \in Len(items) + 1 .. Len(r) : i - Len(items) + 1 \in 2 .. Len(q)
  <2>1. items \in Seq(Items) /\ q \in Seq(Items) /\ q # <<>> /\ r = items \o Tail(q)
    BY <1>1, <1>2
  <2>2. Len(q) \in Nat /\ Len(q) >= 1
    OBVIOUS
  <2>3. QED
    BY ONLY <2>1, <2>2, Spliced
<1>4. Adding(r, d, p, 1) /\ r[1].op = "irp"
  <2>1. \A i \in 1 .. 16 : r[i] = items[i]
    BY <1>1, <1>3
  <2>2. Len(r) >= 17 - 1
    BY <1>1, <1>3
  <2>3. \A i \in 2 .. 17 - 1 : i \in 1 .. 16 /\ 1 + i - 1 = i
    OBVIOUS
  <2>4. 1 \in 1 .. 16
    OBVIOUS
  <2>5. \A i \in 2 .. 17 - 1 : r[i] = items[1 + i - 1]
    BY <2>1, <2>3
  <2>6. r[1] = items[1]
    BY <2>1, <2>4
  <2>7. QED
    BY <1>1, <2>2, <2>5, <2>6 DEF Adding, items
<1>5. Shaped(r)
  <2> SUFFICES ASSUME NEW i \in 1 .. Len(r), Enumerating(r[i]) PROVE Within(r, i)
    BY DEF Shaped
  <2>1. ~(i \in Len(items) + 1 .. Len(r))
    BY <1>3
  <2>2. i <= 17 - 1
    BY <1>1, <1>3, <2>1
  <2>3. QED
    BY <1>4, <2>2 DEF Within
<1>6. 1 \in 1 .. 16
  OBVIOUS
<1>7. \A e \in Devices, s \in Ports, k \in 1 .. 16 : Adding(r, e, s, k) => e = d /\ s = p /\ k = 1
  BY <1>4, <1>6, AddingUnique
<1>8. QED
  BY <1>4, <1>5, <1>7

(* Other items in place of the head, and none of an enumeration. *)
LEMMA CleanSplice ==
    ASSUME NEW q \in Seq(Items), q # <<>>, \A i \in 2 .. Len(q) : ~Enumerating(q[i]),
           NEW items \in Seq(Items), Clean(items), NEW r, r = items \o Tail(q)
    PROVE  Clean(r)
<1>1. /\ Len(r) = Len(items) + Len(q) - 1
      /\ \A i \in 1 .. Len(items) : r[i] = items[i]
      /\ \A i \in Len(items) + 1 .. Len(r) : r[i] = q[i - Len(items) + 1]
      /\ \A i \in Len(items) + 1 .. Len(r) : i - Len(items) + 1 \in 2 .. Len(q)
  <2>1. items \in Seq(Items) /\ q \in Seq(Items) /\ q # <<>> /\ r = items \o Tail(q)
    OBVIOUS
  <2>2. QED
    BY ONLY <2>1, Spliced
<1>2. ASSUME NEW i \in 1 .. Len(r) PROVE ~Enumerating(r[i])
  <2>1. CASE i \in 1 .. Len(items)
    BY <1>1, <2>1 DEF Clean
  <2>2. CASE i \in Len(items) + 1 .. Len(r)
    BY <1>1, <2>2
  <2>3. Len(items) \in Nat
    OBVIOUS
  <2>4. QED
    BY <2>1, <2>2, <2>3
<1>3. QED
  BY <1>2 DEF Clean

(* A job whose enumeration is given up has none. *)
LEMMA CleanSuffix ==
    ASSUME NEW q \in Seq(Items), Ordered(q), Shaped(q), NEW n \in 1 .. Len(q), q[n].op = "list",
           NEW r, r = SubSeq(q, n + 1, Len(q))
    PROVE  Clean(r)
<1>1. Len(q) \in Nat /\ Len(r) = Len(q) - n /\ \A i \in 1 .. Len(q) - n : r[i] = q[i + n]
  OBVIOUS
<1>2. ASSUME NEW i \in 1 .. Len(r), Enumerating(r[i]) PROVE FALSE
  <2>1. i + n \in 1 .. Len(q) /\ Enumerating(q[i + n])
    BY <1>1, <1>2
  <2>2. PICK d \in Devices, p \in Ports, k \in 1 .. 16 : Adding(q, d, p, k) /\ i + n <= 17 - k
    BY <2>1 DEF Shaped, Within
  <2>3. q[17 - k] = Step("list", d, p) /\ 17 - k \in 1 .. Len(q)
    BY <2>2, AddingList
  <2>4. q[17 - k].op = "list"
    BY <2>3, StepTyped
  <2>5. 17 - k = n
    BY <1>1, <2>3, <2>4, OneList
  <2>6. QED
    BY <1>1, <2>2, <2>5
<1>3. QED
  BY <1>2 DEF Clean

(* After a failed check nothing of the enumeration is left. *)
LEMMA RestClean ==
    ASSUME TypeOK, Jobs, NEW c \in Contexts, job[c] # <<>>, Item(c).op = "check", Shaped(job[c])
    PROVE  Clean(Rest(c))
<1> DEFINE n == CHOOSE j \in 1 .. Len(job[c]) : job[c][j].op = "list"
<1>1. /\ Item(c) = job[c][1] /\ 1 \in 1 .. Len(job[c]) /\ Ordered(job[c])
      /\ Len(job[c]) \in Nat /\ job[c] \in Seq(Items)
  BY HeadTyped DEF Jobs
<1>2. \E j \in 1 .. Len(job[c]) : job[c][j].op = "list"
  <2>1. \E j \in 1 + 1 .. Len(job[c]) : job[c][j].op = "list"
    <3>1. job[c][1].op = "check"
      BY <1>1
    <3>2. QED
      BY <1>1, <3>1 DEF Ordered
  <2>2. \A j \in 1 + 1 .. Len(job[c]) : j \in 1 .. Len(job[c])
    BY <1>1
  <2>3. QED
    BY <2>1, <2>2
<1>3. n \in 1 .. Len(job[c]) /\ job[c][n].op = "list"
  BY <1>2
<1>4. Rest(c) = SubSeq(job[c], n + 1, Len(job[c]))
  BY DEF Rest
<1> HIDE DEF n
<1>5. QED
  BY <1>1, <1>3, <1>4, CleanSuffix

-----------------------------------------------------------------------------
(* The requests of a job.                                                  *)

(* What the drivers and configure_ports put into a job: no enumeration; *)
(* transfers to disks that were found, of the endpoint that fits their  *)
(* direction; and devices of the list.                                  *)
Makes(c, x) ==
    /\ ~Enumerating(x) /\ x.op \notin {"queue", "poll"}
    /\ x.op = "irp" =>
          \/ x.type = "control"
          \/ x.type = "bulk" /\ x.dev \in ToSet(massstorage) /\ (x.ep = 1 <=> x.dir = "in")
    /\ x.op = "found" => x.dev \in ToSet(devices)
    /\ x.op = "connect" => Item(c).op = "list" /\ x.dev = Item(c).dev
Made(c) == {x \in Items : Makes(c, x)}

(* The actions that neither transfer nor enumerate. *)
Late(c) == \/ SetupPort(c) \/ EnablePort(c) \/ ListDevice(c) \/ Connect(c) \/ Probe(c) \/ Found(c) \/ Try(c)
           \/ Register(c) \/ Enable(c) \/ Acknowledge(c)

(* The items that setup_port and the drivers make, kind by kind. *)
LEMMA MadeSmall ==
    ASSUME NEW c \in Contexts
    PROVE  /\ [op |-> "try"] \in Made(c)
           /\ \A p \in Ports : Step("enable", None, p) \in Made(c) /\ Step("reset", None, p) \in Made(c)
           /\ \A drv \in {"hidkb", "storage", "hub"} : [op |-> "probe", drv |-> drv] \in Made(c)
           /\ \A d \in Devices : d \in ToSet(devices) => [op |-> "found", dev |-> d] \in Made(c)
<1>1. [op |-> "try"] \in Made(c)
  BY SmallItems DEF Made, Makes, Enumerating
<1>2. ASSUME NEW p \in Ports PROVE Step("enable", None, p) \in Made(c) /\ Step("reset", None, p) \in Made(c)
  <2>1. Step("enable", None, p) \in Items /\ Step("reset", None, p) \in Items
        /\ Step("enable", None, p).op = "enable" /\ Step("reset", None, p).op = "reset"
    BY StepTyped
  <2>2. QED
    BY <2>1 DEF Made, Makes, Enumerating
<1>3. ASSUME NEW drv \in {"hidkb", "storage", "hub"} PROVE [op |-> "probe", drv |-> drv] \in Made(c)
  BY SmallItems DEF Made, Makes, Enumerating
<1>4. ASSUME NEW d \in Devices, d \in ToSet(devices) PROVE [op |-> "found", dev |-> d] \in Made(c)
  BY <1>4, SmallItems DEF Made, Makes, Enumerating
<1>5. QED
  BY <1>1, <1>2, <1>3, <1>4

(* usb_control_msg is a request to endpoint 0. *)
LEMMA MadeControl ==
    ASSUME NEW c \in Contexts, NEW d \in Devices, NEW req \in {"config", "idle", "reset"}, NEW dir \in {"in", "out"},
           NEW len \in Nat
    PROVE  Control(d, req, dir, len) \in Made(c)
<1>1. Control(d, req, dir, len) \in Items /\ Control(d, req, dir, len).op = "irp"
  BY ControlTyped DEF Requests
<1>2. Control(d, req, dir, len).req = req /\ Control(d, req, dir, len).type = "control"
  BY DEF Control
<1>3. QED
  BY <1>1, <1>2 DEF Made, Makes, Enumerating

(* usb_bulk_write and usb_bulk_read are requests with a direction. *)
LEMMA MadeBulk ==
    ASSUME NEW c \in Contexts, NEW d \in Devices, d \in ToSet(massstorage), NEW len \in Nat \ {0}
    PROVE  BulkWrite(d, 2, len) \in Made(c) /\ BulkRead(d, 1, len) \in Made(c)
<1>1. /\ BulkWrite(d, 2, len) \in Items /\ BulkWrite(d, 2, len).op = "irp"
      /\ BulkRead(d, 1, len) \in Items /\ BulkRead(d, 1, len).op = "irp"
  BY BulkTyped
<1>2. /\ BulkWrite(d, 2, len).req = None /\ BulkWrite(d, 2, len).type = "bulk" /\ BulkWrite(d, 2, len).dev = d
      /\ BulkWrite(d, 2, len).ep = 2 /\ BulkWrite(d, 2, len).dir = "out"
  BY DEF BulkWrite
<1>3. /\ BulkRead(d, 1, len).req = None /\ BulkRead(d, 1, len).type = "bulk" /\ BulkRead(d, 1, len).dev = d
      /\ BulkRead(d, 1, len).ep = 1 /\ BulkRead(d, 1, len).dir = "in"
  BY DEF BulkRead
<1>4. None \notin {"device", "address"}
  BY UsbAssumption
<1>5. QED
  BY <1>1, <1>2, <1>3, <1>4 DEF Made, Makes, Enumerating

(* What these actions put into the job is of that kind. *)
LEMMA SetupPortItems ==
    ASSUME TypeOK, Jobs, NEW c \in Contexts, SetupPort(c) \/ EnablePort(c)
    PROVE  \E items \in Seq(Made(c)) : Then(c, items)
<1>1. job[c] # <<>> /\ Item(c) \in Items /\ Item(c).port \in Ports
  BY HeadFits, ItemTypes DEF SetupPort, EnablePort, At, Runs, Idle
<1>2. CASE Then(c, <<>>)
  <2>1. <<>> \in Seq(Made(c))
    OBVIOUS
  <2>2. QED
    BY <1>2, <2>1
<1>3. CASE Then(c, <<Step("enable", None, Item(c).port)>>)
  <2> DEFINE x == Step("enable", None, Item(c).port)
  <2>1. x \in Made(c)
    BY <1>1, MadeSmall
  <2>2. <<x>> \in Seq(Made(c))
    BY <2>1, SeqOfOne
  <2>3. QED
    BY <1>3, <2>2
<1>4. CASE Then(c, <<Step("reset", None, Item(c).port)>>)
  <2> DEFINE x == Step("reset", None, Item(c).port)
  <2>1. x \in Made(c)
    BY <1>1, MadeSmall
  <2>2. <<x>> \in Seq(Made(c))
    BY <2>1, SeqOfOne
  <2>3. QED
    BY <1>4, <2>2
<1>5. QED
  BY <1>2, <1>3, <1>4 DEF SetupPort, EnablePort

(* A device that is listed is probed for, and then it is connected. *)
LEMMA ListDeviceItems ==
    ASSUME TypeOK, Jobs, NEW c \in Contexts, ListDevice(c)
    PROVE  \E items \in Seq(Made(c)) : Then(c, items)
<1> DEFINE x == Step("connect", Item(c).dev, Item(c).port)
           a == [i \in 1 .. drivers |-> [op |-> "probe", drv |-> Drivers[i]]]
           b == <<x>>
<1>1. job[c] # <<>> /\ Item(c) \in Items /\ Item(c).op = "list" /\ Item(c).port \in Ports /\ Item(c).dev \in Devices
  BY HeadFits, ItemTypes DEF ListDevice, At, Runs, Idle
<1>2. Then(c, a \o b)
  BY DEF ListDevice
<1>3. x \in Made(c)
  <2>1. x \in Items /\ x.op = "connect" /\ x.dev = Item(c).dev
    BY <1>1, StepTyped
  <2> HIDE DEF x
  <2>2. QED
    BY <1>1, <2>1 DEF Made, Makes, Enumerating
<1> HIDE DEF x
<1>4. b \in Seq(Made(c))
  BY <1>3, SeqOfOne
<1>5. a \in Seq(Made(c))
  <2>1. drivers \in 0 .. 3
    BY DEF TypeOK
  <2>2. \A i \in 1 .. drivers : Drivers[i] \in {"hidkb", "storage", "hub"}
    BY <2>1 DEF Drivers
  <2>3. \A i \in 1 .. drivers : [op |-> "probe", drv |-> Drivers[i]] \in Made(c)
    BY <2>2, MadeSmall
  <2>4. QED
    BY <2>1, <2>3
<1> HIDE DEF a, b
<1>6. a \o b \in Seq(Made(c))
  BY <1>4, <1>5
<1>7. QED
  BY <1>2, <1>6

(* The probes ask the devices of the list. *)
LEMMA ProbeItems ==
    ASSUME TypeOK, Jobs, NEW c \in Contexts, Probe(c)
    PROVE  \E items \in Seq(Made(c)) : Then(c, items)
<1>1. /\ job[c] # <<>> /\ Item(c) \in Items /\ Item(c).op = "probe"
      /\ Item(c).drv \in {"hidkb", "storage", "hub"}
  BY HeadFits, ItemTypes DEF Probe, At, Runs, Idle
<1>2. CASE Item(c).drv = "hidkb"
  <2> DEFINE found == Filter(devices, {d \in Devices : dev[d].kind = "keyboard"})
             items == [i \in 1 .. Len(found) |-> Control(found[i], "idle", "out", 0)]
  <2>1. Then(c, items)
    BY <1>2 DEF Probe, ProbeKeyboard
  <2>2. /\ found \in Seq(Devices) /\ Len(found) \in Nat
        /\ \A i \in 1 .. Len(found) : found[i] \in Devices
    BY FoundIn
  <2> HIDE DEF found
  <2>3. \A i \in 1 .. Len(found) : Control(found[i], "idle", "out", 0) \in Made(c)
    BY <2>2, MadeControl
  <2>4. items \in Seq(Made(c))
    BY <2>2, <2>3
  <2>5. QED
    BY <2>1, <2>4
<1>3. CASE Item(c).drv = "storage"
  <2> DEFINE items == [k \in 1 .. 2 * Len(devices) |->
                  IF k % 2 = 1 THEN Control(devices[(k + 1) \div 2], "config", "in", 32)
                  ELSE [op |-> "found", dev |-> devices[k \div 2]]]
  <2>1. Then(c, items)
    BY <1>3 DEF Probe, ProbeStorage
  <2>2. Len(devices) \in Nat /\ \A i \in 1 .. Len(devices) : devices[i] \in Devices /\ devices[i] \in ToSet(devices)
    BY DEF TypeOK, ToSet
  <2>3. ASSUME NEW k \in 1 .. 2 * Len(devices)
        PROVE  (IF k % 2 = 1 THEN Control(devices[(k + 1) \div 2], "config", "in", 32)
                ELSE [op |-> "found", dev |-> devices[k \div 2]]) \in Made(c)
    <3>1. CASE k % 2 = 1
      <4>1. (k + 1) \div 2 \in 1 .. Len(devices)
        BY <2>2, <3>1
      <4>2. QED
        BY <2>2, <3>1, <4>1, MadeControl
    <3>2. CASE k % 2 # 1
      <4>1. k \div 2 \in 1 .. Len(devices)
        BY <2>2, <3>2
      <4>2. QED
        BY <2>2, <3>2, <4>1, MadeSmall
    <3>3. QED
      BY <3>1, <3>2
  <2>4. items \in Seq(Made(c))
    <3>1. \A k \in 1 .. 2 * Len(devices) : items[k] \in Made(c)
      BY <2>3
    <3>2. items = [k \in 1 .. 2 * Len(devices) |-> items[k]]
      OBVIOUS
    <3> DEFINE n == 2 * Len(devices)
    <3> HIDE DEF items, n
    <3>3. n \in Nat
      BY <2>2 DEF n
    <3>4. items \in [1 .. n -> Made(c)]
      BY <3>1, <3>2 DEF n
    <3>5. QED
      BY <3>3, <3>4
  <2>5. QED
    BY <2>1, <2>4
<1>4. CASE Item(c).drv = "hub"
  <2>1. Then(c, <<>>)
    BY <1>4 DEF Probe, ProbeHub
  <2>2. <<>> \in Seq(Made(c))
    OBVIOUS
  <2>3. QED
    BY <2>1, <2>2
<1>5. QED
  BY <1>1, <1>2, <1>3, <1>4

(* usb_storage_probe talks to the first disk. *)
LEMMA TryItems ==
    ASSUME TypeOK, Jobs, Registers, NEW c \in Contexts, Found(c) \/ Try(c) \/ Register(c)
    PROVE  \E items \in Seq(Made(c)) : Then(c, items)
<1>1. /\ job[c] # <<>> /\ Item(c) \in Items /\ Item(c).op \in {"found", "try", "register"} /\ Fits(c, Item(c))
      /\ Item(c).op = "found" => Item(c).dev \in Devices
  BY HeadFits, ItemTypes DEF Found, Try, Register, At, Runs, Idle
<1>2. CASE Then(c, <<>>)
  <2>1. <<>> \in Seq(Made(c))
    OBVIOUS
  <2>2. QED
    BY <1>2, <2>1
<1>3. CASE Then(c, <<[op |-> "try"]>>)
  <2> DEFINE x == [op |-> "try"]
  <2>1. <<x>> \in Seq(Made(c))
    BY MadeSmall, SeqOfOne
  <2>2. QED
    BY <1>3, <2>1
<1>4. CASE Try(c)
  <2> DEFINE d == massstorage[1]
  <2>1. d \in Devices /\ d \in ToSet(massstorage)
    <3>1. massstorage # <<>> /\ massstorage \in Seq(Devices)
      BY <1>1, <1>4 DEF Fits, FitsAt, TypeOK, Try, At
    <3>2. QED
      BY <3>1 DEF ToSet
  <2> HIDE DEF d
  <2>2. /\ BulkWrite(d, 2, 31) \in Made(c) /\ BulkRead(d, 1, 36) \in Made(c) /\ BulkRead(d, 1, 13) \in Made(c)
        /\ BulkRead(d, 1, 8) \in Made(c) /\ Control(d, "reset", "out", 0) \in Made(c)
    BY <2>1, MadeBulk, MadeControl
  <2>3. Inquiry \in Seq(Made(c))
    BY <2>2 DEF Inquiry, d
  <2>4. Capacity \in Seq(Made(c))
    BY <2>2 DEF Capacity, d
  <2>5. Inquiry \o Capacity \in Seq(Made(c))
    BY <2>3, <2>4
  <2>6. Then(c, Inquiry \o Capacity)
    BY <1>4 DEF Try
  <2>7. QED
    BY <2>5, <2>6
<1>5. CASE Register(c)
  <2> DEFINE x == [op |-> "probe", drv |-> Drivers[drivers + 1]]
  <2>1. Then(c, <<x>>)
    BY <1>5 DEF Register
  <2>2. Drivers[drivers + 1] \in {"hidkb", "storage", "hub"}
    <3>1. drivers + 1 \in 1 .. 3
      <4>1. TypeOK' /\ drivers' = drivers + 1
        BY <1>5, RegisterStep
      <4>2. drivers \in 0 .. 3 /\ drivers' \in 0 .. 3
        BY <4>1 DEF TypeOK
      <4>3. QED
        BY <4>1, <4>2
    <3>2. QED
      BY <3>1 DEF Drivers
  <2>3. x \in Made(c)
    BY <2>2, MadeSmall
  <2>4. <<x>> \in Seq(Made(c))
    BY <2>3, SeqOfOne
  <2>5. QED
    BY <2>1, <2>4
<1>6. QED
  BY <1>2, <1>3, <1>4, <1>5 DEF Found

(* All that is not an enumeration. *)
LEMMA LateItems ==
    ASSUME TypeOK, Jobs, Registers, NEW c \in Contexts, Late(c)
    PROVE  \E items \in Seq(Made(c)) : Then(c, items)
<1>1. CASE Connect(c) \/ Enable(c) \/ Acknowledge(c)
  <2>1. Then(c, <<>>)
    BY <1>1 DEF Connect, Enable, Acknowledge
  <2>2. <<>> \in Seq(Made(c))
    OBVIOUS
  <2>3. QED
    BY <2>1, <2>2
<1>2. QED
  BY <1>1, SetupPortItems, ListDeviceItems, ProbeItems, TryItems DEF Late

-----------------------------------------------------------------------------
(* Which device a context enumerates.                                      *)

(* The enumeration that a context has come to step k of. *)
Adds(c, d, p, k) == Adding(job[c], d, p, k)

(* Both jobs are enumerations that began with the first step, and the *)
(* handler, which nobody interrupts, leaves no TDs to be enqueued.    *)
Shape ==
    /\ \A c \in Contexts : Shaped(job[c])
    /\ \A i \in 1 .. Len(job["irq"]) : job["irq"][i].op # "queue"

(* A step of a context moves its own job on. *)
LEMMA ContextFollows ==
    ASSUME Inv, NEW c \in Contexts, Context(c) \/ FireEndsWild(c)
    PROVE  /\ Runs(c) /\ job[c] # <<>> /\ Follows(job'[c], job[c])
           /\ \A e \in Contexts : e # c => job'[e] = job[e]
<1>1. TypeOK /\ Jobs /\ Registers
  BY DEF Inv
<1>2. Runs(c) /\ job[c] # <<>>
  BY DEF Context, Submit, Enqueue, Fire, FireEnds, FireEndsWild, SetupPort, EnablePort, PortReset, Check,
         Addressed, Parse, ListDevice, Connect, Probe, Found, Try, Register, Enable, Acknowledge, At, Runs, Idle
<1>3. CASE Check(c)
  BY <1>1, <1>2, <1>3, CheckFollows
<1>4. CASE ~Check(c)
  <2>1. CASE Submit(c) \/ Enqueue(c) \/ Fire(c) \/ FireEnds(c) \/ FireEndsWild(c)
    BY <1>1, <1>2, <2>1, SubmitStep, EnqueueStep, FireStep, FireEndsStep, AdvanceFollows
  <2>2. CASE SetupPort(c) \/ EnablePort(c) \/ PortReset(c)
    BY <1>1, <1>2, <2>2, SetupPortStep, EnablePortStep, PortResetStep, AdvanceFollows DEF Inv
  <2>3. CASE Addressed(c) \/ Parse(c) \/ Connect(c) \/ Enable(c) \/ Acknowledge(c)
    <3>1. Then(c, <<>>)
      BY <2>3 DEF Addressed, Parse, Connect, Enable, Acknowledge
    <3>2. QED
      BY <1>1, <1>2, <3>1, AdvanceDone, AdvanceFollows
  <2>4. CASE ListDevice(c) \/ Probe(c) \/ Found(c) \/ Try(c) \/ Register(c)
    BY <1>1, <1>2, <2>4, ListDeviceStep, ProbeStep, FoundStep, TryStep, RegisterStep, AdvanceFollows
  <2>5. QED
    BY <1>4, <2>1, <2>2, <2>3, <2>4 DEF Context
<1>5. QED
  BY <1>3, <1>4

(* The program enumerates only while interrupts are off. *)
LEMMA AddsMasked ==
    ASSUME TypeOK, Jobs, NEW d \in Devices, NEW p \in Ports, NEW k \in 1 .. 16, Adds("main", d, p, k)
    PROVE  ~irqOn
<1>1. job["main"] \in Seq(Items)
  BY DEF TypeOK, Contexts
<1>2. job["main"][17 - k] = Step("list", d, p) /\ 17 - k \in 1 .. Len(job["main"])
  BY <1>1, AddingList DEF Adds
<1>3. Fits("main", job["main"][17 - k])
  BY <1>2 DEF Jobs, Contexts
<1>4. job["main"][17 - k].op = "list"
  BY <1>2, StepTyped
<1> DEFINE x == job["main"][17 - k]
<1>5. Fits("main", x) /\ x.op = "list"
  BY <1>3, <1>4
<1> HIDE DEF x
<1>6. QED
  BY <1>5 DEF Fits, FitsAt

(* One context at most enumerates. *)
LEMMA AddsAlone ==
    ASSUME TypeOK, Jobs, Shape, NEW c \in Contexts, NEW e \in Contexts, e # c,
           Runs(c) \/ \E d \in Devices, p \in Ports, k \in 1 .. 16 : Adds(c, d, p, k)
    PROVE  Clean(job[e])
<1>1. job["main"] \in Seq(Items) /\ job["irq"] \in Seq(Items)
  BY DEF TypeOK, Contexts
<1>2. job["irq"] # <<>> => irqOn
  BY HeadFits DEF Contexts
<1>3. (\E d \in Devices, p \in Ports, k \in 1 .. 16 : Adds(c, d, p, k)) => job[c] # <<>>
  BY <1>1, AddingHead DEF Adds, Contexts
<1>4. CASE c = "irq"
  <2>1. irqOn /\ e = "main"
    BY <1>2, <1>3, <1>4 DEF Contexts, Runs, Idle
  <2>2. \A d \in Devices, p \in Ports, k \in 1 .. 16 : ~Adding(job["main"], d, p, k)
    BY <2>1, AddsMasked DEF Adds
  <2>3. QED
    BY <1>1, <2>1, <2>2, ShapedClean DEF Shape, Contexts
<1>5. CASE c = "main"
  <2>1. e = "irq" /\ job["irq"] = <<>>
    BY <1>2, <1>5, AddsMasked DEF Contexts, Runs, Idle
  <2>2. Len(<<>>) = 0
    OBVIOUS
  <2>3. QED
    BY <2>1, <2>2 DEF Clean
<1>6. QED
  BY <1>4, <1>5 DEF Contexts

(* So there is one enumeration at most. *)
LEMMA AddsUnique ==
    ASSUME TypeOK, Jobs, Shape, NEW c \in Contexts, NEW d \in Devices, NEW p \in Ports, NEW k \in 1 .. 16,
           NEW e \in Contexts, NEW f \in Devices, NEW r \in Ports, NEW j \in 1 .. 16,
           Adds(c, d, p, k), Adds(e, f, r, j)
    PROVE  e = c /\ f = d /\ r = p /\ j = k
<1>1. job[c] \in Seq(Items) /\ job[e] \in Seq(Items) /\ Ordered(job[c])
  BY DEF TypeOK, Jobs
<1>2. e = c
  <2>1. ASSUME e # c PROVE FALSE
    <3>1. Clean(job[e])
      BY <2>1, AddsAlone
    <3>2. QED
      BY <1>1, <3>1, CleanShaped DEF Adds
  <2>2. QED
    BY <2>1
<1>3. QED
  BY <1>1, <1>2, AddingUnique DEF Adds

(* The head of an enumerating job. *)
LEMMA AddsHead ==
    ASSUME TypeOK, NEW c \in Contexts, NEW d \in Devices, NEW p \in Ports, NEW k \in 1 .. 16, Adds(c, d, p, k)
    PROVE  /\ job[c] # <<>> /\ ~Idle(c) /\ Item(c) = job[c][1]
           /\ \/ Item(c).op = "poll" /\ k \in Asks
              \/ Item(c).op # "poll" /\ Item(c) = AddDevice(d, p)[k]
<1>1. job[c] \in Seq(Items)
  BY DEF TypeOK
<1>2. job[c] # <<>>
  BY <1>1, AddingHead DEF Adds
<1>3. Item(c) = job[c][1]
  BY <1>2, HeadTyped
<1>4. QED
  BY <1>1, <1>2, <1>3, AddingHead DEF Adds, Idle

(* The items of usb_add_device's own are steps of an enumeration. *)
LEMMA HeadAdds ==
    ASSUME TypeOK, Jobs, Shape, NEW c \in Contexts, job[c] # <<>>, Enumerating(Item(c))
    PROVE  \E d \in Devices, p \in Ports, k \in 1 .. 16 : Adds(c, d, p, k) /\ Item(c) = AddDevice(d, p)[k]
<1>1. Item(c) = job[c][1] /\ 1 \in 1 .. Len(job[c]) /\ job[c] \in Seq(Items)
  BY HeadTyped
<1>2. Item(c).op # "poll"
  BY DEF Enumerating
<1>3. PICK d \in Devices, p \in Ports, k \in 1 .. 16 : Adding(job[c], d, p, k)
  BY <1>1 DEF Shape, Shaped, Within
<1>4. QED
  BY <1>2, <1>3, AddsHead DEF Adds

(* A step that takes the head away. *)
LEMMA PopShape ==
    ASSUME TypeOK, Jobs, Shape, NEW c \in Contexts, job[c] # <<>>, Then(c, <<>>)
    PROVE  /\ job'[c] = Tail(job[c]) /\ Shaped(job'[c])
           /\ \A d \in Devices, p \in Ports, k \in 1 .. 16 :
                 Adding(job'[c], d, p, k) => k >= 2 /\ Adds(c, d, p, k - 1)
<1> DEFINE q == job[c]
           r == job'[c]
<1>1. <<>> \in Seq(Items)
  OBVIOUS
<1>2. q \in Seq(Items) /\ q # <<>> /\ Ordered(q) /\ Shaped(q) /\ r = <<>> \o Tail(q)
  BY <1>1, JobTyped DEF TypeOK, Jobs, Shape
<1> HIDE DEF q, r
<1>3. r = Tail(q) /\ r \in Seq(Items)
  BY <1>2
<1>4. /\ Shaped(r)
      /\ \A d \in Devices, p \in Ports, k \in 1 .. 16 : Adding(r, d, p, k) => k >= 2 /\ Adding(q, d, p, k - 1)
  BY <1>2, <1>3, ShapedPop
<1>5. QED
  BY <1>3, <1>4 DEF q, r, Adds

(* A step that puts one item in the place of the head. *)
LEMMA OneSplice ==
    ASSUME TypeOK, NEW c \in Contexts, job[c] # <<>>, NEW x \in Items, Then(c, <<x>>)
    PROVE  /\ job'[c] \in Seq(Items) /\ Len(job'[c]) = Len(job[c]) /\ job'[c][1] = x
           /\ \A i \in 2 .. Len(job[c]) : job'[c][i] = job[c][i]
<1> DEFINE items == <<x>>
           q == job[c]
           r == job'[c]
<1>1. items \in Seq(Items) /\ Len(items) = 1 /\ items[1] = x
  BY SeqOfOne
<1>2. Then(c, items)
  OBVIOUS
<1> HIDE DEF items
<1>3. r = items \o Tail(q) /\ q \in Seq(Items) /\ q # <<>>
  BY <1>1, <1>2, JobTyped DEF TypeOK
<1> HIDE DEF q, r
<1>4. /\ r \in Seq(Items) /\ Len(r) = Len(items) + Len(q) - 1 /\ \A i \in 1 .. Len(items) : r[i] = items[i]
      /\ \A i \in Len(items) + 1 .. Len(r) : r[i] = q[i - Len(items) + 1]
  <2>1. items \in Seq(Items) /\ q \in Seq(Items) /\ q # <<>> /\ r = items \o Tail(q)
    BY <1>1, <1>3
  <2>2. QED
    BY ONLY <2>1, Spliced
<1>5. Len(q) \in Nat /\ Len(r) = Len(q)
  BY <1>1, <1>3, <1>4
<1>6. r[1] = x
  BY <1>1, <1>4
<1>7. \A i \in 2 .. Len(q) : r[i] = q[i]
  <2> SUFFICES ASSUME NEW i \in 2 .. Len(q) PROVE r[i] = q[i]
    OBVIOUS
  <2>1. i \in Len(items) + 1 .. Len(r) /\ i - Len(items) + 1 = i
    BY <1>1, <1>5
  <2>2. r[i] = q[i - Len(items) + 1]
    BY <1>4, <2>1
  <2>3. QED
    BY <2>1, <2>2
<1>8. QED
  BY <1>4, <1>5, <1>6, <1>7 DEF q, r

(* What remains of a job in which nothing is enumerated. *)
LEMMA CleanOne ==
    ASSUME TypeOK, NEW c \in Contexts, job[c] # <<>>, NEW x \in Items, Then(c, <<x>>), ~Enumerating(x), Clean(job[c])
    PROVE  Clean(job'[c])
<1>1. /\ job'[c] \in Seq(Items) /\ Len(job'[c]) = Len(job[c]) /\ job'[c][1] = x
      /\ \A i \in 2 .. Len(job[c]) : job'[c][i] = job[c][i]
  BY OneSplice
<1>2. job[c] \in Seq(Items) /\ Len(job[c]) \in Nat
  BY DEF TypeOK
<1>3. \A i \in 1 .. Len(job'[c]) : i = 1 \/ (i \in 2 .. Len(job[c]) /\ i \in 1 .. Len(job[c]))
  BY <1>1, <1>2
<1>4. QED
  BY <1>1, <1>3 DEF Clean

(* The TDs that are still to be enqueued are not those of an enumeration. *)
LEMMA QueueClean ==
    ASSUME TypeOK, Jobs, Shape, NEW c \in Contexts, job[c] # <<>>, Item(c).op = "queue"
    PROVE  Clean(job[c])
<1>1. Item(c) = job[c][1] /\ job[c] \in Seq(Items) /\ Shaped(job[c])
  BY HeadTyped DEF Shape
<1>2. ASSUME NEW d \in Devices, NEW p \in Ports, NEW k \in 1 .. 16, Adding(job[c], d, p, k) PROVE FALSE
  <2>1. "queue" = AddDevice(d, p)[k].op
    BY <1>1, <1>2, AddingHead
  <2>2. AddDevice(d, p)[k].op # "queue"
    <3>1. CASE k \in Asks
      BY <3>1, AddOps
    <3>2. CASE k \in {2, 6}
      BY <3>2, AddOps, StepTyped
    <3>3. CASE k = 4
      BY <3>3, AddOps, StepTyped
    <3>4. CASE k \in {11, 15}
      BY <3>4, AddOps, StepTyped
    <3>5. CASE k = 16
      BY <3>5, AddOps, StepTyped
    <3>6. QED
      BY <3>1, <3>2, <3>3, <3>4, <3>5, AddOps
  <2>3. QED
    BY <2>1, <2>2
<1>3. QED
  BY <1>1, <1>2, ShapedClean

(* usb_submit_irp: an enumeration is at the same step while it polls, and *)
(* only the program's other transfers are enqueued TD by TD.              *)
LEMMA SubmitShape ==
    ASSUME TypeOK, Jobs, Jobs', Shape, NEW c \in Contexts, Submit(c)
    PROVE  /\ Shaped(job'[c]) /\ job'[c] # <<>>
           /\ \A d \in Devices, p \in Ports, k \in 1 .. 16 : Adding(job'[c], d, p, k) <=> Adds(c, d, p, k)
           /\ IF Interruptible(c) THEN Clean(job[c]) /\ job'[c][1] = [op |-> "queue", tds |-> SubmitIrp(Item(c))]
              ELSE job'[c][1].op = "poll"
<1> DEFINE x == Item(c)
           tds == SubmitIrp(x)
<1>1. job[c] # <<>> /\ x \in Items /\ x.op = "irp" /\ x \in Irps /\ x = job[c][1] /\ Runs(c)
  BY HeadFits, HeadTyped, ItemTypes DEF Submit, At, Runs, Idle
<1>2. job[c] \in Seq(Items) /\ Ordered(job[c]) /\ Shaped(job[c]) /\ Ordered(job'[c])
  BY DEF TypeOK, Jobs, Shape
<1>3. CASE Interruptible(c)
  <2> DEFINE y == [op |-> "queue", tds |-> tds]
  <2>1. Then(c, <<y>>)
    BY <1>3 DEF Submit
  <2>2. y \in Items /\ y.op = "queue"
    BY <1>1, SubmitTyped, SmallItems
  <2>3. Clean(job[c])
    <3>1. \A d \in Devices, p \in Ports, k \in 1 .. 16 : ~Adding(job["main"], d, p, k)
      BY <1>3, AddsMasked DEF Adds, Interruptible
    <3>2. QED
      BY <1>2, <1>3, <3>1, ShapedClean DEF Interruptible
  <2> HIDE DEF y
  <2>4. Clean(job'[c]) /\ job'[c] \in Seq(Items) /\ job'[c][1] = y /\ job'[c] # <<>>
    BY <1>1, <2>1, <2>2, <2>3, CleanOne, OneSplice, HeadNext DEF Enumerating
  <2>5. QED
    BY <1>2, <1>3, <2>3, <2>4, CleanShaped DEF Adds, y
<1>4. CASE ~Interruptible(c)
  <2> DEFINE y == [op |-> "poll"]
  <2>1. Then(c, <<y>>)
    BY <1>4 DEF Submit
  <2>2. y \in Items /\ y.op = "poll"
    BY SmallItems
  <2> HIDE DEF y
  <2>3. /\ job'[c] \in Seq(Items) /\ Len(job'[c]) = Len(job[c]) /\ job'[c][1] = y /\ job'[c] # <<>>
        /\ \A i \in 2 .. Len(job[c]) : job'[c][i] = job[c][i]
    BY <1>1, <2>1, <2>2, OneSplice, HeadNext
  <2>4. job[c][1].op = "irp" /\ job'[c][1].op = "poll"
    BY <1>1, <2>2, <2>3
  <2> HIDE DEF x
  <2>5. Shaped(job'[c]) /\ \A d \in Devices, p \in Ports, k \in 1 .. 16 :
                               Adding(job'[c], d, p, k) <=> Adding(job[c], d, p, k)
    BY <1>1, <1>2, <2>3, <2>4, ShapedPoll
  <2>6. QED
    BY <1>4, <2>3, <2>4, <2>5 DEF Adds
<1>5. QED
  BY <1>3, <1>4

(* hcdi_enqueue, and hcdi_fire when it starts. *)
LEMMA QueueShape ==
    ASSUME TypeOK, Jobs, Shape, NEW c \in Contexts, Enqueue(c) \/ Fire(c)
    PROVE  Clean(job[c]) /\ Clean(job'[c]) /\ job'[c] \in Seq(Items)
<1>1. job[c] # <<>> /\ Item(c).op = "queue" /\ Item(c) \in Items /\ job[c] \in Seq(Items)
  BY HeadTyped DEF Enqueue, Fire, At, Runs, Idle
<1>2. Clean(job[c])
  BY <1>1, QueueClean
<1>3. CASE Then(c, <<>>)
  <2>1. job'[c] = Tail(job[c])
    BY <1>1, <1>3, PopShape
  <2>2. Tail(job[c]) \in Seq(Items) /\ \A i \in 1 .. Len(Tail(job[c])) : Tail(job[c])[i] = job[c][i + 1]
                                                                       /\ i + 1 \in 1 .. Len(job[c])
    BY <1>1
  <2>3. QED
    BY <1>2, <2>1, <2>2 DEF Clean
<1>4. ASSUME NEW x \in Items, Then(c, <<x>>), x.op \in {"queue", "poll"} PROVE Clean(job'[c]) /\ job'[c] \in Seq(Items)
  BY <1>1, <1>2, <1>4, CleanOne, OneSplice DEF Enumerating
<1>5. CASE Enqueue(c)
  <2> DEFINE y == [op |-> "queue", tds |-> Tail(Item(c).tds)]
  <2>1. Then(c, <<y>>)
    BY <1>5 DEF Enqueue
  <2>2. Tail(Item(c).tds) \in Seq(Tds)
    BY <1>1, <1>5, ItemTypes DEF Enqueue
  <2>3. y \in Items /\ y.op = "queue"
    BY <2>2, SmallItems
  <2> HIDE DEF y
  <2>4. QED
    BY <1>2, <1>4, <2>1, <2>3
<1>6. CASE Fire(c)
  <2> DEFINE y == [op |-> "poll"]
  <2>1. y \in Items /\ y.op = "poll"
    BY SmallItems
  <2>2. Then(c, <<>>) \/ Then(c, <<y>>)
    BY <1>6 DEF Fire
  <2> HIDE DEF y
  <2>3. QED
    BY <1>2, <1>3, <1>4, <2>1, <2>2
<1>7. QED
  BY <1>5, <1>6

(* The drivers and configure_ports leave no enumeration behind them. *)
LEMMA LateShape ==
    ASSUME TypeOK, Jobs, Registers, Shape, NEW c \in Contexts, Late(c)
    PROVE  /\ job[c] # <<>> /\ Clean(job'[c]) /\ job'[c] \in Seq(Items)
           /\ Item(c).op \notin BeforeList \cup {"reset"}
           /\ ~ListDevice(c) => Clean(job[c])
<1>1. job[c] # <<>> /\ Item(c).op \notin BeforeList \cup {"reset"} /\ (~ListDevice(c) => Item(c).op # "list")
  BY DEF Late, SetupPort, EnablePort, ListDevice, Connect, Probe, Found, Try, Register, Enable, Acknowledge, At, Runs,
         Idle, BeforeList
<1>2. Item(c) = job[c][1] /\ job[c] \in Seq(Items) /\ Shaped(job[c]) /\ Ordered(job[c])
  BY <1>1, HeadTyped DEF Shape, Jobs
<1>3. /\ \A i \in 2 .. Len(job[c]) : ~Enumerating(job[c][i])
      /\ ~ListDevice(c) => Clean(job[c])
  BY <1>1, <1>2, CleanAfter
<1>4. PICK items \in Seq(Made(c)) : Then(c, items)
  BY LateItems
<1>5. Made(c) \subseteq Items /\ \A x \in Made(c) : ~Enumerating(x)
  BY DEF Made, Makes
<1>6. items \in Seq(Items) /\ \A i \in 1 .. Len(items) : items[i] \in Made(c)
  BY <1>4, <1>5
<1>7. Clean(items)
  BY <1>5, <1>6 DEF Clean
<1>8. job'[c] = items \o Tail(job[c]) /\ job' \in [Contexts -> Seq(Items)]
  BY <1>1, <1>4, <1>6, JobTyped
<1>9. Clean(job'[c])
  BY <1>1, <1>2, <1>3, <1>6, <1>7, <1>8, CleanSplice
<1>10. QED
  BY <1>1, <1>3, <1>8, <1>9

(* The early return of usb_add_device. *)
LEMMA CheckShape ==
    ASSUME TypeOK, Jobs, Shape, NEW c \in Contexts, Check(c), gbuf = None
    PROVE  Clean(job'[c])
<1>1. job[c] # <<>> /\ Item(c).op = "check" /\ Shaped(job[c]) /\ job' = [job EXCEPT ![c] = Rest(c)]
  BY DEF Check, At, Runs, Idle, Shape
<1>2. job'[c] = Rest(c)
  BY <1>1 DEF TypeOK
<1>3. QED
  BY <1>1, <1>2, RestClean

(* The end of the port's reset: usb_add_device begins. *)
LEMMA ResetShape ==
    ASSUME TypeOK, Jobs, Jobs', Shape, NEW c \in Contexts, PortReset(c), count + 1 \in Devices
    PROVE  /\ Clean(job[c]) /\ Shaped(job'[c]) /\ job'[c] # <<>> /\ job'[c][1].op = "irp"
           /\ Adding(job'[c], count + 1, Item(c).port, 1)
           /\ \A d \in Devices, p \in Ports, k \in 1 .. 16 :
                 Adding(job'[c], d, p, k) => d = count + 1 /\ p = Item(c).port /\ k = 1
<1> DEFINE p == Item(c).port
           d == count + 1
           items == AddDevice(d, p)
           q == job[c]
           r == job'[c]
<1>1. q # <<>> /\ Item(c).op = "reset" /\ p \in Ports /\ Item(c) = q[1] /\ q \in Seq(Items)
  BY HeadTyped, ItemTypes DEF PortReset, At, Runs, Idle
<1>2. Shaped(q) /\ Ordered(q) /\ Ordered(r)
  BY DEF Shape, Jobs
<1>3. \A i \in 2 .. Len(q) : ~Enumerating(q[i]) /\ Clean(q)
  <2>1. q[1].op \notin BeforeList /\ q[1].op # "list"
    BY <1>1 DEF BeforeList
  <2> HIDE DEF q
  <2>2. QED
    BY <1>1, <1>2, <2>1, CleanAfter
<1>4. Then(c, items)
  BY DEF PortReset
<1>5. items \in Seq(Items)
  BY <1>1, AddDeviceIs
<1> HIDE DEF items
<1>6. r = items \o Tail(q) /\ job' \in [Contexts -> Seq(Items)]
  BY <1>1, <1>4, <1>5, JobTyped
<1>7. Clean(q)
  <2>1. q[1].op \notin BeforeList /\ q[1].op # "list"
    BY <1>1 DEF BeforeList
  <2> HIDE DEF q
  <2>2. QED
    BY <1>1, <1>2, <2>1, CleanAfter
<1>8. r \in Seq(Items)
  BY <1>6
<1> HIDE DEF q, r, p, d
<1>9. r = AddDevice(d, p) \o Tail(q) /\ d \in Devices
  BY <1>6 DEF items, d
<1>10. /\ Shaped(r) /\ Adding(r, d, p, 1) /\ r[1].op = "irp"
       /\ \A e \in Devices, s \in Ports, k \in 1 .. 16 : Adding(r, e, s, k) => e = d /\ s = p /\ k = 1
  BY <1>1, <1>2, <1>3, <1>8, <1>9, ShapedStart
<1>11. r # <<>>
  <2>1. 1 \in 1 .. 16
    OBVIOUS
  <2>2. QED
    BY <1>1, <1>8, <1>9, <1>10, <2>1, AddingHead
<1>12. QED
  BY <1>7, <1>10, <1>11 DEF q, r, d, p

(* Every step of a context keeps the shape of the jobs. *)
LEMMA ShapeContext ==
    ASSUME Inv, Inv', Shape, NEW c \in Contexts, Context(c) \/ FireEndsWild(c)
    PROVE  Shape'
<1>1. TypeOK /\ Jobs /\ Registers /\ TypeOK' /\ Jobs' /\ Counted /\ Alive
  BY DEF Inv
<1>2. /\ Runs(c) /\ job[c] # <<>> /\ Follows(job'[c], job[c])
      /\ \A e \in Contexts : e # c => job'[e] = job[e]
  BY ContextFollows
<1>3. job'[c] \in Seq(Items) /\ Item(c) = job[c][1] /\ Item(c) \in Items
  BY <1>1, <1>2, HeadTyped DEF TypeOK
<1>4. Shaped(job'[c])
  <2>1. CASE Submit(c)
    BY <1>1, <2>1, SubmitShape
  <2>2. CASE Enqueue(c) \/ Fire(c)
    BY <1>1, <2>2, QueueShape, CleanShaped
  <2>3. CASE Then(c, <<>>)
    BY <1>1, <1>2, <2>3, PopShape
  <2>4. CASE Late(c)
    BY <1>1, <2>4, LateShape, CleanShaped
  <2>5. CASE PortReset(c)
    BY <1>1, <2>5, PortResetStep, ResetShape
  <2>6. CASE Check(c) /\ gbuf = None
    BY <1>1, <1>3, <2>6, CheckShape, CleanShaped
  <2>7. QED
    BY <2>1, <2>2, <2>3, <2>4, <2>5, <2>6
       DEF Context, FireEnds, FireEndsWild, Check, Addressed, Parse, Late
<1>5. ASSUME c = "irq", job'[c] # <<>>, job'[c][1].op = "queue" PROVE FALSE
  <2>1. Item(c).op \in {"irp", "queue"}
    BY <1>3, <1>5, <1>2 DEF Follows
  <2>2. Item(c).op # "queue"
    <3>1. 1 \in 1 .. Len(job["irq"])
      BY <1>1, <1>2, <1>5, HeadTyped
    <3>2. QED
      BY <1>3, <1>5, <3>1 DEF Shape
  <2>3. Submit(c)
    BY <2>1, <2>2, <1>1, <1>2 DEF Context, Submit, Enqueue, Fire, FireEnds, FireEndsWild, SetupPort, EnablePort, PortReset, Check,
         Addressed, Parse, ListDevice, Connect, Probe, Found, Try, Register, Enable, Acknowledge, At
  <2>4. job'[c][1].op = "poll"
    BY <1>1, <1>5, <2>3, SubmitShape DEF Interruptible
  <2>5. QED
    BY <1>5, <2>4
<1>6. \A i \in 1 .. Len(job'["irq"]) : job'["irq"][i].op # "queue"
  <2>1. CASE c = "irq"
    <3> SUFFICES ASSUME NEW i \in 1 .. Len(job'["irq"]), job'["irq"][i].op = "queue" PROVE FALSE
      OBVIOUS
    <3>1. Ordered(job'["irq"]) /\ job'["irq"] \in Seq(Items)
      BY <1>1, <1>3, <2>1 DEF Jobs
    <3>2. i = 1
      BY <3>1 DEF Ordered
    <3>3. job'["irq"] # <<>>
      BY <3>1
    <3>4. QED
      BY <1>5, <2>1, <3>2, <3>3
  <2>2. CASE c # "irq"
    BY <1>2, <2>2 DEF Shape, Contexts
  <2>3. QED
    BY <2>1, <2>2
<1>7. \A e \in Contexts : Shaped(job'[e])
  BY <1>2, <1>4 DEF Shape
<1>8. QED
  BY <1>6, <1>7 DEF Shape

(* The job of the handler enumerates nothing yet. *)
LEMMA HandlerClean ==
    ASSUME TypeOK, Jobs, HcdiIrq
    PROVE  /\ Clean(job'["irq"]) /\ job'["irq"] \in Seq(Items) /\ job'["main"] = job["main"]
           /\ \A i \in 1 .. Len(job'["irq"]) : job'["irq"][i].op \in {"port", "ack"}
<1> DEFINE items == ConfigurePorts(FALSE) \o <<[op |-> "ack"]>>
<1>1. job' = [job EXCEPT !["irq"] = items]
  BY HcdiIrqStep
<1>2. /\ items \in Seq(Items) /\ Len(items) = 3
      /\ items[1] = [op |-> "port", init |-> FALSE, port |-> 1]
      /\ items[2] = [op |-> "port", init |-> FALSE, port |-> 2]
      /\ items[3] = [op |-> "ack"]
  BY HandlerJob
<1> HIDE DEF items
<1>3. /\ items \in Seq(Items) /\ Len(items) = 3
      /\ items[1].op = "port" /\ items[2].op = "port" /\ items[3].op = "ack"
  BY ONLY <1>2
<1>4. job'["irq"] = items /\ job'["main"] = job["main"]
  BY <1>1 DEF TypeOK, Contexts
<1>5. \A i \in 1 .. Len(items) : items[i].op \in {"port", "ack"}
  BY <1>3
<1>6. QED
  BY <1>3, <1>4, <1>5 DEF Clean, Enumerating

(* Neither does that of a call of the program. *)
LEMMA CallClean ==
    ASSUME TypeOK, Jobs, NEW op, Call(op)
    PROVE  /\ job'["irq"] = job["irq"] /\ Clean(job'["main"])
           /\ \E x \in Items : /\ x.op = "irp" /\ job'["main"] = <<x>>
                               /\ \/ x = BulkWrite(massstorage[1], 2, 31) /\ massstorage # <<>>
                                  \/ x = InterruptRead(data["hidkb"], 1, 8) /\ data["hidkb"] # None
<1>1. None \notin {"device", "address"}
  BY UsbAssumption
<1> DEFINE good(x) == \/ x = BulkWrite(massstorage[1], 2, 31) /\ massstorage # <<>>
                      \/ x = InterruptRead(data["hidkb"], 1, 8) /\ data["hidkb"] # None
<1>2. \E x \in Items : x.op = "irp" /\ job' = [job EXCEPT !["main"] = <<x>>] /\ good(x)
  <2>1. CASE data["hidkb"] # None /\ job' = [job EXCEPT !["main"] = GetChars]
    <3>1. data["hidkb"] \in Devices
      BY <2>1, DriversAre DEF TypeOK
    <3>2. QED
      BY <2>1, <3>1, CommandItems DEF GetChars
  <2>2. CASE massstorage # <<>> /\ job' = [job EXCEPT !["main"] = ReadSector]
    <3>1. massstorage[1] \in Devices
      BY <2>2 DEF TypeOK
    <3>2. QED
      BY <2>2, <3>1, CommandItems DEF ReadSector
  <2>3. QED
    BY <2>1, <2>2 DEF Call
<1>3. PICK x \in Items : x.op = "irp" /\ job' = [job EXCEPT !["main"] = <<x>>] /\ good(x)
  BY <1>2
<1>4. x.req = None
  BY <1>3 DEF BulkWrite, InterruptRead
<1> DEFINE items == <<x>>
<1>5. items \in Seq(Items) /\ Len(items) = 1 /\ items[1] = x /\ job' = [job EXCEPT !["main"] = items]
  BY <1>3, SeqOfOne
<1> HIDE DEF items, good
<1>6. job'["main"] = items /\ job'["irq"] = job["irq"]
  BY <1>5 DEF TypeOK, Contexts
<1>7. \A i \in 1 .. Len(items) : items[i] = x
  BY <1>5
<1>8. Clean(items)
  BY <1>1, <1>3, <1>4, <1>7 DEF Clean, Enumerating
<1>9. QED
  BY <1>3, <1>6, <1>8 DEF items, good

(* A call and the interrupt start no enumeration; the bus changes no job. *)
LEMMA ShapeElse ==
    ASSUME Inv, Inv', Shape, HcdiIrq \/ Main \/ job' = job
    PROVE  Shape'
<1>1. TypeOK /\ Jobs /\ TypeOK'
  BY DEF Inv
<1>2. CASE HcdiIrq
  BY <1>1, <1>2, HandlerClean, CleanShaped DEF Shape, Contexts
<1>3. CASE Main
  <2>1. job'["main"] \in Seq(Items)
    BY <1>1 DEF TypeOK, Contexts
  <2>2. QED
    BY <1>1, <1>3, <2>1, CallClean, CleanShaped DEF Shape, Contexts, Main
<1>4. CASE job' = job
  BY <1>4 DEF Shape
<1>5. QED
  BY <1>2, <1>3, <1>4

(* Initially hcdi_init has the ports to configure. *)
LEMMA ShapeInit ==
    ASSUME Init
    PROVE  /\ Shape
           /\ \A c \in Contexts : /\ Clean(job[c]) /\ job[c] \in Seq(Items)
                                 /\ \A i \in 1 .. Len(job[c]) : job[c][i].op \in {"port", "enable irq", "register"}
<1> DEFINE items == ConfigurePorts(TRUE) \o <<[op |-> "enable irq"], [op |-> "register"], [op |-> "register"],
                                           [op |-> "register"]>>
<1>1. job["irq"] = <<>> /\ job["main"] = items
  BY DEF Init, Contexts
<1>2. /\ items \in Seq(Items) /\ Len(items) = 6
      /\ items[1] = [op |-> "port", init |-> TRUE, port |-> 1]
      /\ items[2] = [op |-> "port", init |-> TRUE, port |-> 2]
      /\ items[3] = [op |-> "enable irq"]
      /\ \A i \in 4 .. 6 : items[i] = [op |-> "register"]
  BY StartJob
<1> HIDE DEF items
<1>3. /\ items \in Seq(Items) /\ Len(items) = 6
      /\ items[1].op = "port" /\ items[2].op = "port" /\ items[3].op = "enable irq"
      /\ \A i \in 4 .. 6 : items[i].op = "register"
  <2>1. items[1].op = "port" /\ items[2].op = "port" /\ items[3].op = "enable irq"
    <3>1. items[1].op = "port"
      <4>1. items[1] = [op |-> "port", init |-> TRUE, port |-> 1]
        BY <1>2
      <4>2. QED
        BY ONLY <4>1
    <3>2. items[2].op = "port"
      <4>1. items[2] = [op |-> "port", init |-> TRUE, port |-> 2]
        BY <1>2
      <4>2. QED
        BY ONLY <4>1
    <3>3. items[3].op = "enable irq"
      <4>1. items[3] = [op |-> "enable irq"]
        BY <1>2
      <4>2. [op |-> "enable irq"].op = "enable irq"
        OBVIOUS
      <4>3. QED
        BY <4>1, <4>2, Zenon
    <3>4. QED
      BY <3>1, <3>2, <3>3
  <2>2. ASSUME NEW i \in 4 .. 6 PROVE items[i].op = "register"
    <3>1. items[i] = [op |-> "register"]
      BY <1>2
    <3>2. QED
      BY ONLY <3>1
  <2>3. QED
    BY <1>2, <2>1, <2>2
<1>4. \A i \in 1 .. Len(items) : i \in {1, 2, 3} \/ i \in 4 .. 6
  <2>1. \A i \in 1 .. 6 : i \in {1, 2, 3} \/ i \in 4 .. 6
    OBVIOUS
  <2>2. QED
    BY <1>3, <2>1
<1>5. Clean(items)
  BY <1>3, <1>4 DEF Clean, Enumerating
<1>6. Len(<<>>) = 0
  OBVIOUS
<1>7. Shaped(<<>>) /\ Shaped(items)
  <2>1. \A i \in 1 .. Len(<<>>) : FALSE
    BY ONLY <1>6
  <2>2. Shaped(<<>>)
    BY <2>1 DEF Shaped
  <2>3. QED
    BY <1>3, <1>5, <2>2, CleanShaped
<1>8. Shape
  BY <1>1, <1>6, <1>7 DEF Shape, Contexts
<1>9. Clean(<<>>) /\ <<>> \in Seq(Items) /\ \A i \in 1 .. Len(<<>>) : FALSE
  <2>1. \A i \in 1 .. Len(<<>>) : FALSE
    BY ONLY <1>6
  <2>2. QED
    BY <2>1 DEF Clean
<1>10. \A i \in 1 .. Len(items) : items[i].op \in {"port", "enable irq", "register"}
  BY <1>3, <1>4
<1>11. QED
  BY <1>1, <1>3, <1>5, <1>8, <1>9, <1>10 DEF Contexts

(* Whatever happens, a job is an enumeration from some step on, or none. *)
LEMMA ShapeNext == ASSUME Inv, Inv', Shape, [Next]_vars PROVE Shape'
<1>1. CASE \E c \in Contexts : Context(c) \/ FireEndsWild(c)
  BY <1>1, ShapeContext
<1>2. CASE Main \/ HcdiIrq
  BY <1>2, ShapeElse
<1>3. CASE Executes \/ Halts \/ World \/ UNCHANGED vars
  <2>1. job' = job
    BY <1>3 DEF Executes, Halts, World, Plug, Unplug, Press, vars
  <2>2. QED
    BY <2>1, ShapeElse
<1>4. QED
  BY <1>1, <1>2, <1>3 DEF Next

(* The steps that take the head of an enumeration away. *)
Pops(c) == FireEnds(c) \/ FireEndsWild(c) \/ (Check(c) /\ gbuf # None) \/ Addressed(c) \/ Parse(c)

(* Nothing is being enumerated. *)
NoAdds == \A c \in Contexts, d \in Devices, p \in Ports, k \in 1 .. 16 : ~Adds(c, d, p, k)

(* A step of a context that leaves an enumeration in its job has moved it on: *)
(* begun its transfer, finished its step, or started it.                      *)
LEMMA AddsBack ==
    ASSUME Inv, Inv', Shape, NEW c \in Contexts, Context(c) \/ FireEndsWild(c),
           NEW d \in Devices, NEW p \in Ports, NEW k \in 1 .. 16, Adding(job'[c], d, p, k)
    PROVE  \/ Submit(c) /\ Adds(c, d, p, k)
           \/ Pops(c) /\ k >= 2 /\ Adds(c, d, p, k - 1)
           \/ PortReset(c) /\ d = count + 1 /\ p = Item(c).port /\ k = 1 /\ count + 1 \in Devices
<1>1. TypeOK /\ Jobs /\ Registers /\ TypeOK' /\ Jobs' /\ Counted /\ Alive
  BY DEF Inv
<1>2. job[c] # <<>> /\ job'[c] \in Seq(Items)
  BY <1>1, ContextFollows DEF TypeOK
<1>3. CASE Submit(c)
  BY <1>1, <1>3, SubmitShape
<1>4. CASE Pops(c)
  <2>1. Then(c, <<>>)
    BY <1>4 DEF Pops, FireEnds, FireEndsWild, Check, Addressed, Parse
  <2>2. QED
    BY <1>1, <1>2, <1>4, <2>1, PopShape
<1>5. CASE PortReset(c)
  <2>1. count + 1 \in Devices
    BY <1>1, <1>5, PortResetStep
  <2>2. QED
    BY <1>1, <1>5, <2>1, ResetShape
<1>6. CASE Enqueue(c) \/ Fire(c)
  <2>1. Clean(job'[c])
    BY <1>1, <1>6, QueueShape
  <2>2. QED
    BY <1>2, <2>1, CleanShaped
<1>7. CASE Late(c)
  <2>1. Clean(job'[c])
    BY <1>1, <1>7, LateShape
  <2>2. QED
    BY <1>2, <2>1, CleanShaped
<1>8. CASE Check(c) /\ gbuf = None
  <2>1. Clean(job'[c])
    BY <1>1, <1>8, CheckShape
  <2>2. QED
    BY <1>2, <2>1, CleanShaped
<1>9. QED
  BY <1>3, <1>4, <1>5, <1>6, <1>7, <1>8 DEF Context, Late, Pops

(* While a context runs, the other one enumerates nothing. *)
LEMMA AddsRuns ==
    ASSUME TypeOK, Jobs, Shape, NEW c \in Contexts, Runs(c), NEW e \in Contexts,
           NEW d \in Devices, NEW p \in Ports, NEW k \in 1 .. 16, Adds(e, d, p, k)
    PROVE  e = c
<1>1. SUFFICES ASSUME e # c PROVE FALSE
  OBVIOUS
<1>2. Clean(job[e])
  BY <1>1, AddsAlone
<1>3. job[e] \in Seq(Items)
  BY DEF TypeOK
<1>4. QED
  BY <1>2, <1>3, CleanShaped DEF Adds

(* What becomes of an enumeration in the context that takes a step. *)
LEMMA AddsForth ==
    ASSUME Inv, Inv', Shape, NEW c \in Contexts, Context(c) \/ FireEndsWild(c),
           NEW d \in Devices, NEW p \in Ports, NEW k \in 1 .. 16, Adds(c, d, p, k)
    PROVE  \/ Submit(c) /\ Adding(job'[c], d, p, k)
           \/ Pops(c) /\ k <= 15 /\ Adding(job'[c], d, p, k + 1)
           \/ Check(c) /\ gbuf = None
           \/ ListDevice(c) /\ k = 16
<1>1. TypeOK /\ Jobs /\ Registers /\ TypeOK' /\ Jobs' /\ Counted /\ Alive
  BY DEF Inv
<1>2. job[c] # <<>> /\ job'[c] \in Seq(Items) /\ job[c] \in Seq(Items) /\ Ordered(job[c])
  BY <1>1, ContextFollows DEF TypeOK, Jobs
<1>3. CASE Submit(c)
  BY <1>1, <1>3, SubmitShape
<1>4. CASE Pops(c)
  <2>1. Then(c, <<>>)
    BY <1>4 DEF Pops, FireEnds, FireEndsWild, Check, Addressed, Parse
  <2>2. job'[c] = Tail(job[c])
    BY <1>1, <1>2, <2>1, PopShape
  <2>3. k # 16
    <3>1. Item(c).op \in {"poll", "check", "addressed", "parse"}
      BY <1>4 DEF Pops, FireEnds, FireEndsWild, Check, Addressed, Parse, At
    <3>2. k = 16 => Item(c) = Step("list", d, p)
      BY <1>1, AddsHead, AddOps DEF Asks
    <3>3. QED
      BY <3>1, <3>2, StepTyped
  <2>4. k \in 1 .. 15
    BY <2>3
  <2> DEFINE q == job[c]
             r == job'[c]
  <2>5. /\ q \in Seq(Items) /\ q # <<>> /\ Ordered(q) /\ r \in Seq(Items) /\ r = Tail(q)
        /\ Adding(q, d, p, k)
    BY <1>2, <2>2 DEF Adds
  <2> HIDE DEF q, r
  <2>6. Adding(r, d, p, k + 1)
    BY <2>4, <2>5, AddingPop
  <2>7. QED
    BY <1>4, <2>4, <2>6 DEF r
<1>5. ASSUME Clean(job[c]) PROVE FALSE
  BY <1>2, <1>5, CleanShaped DEF Adds
<1>6. CASE PortReset(c)
  <2>1. count + 1 \in Devices
    BY <1>1, <1>6, PortResetStep
  <2>2. QED
    BY <1>1, <1>5, <1>6, <2>1, ResetShape
<1>7. CASE Enqueue(c) \/ Fire(c)
  BY <1>1, <1>5, <1>7, QueueShape
<1>8. CASE Late(c)
  <2>1. ListDevice(c)
    BY <1>1, <1>5, <1>8, LateShape
  <2>2. k = 16
    <3>1. Item(c).op = "list"
      BY <2>1 DEF ListDevice, At
    <3>2. Item(c) = AddDevice(d, p)[k]
      BY <1>1, <3>1, AddsHead
    <3>3. CASE k \in Asks
      BY <3>1, <3>2, <3>3, AddOps
    <3>4. CASE k \in {2, 6}
      BY <3>1, <3>2, <3>4, AddOps, StepTyped
    <3>5. CASE k = 4
      BY <3>1, <3>2, <3>5, AddOps, StepTyped
    <3>6. CASE k \in {11, 15}
      BY <3>1, <3>2, <3>6, AddOps, StepTyped
    <3>7. QED
      BY <3>3, <3>4, <3>5, <3>6, AddOps
  <2>3. QED
    BY <2>1, <2>2
<1>9. QED
  BY <1>3, <1>4, <1>6, <1>7, <1>8 DEF Context, Late, Pops

(* The step that a context has come to, by what it does next. *)
LEMMA AddsAt ==
    ASSUME TypeOK, NEW c \in Contexts, NEW d \in Devices, NEW p \in Ports, NEW k \in 1 .. 16, Adds(c, d, p, k)
    PROVE  /\ Item(c).op = "poll" => k \in Asks
           /\ Item(c).op = "irp" => k \in Asks /\ Item(c) = AddDevice(d, p)[k]
           /\ Item(c).op = "check" => k \in {2, 6}
           /\ Item(c).op = "addressed" => k = 4 /\ Item(c).dev = d
           /\ Item(c).op = "parse" => k \in {11, 15} /\ Item(c).dev = d
           /\ Item(c).op = "list" => k = 16 /\ Item(c).dev = d /\ Item(c).port = p
           /\ Item(c).op \in {"poll", "irp", "check", "addressed", "parse", "list"}
<1>1. CASE Item(c).op = "poll" /\ k \in Asks
  BY <1>1
<1>2. CASE Item(c).op # "poll" /\ Item(c) = AddDevice(d, p)[k]
  <2>1. CASE k \in Asks
    BY <1>2, <2>1, AddOps
  <2>2. CASE k \in {2, 6}
    BY <1>2, <2>2, AddOps, StepTyped
  <2>3. CASE k = 4
    BY <1>2, <2>3, AddOps, StepTyped
  <2>4. CASE k \in {11, 15}
    BY <1>2, <2>4, AddOps, StepTyped
  <2>5. CASE k = 16
    BY <1>2, <2>5, AddOps, StepTyped
  <2>6. QED
    BY <2>1, <2>2, <2>3, <2>4, <2>5, AddOps
<1>3. QED
  BY <1>1, <1>2, AddsHead

(* Neither the handler nor a call of the program begins while something is *)
(* enumerated, nor with an enumeration.                                    *)
LEMMA AddsElse ==
    ASSUME Inv, Inv', Shape, HcdiIrq \/ Main
    PROVE  /\ NoAdds
           /\ \A c \in Contexts, d \in Devices, p \in Ports, k \in 1 .. 16 : ~Adding(job'[c], d, p, k)
<1>1. TypeOK /\ Jobs /\ TypeOK' /\ job'["main"] \in Seq(Items) /\ job'["irq"] \in Seq(Items)
      /\ job["main"] \in Seq(Items) /\ job["irq"] \in Seq(Items)
  BY DEF Inv, TypeOK, Contexts
<1>2. \A d \in Devices, p \in Ports, k \in 1 .. 16 : ~Adding(job["irq"], d, p, k)
  <2>1. job["irq"] = <<>>
    BY DEF HcdiIrq, Main, Call, Idle
  <2>2. \A i \in 1 .. Len(<<>>) : FALSE
    OBVIOUS
  <2>3. Clean(job["irq"])
    BY <2>1, <2>2 DEF Clean
  <2>4. QED
    BY <1>1, <2>3, CleanShaped
<1>3. \A d \in Devices, p \in Ports, k \in 1 .. 16 : ~Adding(job["main"], d, p, k)
  <2>1. CASE HcdiIrq
    BY <1>1, <2>1, AddsMasked DEF HcdiIrq, Adds
  <2>2. CASE Main
    <3>1. job["main"] = <<>>
      BY <2>2 DEF Main, Call, Idle
    <3>2. QED
      BY <1>1, <3>1, AddingHead
  <2>3. QED
    BY <2>1, <2>2
<1>4. \A d \in Devices, p \in Ports, k \in 1 .. 16 : ~Adding(job'["irq"], d, p, k)
  <2>1. CASE HcdiIrq
    <3>1. Clean(job'["irq"])
      BY <1>1, <2>1, HandlerClean
    <3>2. QED
      BY <1>1, <3>1, CleanShaped
  <2>2. CASE Main
    BY <1>1, <1>2, <2>2, CallClean DEF Main
  <2>3. QED
    BY <2>1, <2>2
<1>5. \A d \in Devices, p \in Ports, k \in 1 .. 16 : ~Adding(job'["main"], d, p, k)
  <2>1. CASE HcdiIrq
    BY <1>1, <1>3, <2>1, HandlerClean
  <2>2. CASE Main
    <3>1. Clean(job'["main"])
      BY <1>1, <2>2, CallClean DEF Main
    <3>2. QED
      BY <1>1, <3>1, CleanShaped
  <2>3. QED
    BY <2>1, <2>2
<1>6. QED
  BY <1>2, <1>3, <1>4, <1>5 DEF NoAdds, Adds, Contexts

(* The controller and the world leave the jobs alone. *)
LEMMA WorldSteps == ASSUME Executes \/ Halts \/ World \/ UNCHANGED vars PROVE job' = job
  BY DEF Executes, Halts, World, Plug, Unplug, Press, vars

-----------------------------------------------------------------------------
(* Addresses.                                                              *)

(* A device has an address from its SET_ADDRESS on. *)
Named(d) == dev[d].addr # 0

(* The addresses that were given are different and below the next one, *)
(* and a device gets one address in its enumeration.                   *)
Numbers ==
    /\ next \in 1 .. count + 1
    /\ \A d \in Devices : dev[d].addr < next /\ (Named(d) => d <= count)
    /\ \A d, e \in Devices : dev[d].addr = dev[e].addr /\ Named(d) => d = e
Steps ==
    \A c \in Contexts, d \in Devices, p \in Ports, k \in 1 .. 16 :
        Adds(c, d, p, k) => d <= count /\ (k <= 4 <=> ~Named(d)) /\ (k <= 4 => next <= count)
Names == Numbers /\ Steps

(* As many addresses as there can be enumerations, and the 0. *)
Roomy == AddressMod > MaxMishaps + 2

(* Most steps give no address. *)
LEMMA AddrsSame ==
    ASSUME Inv, [Next]_vars, \A c \in Contexts : ~PortReset(c) /\ ~Addressed(c)
    PROVE  next' = next /\ count' = count /\ \A d \in Devices : dev'[d].addr = dev[d].addr
<1>1. TypeOK /\ Jobs
  BY DEF Inv
<1>2. ASSUME NEW c \in Contexts, Context(c) \/ FireEndsWild(c)
      PROVE  next' = next /\ count' = count /\ \A d \in Devices : dev'[d].addr = dev[d].addr
  <2>1. CASE Submit(c)
    BY <1>1, <2>1, SubmitStep DEF Submit
  <2>2. CASE Enqueue(c) \/ Fire(c) \/ FireEnds(c) \/ FireEndsWild(c) \/ Try(c) \/ Enable(c) \/ Acknowledge(c)
    BY <2>2 DEF Enqueue, Fire, FireEnds, FireEndsWild, Try, Enable, Acknowledge, core
  <2>3. CASE SetupPort(c) \/ EnablePort(c)
    <3>1. next' = next /\ count' = count
      BY <2>3 DEF SetupPort, EnablePort
    <3>2. Item(c).port \in Ports
      BY <1>1, <2>3, HeadTyped, ItemTypes DEF SetupPort, EnablePort, At, Runs, Idle
    <3>3. dev' = dev \/ Forget(Item(c).port)
      BY <2>3 DEF SetupPort, EnablePort
    <3>4. QED
      BY <1>1, <3>1, <3>2, <3>3, ForgetStep
  <2>4. CASE Check(c) \/ ListDevice(c) \/ Connect(c) \/ Probe(c) \/ Found(c) \/ Register(c)
    BY <2>4 DEF Check, ListDevice, Connect, Probe, Found, Register
  <2>5. CASE Parse(c)
    <3>1. next' = next /\ count' = count
          /\ dev' = [dev EXCEPT ![Item(c).dev].kind = IF gbuf = None THEN None ELSE port[gbuf].dev]
      BY <2>5 DEF Parse
    <3>2. dev \in [Devices -> Structs]
      BY <1>1 DEF TypeOK
    <3>3. QED
      BY <3>1, <3>2 DEF Structs
  <2>6. QED
    BY <1>2, <2>1, <2>2, <2>3, <2>4, <2>5 DEF Context
<1>3. CASE Main \/ HcdiIrq
  BY <1>3 DEF Main, Call, HcdiIrq, core
<1>4. CASE Executes \/ Halts \/ World \/ UNCHANGED vars
  BY <1>4 DEF Executes, Halts, World, Plug, Unplug, Press, vars, core
<1>5. QED
  BY <1>2, <1>3, <1>4 DEF Next

(* They leave an enumeration before or after its SET_ADDRESS. *)
LEMMA StepsSame ==
    ASSUME Inv, Inv', Shape, [Next]_vars, \A c \in Contexts : ~PortReset(c) /\ ~Addressed(c),
           NEW c \in Contexts, NEW d \in Devices, NEW p \in Ports, NEW k \in 1 .. 16, Adding(job'[c], d, p, k)
    PROVE  \E j \in 1 .. 16 : Adds(c, d, p, j) /\ (j <= 4 <=> k <= 4)
<1>1. TypeOK /\ Jobs
  BY DEF Inv
<1>2. CASE job' = job
  BY <1>2 DEF Adds
<1>3. CASE Main \/ HcdiIrq
  BY <1>3, AddsElse
<1>4. ASSUME NEW e \in Contexts, Context(e) \/ FireEndsWild(e)
      PROVE  \E j \in 1 .. 16 : Adds(c, d, p, j) /\ (j <= 4 <=> k <= 4)
  <2>1. CASE e # c
    BY <1>4, <2>1, ContextFollows DEF Adds
  <2>2. CASE e = c /\ Submit(c) /\ Adds(c, d, p, k)
    BY <2>2
  <2>3. CASE e = c /\ Pops(c) /\ k >= 2 /\ Adds(c, d, p, k - 1)
    <3>1. k - 1 \in 1 .. 16
      BY <2>3
    <3>2. Item(c).op # "addressed"
      BY <2>3 DEF Pops, FireEnds, FireEndsWild, Check, Parse, At
    <3>3. k - 1 # 4
      <4>1. ASSUME Adds(c, d, p, 4) PROVE Item(c).op = "poll" \/ Item(c).op = "addressed"
        <5>1. 4 \in 1 .. 16 /\ 4 \notin Asks
          BY DEF Asks
        <5>2. Item(c) = AddDevice(d, p)[4]
          BY <1>1, <4>1, <5>1, AddsHead
        <5>3. QED
          BY <5>1, <5>2, AddOps, StepTyped
      <4>2. Adds(c, d, p, 4) => Item(c).op # "poll"
        <5>1. 4 \in 1 .. 16 /\ 4 \notin Asks
          BY DEF Asks
        <5>2. QED
          BY <1>1, <5>1, AddsAt
      <4>3. QED
        BY <2>3, <3>2, <4>1, <4>2
    <3>4. k - 1 <= 4 <=> k <= 4
      BY <3>1, <3>3
    <3>5. QED
      BY <2>3, <3>1, <3>4
  <2>4. QED
    BY <1>4, <2>1, <2>2, <2>3, AddsBack
<1>5. QED
  BY <1>2, <1>3, <1>4, WorldSteps DEF Next

(* So they keep the names. *)
LEMMA NamesSame ==
    ASSUME Inv, Inv', Shape, Names, [Next]_vars, \A c \in Contexts : ~PortReset(c) /\ ~Addressed(c)
    PROVE  Names'
<1>1. next' = next /\ count' = count /\ \A d \in Devices : dev'[d].addr = dev[d].addr
  BY AddrsSame
<1>2. Numbers'
  BY <1>1 DEF Names, Numbers, Named
<1>3. Steps'
  <2> SUFFICES ASSUME NEW c \in Contexts, NEW d \in Devices, NEW p \in Ports, NEW k \in 1 .. 16,
                      Adding(job'[c], d, p, k)
               PROVE  d <= count' /\ (k <= 4 <=> ~Named(d)') /\ (k <= 4 => next' <= count')
    BY DEF Steps, Adds
  <2>1. PICK j \in 1 .. 16 : Adds(c, d, p, j) /\ (j <= 4 <=> k <= 4)
    BY StepsSame
  <2>2. QED
    BY <1>1, <2>1 DEF Names, Steps, Named
<1>4. QED
  BY <1>2, <1>3 DEF Names

(* There are no more enumerations than devices were plugged in. *)
LEMMA CountBound == ASSUME TypeOK, Counted PROVE count <= MaxMishaps + 1
<1> DEFINE a == Pending(1)
           b == Pending(2)
           m == InHand("main")
           i == InHand("irq")
<1>1. a \in Nat /\ b \in Nat /\ m \in Nat /\ i \in Nat
  BY DEF Pending, InHand
<1>2. count \in Nat /\ changes \in Nat /\ changes <= MaxMishaps /\ MaxMishaps \in Nat
      /\ count + a + b + m + i <= 1 + changes
  BY UsbAssumption DEF TypeOK, Counted
<1> HIDE DEF a, b, m, i
<1>3. QED
  BY ONLY <1>1, <1>2

(* A new device has none yet. *)
LEMMA NamesReset ==
    ASSUME Inv, Inv', Shape, Names, NEW c \in Contexts, PortReset(c)
    PROVE  Names'
<1>1. TypeOK /\ Jobs /\ Counted /\ Alive /\ TypeOK'
  BY DEF Inv
<1>2. /\ count + 1 \in Devices /\ count' = count + 1 /\ next' = next
      /\ \A d \in Devices : d # count + 1 => dev'[d] = dev[d]
  BY <1>1, PortResetStep DEF PortReset
<1>3. dev'[count + 1].addr = 0
  <2>1. dev' = [dev EXCEPT ![count + 1] = NewDevice(Item(c).port)]
    BY DEF PortReset
  <2>2. dev'[count + 1] = NewDevice(Item(c).port)
    BY <1>1, <1>2, <2>1 DEF TypeOK
  <2>3. QED
    BY <2>2 DEF NewDevice
<1>4. count \in Nat /\ \A d \in Devices : dev[d].addr \in Nat /\ d \in Nat
  BY <1>1, UsbAssumption DEF TypeOK, Structs, Addresses, Devices
<1>5. Numbers'
  <2>1. next' \in 1 .. count' + 1
    BY <1>2, <1>4 DEF Names, Numbers
  <2>2. \A d \in Devices : dev'[d].addr < next' /\ (dev'[d].addr # 0 => d <= count')
    <3> SUFFICES ASSUME NEW d \in Devices
                 PROVE  dev'[d].addr < next' /\ (dev'[d].addr # 0 => d <= count')
      OBVIOUS
    <3>1. CASE d = count + 1
      BY <1>2, <1>3, <1>4, <2>1, <3>1
    <3>2. CASE d # count + 1
      BY <1>2, <1>4, <3>2 DEF Names, Numbers, Named
    <3>3. QED
      BY <3>1, <3>2
  <2>3. \A d, e \in Devices : dev'[d].addr = dev'[e].addr /\ dev'[d].addr # 0 => d = e
    BY <1>2, <1>3 DEF Names, Numbers, Named
  <2>4. QED
    BY <2>1, <2>2, <2>3 DEF Numbers, Named
<1>6. Steps'
  <2> SUFFICES ASSUME NEW e \in Contexts, NEW d \in Devices, NEW p \in Ports, NEW k \in 1 .. 16,
                      Adding(job'[e], d, p, k)
               PROVE  d <= count' /\ (k <= 4 <=> ~Named(d)') /\ (k <= 4 => next' <= count')
    BY DEF Steps, Adds
  <2>1. Context(c) /\ Runs(c)
    BY DEF Context, PortReset, At
  <2>2. e = c
    BY <1>1, <2>1, ContextFollows, AddsRuns DEF Adds
  <2>3. ~Submit(c) /\ ~Pops(c)
    BY DEF PortReset, Submit, Pops, FireEnds, FireEndsWild, Check, Addressed, Parse, At
  <2>4. d = count + 1 /\ k = 1
    BY <2>1, <2>2, <2>3, AddsBack
  <2>5. QED
    BY <1>2, <1>3, <1>4, <2>4 DEF Names, Numbers, Named
<1>7. QED
  BY <1>5, <1>6 DEF Names

(* The device that is told its address is the only one without a name that *)
(* is enumerated.                                                          *)
LEMMA NamesAddressed ==
    ASSUME Roomy, Inv, Inv', Shape, Names, NEW c \in Contexts, Addressed(c)
    PROVE  /\ Names' /\ next' = next + 1 /\ count' = count
           /\ \E d \in Devices, p \in Ports :
                 /\ Adds(c, d, p, 4) /\ Adding(job'[c], d, p, 5)
                 /\ dev'[d].addr = next /\ \A e \in Devices : e # d => dev'[e] = dev[e]
                 /\ dev'[d].togl = dev[d].togl
<1>1. TypeOK /\ Jobs /\ Counted /\ TypeOK' /\ Jobs'
  BY DEF Inv
<1>2. Item(c).op = "addressed" /\ Runs(c) /\ job[c] # <<>> /\ Context(c)
  BY DEF Addressed, At, Runs, Idle, Context
<1>3. PICK d \in Devices, p \in Ports, k \in 1 .. 16 : Adds(c, d, p, k)
  BY <1>1, <1>2, HeadAdds DEF Enumerating
<1>4. k = 4 /\ Item(c).dev = d
  BY <1>1, <1>2, <1>3, AddsAt
<1>5. Adding(job'[c], d, p, 5)
  <2>1. ~Submit(c) /\ ~Check(c) /\ ~ListDevice(c)
    BY <1>2 DEF Submit, Check, ListDevice, At
  <2>2. 4 + 1 = 5
    OBVIOUS
  <2>3. QED
    BY <1>2, <1>3, <1>4, <2>1, <2>2, AddsForth
<1>6. dev' = [dev EXCEPT ![d].addr = next] /\ next' = (next + 1) % AddressMod /\ count' = count
  BY <1>4 DEF Addressed
<1>7. dev'[d].addr = next /\ dev'[d].togl = dev[d].togl /\ \A e \in Devices : e # d => dev'[e] = dev[e]
  <2>1. dev \in [Devices -> Structs]
    BY <1>1 DEF TypeOK
  <2>2. QED
    BY <1>6, <2>1 DEF Structs
<1>8. /\ d <= count /\ ~Named(d) /\ next <= count
      /\ count \in Nat /\ next \in Nat /\ next >= 1
      /\ \A e \in Devices : dev[e].addr \in Nat /\ e \in Nat
  <2>1. d <= count /\ ~Named(d) /\ next <= count
    BY <1>3, <1>4 DEF Names, Steps
  <2>2. count \in Nat /\ next \in 1 .. count + 1
    BY <1>1 DEF TypeOK, Names, Numbers
  <2>3. \A e \in Devices : dev[e].addr \in Nat /\ e \in Nat
    BY <1>1, UsbAssumption DEF TypeOK, Structs, Addresses, Devices
  <2>4. QED
    BY <2>1, <2>2, <2>3
<1>9. next' = next + 1
  <2>1. count <= MaxMishaps + 1 /\ AddressMod > MaxMishaps + 2 /\ MaxMishaps \in Nat /\ AddressMod \in Nat
    BY <1>1, CountBound, UsbAssumption DEF Roomy
  <2>2. next + 1 < AddressMod
    BY <1>8, <2>1
  <2>3. QED
    BY <1>6, <1>8, <2>1, <2>2
<1>10. Numbers'
  <2>1. next' \in 1 .. count' + 1
    BY <1>6, <1>8, <1>9
  <2>2. \A e \in Devices : dev'[e].addr < next' /\ (dev'[e].addr # 0 => e <= count')
    <3> SUFFICES ASSUME NEW e \in Devices
                 PROVE  dev'[e].addr < next' /\ (dev'[e].addr # 0 => e <= count')
      OBVIOUS
    <3>1. CASE e = d
      BY <1>6, <1>7, <1>8, <1>9, <3>1
    <3>2. CASE e # d
      BY <1>6, <1>7, <1>8, <1>9, <3>2 DEF Names, Numbers, Named
    <3>3. QED
      BY <3>1, <3>2
  <2>3. \A e, f \in Devices : dev'[e].addr = dev'[f].addr /\ dev'[e].addr # 0 => e = f
    <3>1. \A e \in Devices : dev[e].addr < next
      BY DEF Names, Numbers
    <3>2. \A e \in Devices : dev[e].addr # next
      BY <1>8, <3>1
    <3>3. QED
      BY <1>7, <3>2 DEF Names, Numbers, Named
  <2>4. QED
    BY <2>1, <2>2, <2>3 DEF Numbers, Named
<1>11. Steps'
  <2> SUFFICES ASSUME NEW e \in Contexts, NEW f \in Devices, NEW r \in Ports, NEW j \in 1 .. 16,
                      Adding(job'[e], f, r, j)
               PROVE  f <= count' /\ (j <= 4 <=> ~Named(f)') /\ (j <= 4 => next' <= count')
    BY DEF Steps, Adds
  <2>1. e = c
    <3>1. e # c => job'[e] = job[e]
      BY <1>2, ContextFollows
    <3>2. QED
      BY <1>1, <1>2, <3>1, AddsRuns DEF Adds
  <2>2. job'[c] \in Seq(Items) /\ Ordered(job'[c])
    BY <1>1 DEF TypeOK, Jobs
  <2>3. 5 \in 1 .. 16
    OBVIOUS
  <2>4. f = d /\ j = 5
    BY <1>5, <2>1, <2>2, <2>3, AddingUnique
  <2>5. QED
    BY <1>6, <1>7, <1>8, <2>4 DEF Named
<1>12. QED
  BY <1>3, <1>4, <1>5, <1>6, <1>7, <1>9, <1>10, <1>11 DEF Names

(* Initially nothing has a name. *)
LEMMA NamesInit == ASSUME Init PROVE Names
<1>1. next = 1 /\ count = 0 /\ \A d \in Devices : dev[d].addr = 0
  BY DEF Init, NoDevice
<1>2. NoAdds
  BY ShapeInit, CleanShaped DEF NoAdds, Adds
<1>3. QED
  BY <1>1, <1>2 DEF Names, Numbers, Steps, Named, NoAdds

(* A struct keeps its address, and no two have the same. *)
LEMMA NamesNext == ASSUME Roomy, Inv, Inv', Shape, Names, [Next]_vars PROVE Names'
  BY NamesSame, NamesReset, NamesAddressed

-----------------------------------------------------------------------------
(* What the structs and the lists keep.                                    *)

(* Forgetting a device changes no more of its struct than that it is freed. *)
LEMMA ForgetRest ==
    ASSUME TypeOK, NEW p \in Ports, Forget(p) \/ UNCHANGED <<connected, data, devices, dev, crashed>>
    PROVE  /\ \A d \in Devices : dev'[d].togl = dev[d].togl /\ dev'[d].kind = dev[d].kind
           /\ \A q \in Ports : connected'[q] \in {connected[q], None}
           /\ data'["hidkb"] \in {data["hidkb"], None}
           /\ ToSet(devices') \subseteq ToSet(devices)
<1>1. CASE UNCHANGED <<connected, data, devices, dev, crashed>>
  BY <1>1
<1>2. CASE connected[p] # None /\ RemoveDevice(p)
  <2> DEFINE d == connected[p]
             drv == Drivers[CHOOSE i \in Bound(d) : \A j \in Bound(d) : i <= j]
  <2>1. /\ connected' = [connected EXCEPT ![p] = None]
        /\ data' = IF d \in Devices /\ Bound(d) # {} THEN [data EXCEPT ![drv] = None] ELSE data
        /\ dev' = IF d \in ToSet(devices) THEN [dev EXCEPT ![d].live = FALSE] ELSE dev
        /\ devices' = DeleteElement(devices, d)
    BY <1>2 DEF RemoveDevice
  <2> HIDE DEF d, drv
  <2>2. dev \in [Devices -> Structs] /\ connected \in [Ports -> Devices \cup {Bad, None}]
        /\ data \in [ToSet(Drivers) -> Devices \cup {None}]
    BY DEF TypeOK
  <2>3. \A e \in Devices : dev'[e].togl = dev[e].togl /\ dev'[e].kind = dev[e].kind
    BY <2>1, <2>2 DEF Structs
  <2>4. \A q \in Ports : connected'[q] \in {connected[q], None}
    BY <2>1, <2>2
  <2>5. data'["hidkb"] \in {data["hidkb"], None}
    BY <2>1, <2>2, DriversAre
  <2>6. ToSet(devices') \subseteq ToSet(devices)
    BY <2>1, DeletedFrom
  <2>7. QED
    BY <2>3, <2>4, <2>5, <2>6
<1>3. QED
  BY <1>1, <1>2 DEF Forget

(* The toggles change with a transfer, the kind with the configuration. *)
LEMMA StructsSame ==
    ASSUME Inv, [Next]_vars, \A c \in Contexts : ~PortReset(c), NEW d \in Devices
    PROVE  /\ (\A c \in Contexts : ~Submit(c)) => dev'[d].togl = dev[d].togl
           /\ (\A c \in Contexts : ~Parse(c)) => dev'[d].kind = dev[d].kind
<1>1. TypeOK /\ Jobs /\ dev \in [Devices -> Structs]
  BY DEF Inv, TypeOK
<1>2. ASSUME NEW c \in Contexts, Context(c) \/ FireEndsWild(c)
      PROVE  (~Submit(c) => dev'[d].togl = dev[d].togl) /\ (~Parse(c) => dev'[d].kind = dev[d].kind)
  <2>1. CASE Submit(c)
    <3>1. dev' = dev \/ dev' = [dev EXCEPT ![Item(c).dev].togl[Item(c).ep] = NextTogl(@, Len(SubmitIrp(Item(c))))]
      BY <2>1 DEF Submit
    <3>2. dev'[d].kind = dev[d].kind
      BY <1>1, <3>1 DEF Structs
    <3>3. QED
      BY <2>1, <3>2
  <2>2. CASE Enqueue(c) \/ Fire(c) \/ FireEnds(c) \/ FireEndsWild(c) \/ Try(c) \/ Enable(c) \/ Acknowledge(c)
    BY <2>2 DEF Enqueue, Fire, FireEnds, FireEndsWild, Try, Enable, Acknowledge, core
  <2>3. CASE SetupPort(c) \/ EnablePort(c)
    <3>1. Item(c).port \in Ports
      BY <1>1, <2>3, HeadTyped, ItemTypes DEF SetupPort, EnablePort, At, Runs, Idle
    <3>2. Forget(Item(c).port) \/ UNCHANGED <<connected, data, devices, dev, crashed>>
      BY <2>3 DEF SetupPort, EnablePort
    <3>3. QED
      BY <1>1, <3>1, <3>2, ForgetRest
  <2>4. CASE Check(c) \/ ListDevice(c) \/ Connect(c) \/ Probe(c) \/ Found(c) \/ Register(c)
    BY <2>4 DEF Check, ListDevice, Connect, Probe, Found, Register
  <2>5. CASE Parse(c)
    <3>1. dev' = [dev EXCEPT ![Item(c).dev].kind = IF gbuf = None THEN None ELSE port[gbuf].dev]
      BY <2>5 DEF Parse
    <3>2. dev'[d].togl = dev[d].togl
      BY <1>1, <3>1 DEF Structs
    <3>3. QED
      BY <2>5, <3>2
  <2>6. CASE Addressed(c)
    <3>1. dev' = [dev EXCEPT ![Item(c).dev].addr = next]
      BY <2>6 DEF Addressed
    <3>2. QED
      BY <1>1, <3>1 DEF Structs
  <2>7. QED
    BY <1>2, <2>1, <2>2, <2>3, <2>4, <2>5, <2>6 DEF Context
<1>3. CASE Main \/ HcdiIrq
  BY <1>3 DEF Main, Call, HcdiIrq, core
<1>4. CASE Executes \/ Halts \/ World \/ UNCHANGED vars
  BY <1>4 DEF Executes, Halts, World, Plug, Unplug, Press, vars, core
<1>5. QED
  BY <1>2, <1>3, <1>4 DEF Next

(* A name is kept. *)
LEMMA NamedKept ==
    ASSUME Roomy, Inv, Inv', Shape, Names, [Next]_vars, NEW d \in Devices, Named(d)
    PROVE  dev'[d].addr = dev[d].addr /\ dev'[d].addr # 0 /\ next <= next'
<1>1. TypeOK /\ Jobs /\ Counted /\ Alive /\ count \in Nat /\ next \in Nat
  BY DEF Inv, TypeOK, Names, Numbers
<1>2. dev[d].addr # 0 /\ d <= count
  BY DEF Names, Numbers, Named
<1>3. CASE \A c \in Contexts : ~PortReset(c) /\ ~Addressed(c)
  BY <1>1, <1>2, <1>3, AddrsSame
<1>4. ASSUME NEW c \in Contexts, PortReset(c) PROVE dev'[d].addr = dev[d].addr /\ next' = next
  <2>1. d # count + 1
    BY <1>1, <1>2 DEF Devices
  <2>2. QED
    BY <1>1, <1>4, <2>1, PortResetStep DEF PortReset
<1>5. ASSUME NEW c \in Contexts, Addressed(c) PROVE dev'[d].addr = dev[d].addr /\ next' = next + 1
  <2>1. PICK e \in Devices, p \in Ports : Adds(c, e, p, 4) /\ \A f \in Devices : f # e => dev'[f] = dev[f]
    BY <1>5, NamesAddressed
  <2>2. ~Named(e)
    BY <2>1 DEF Names, Steps
  <2>3. next' = next + 1
    BY <1>5, NamesAddressed
  <2>4. QED
    BY <2>1, <2>2, <2>3
<1>6. QED
  BY <1>1, <1>2, <1>3, <1>4, <1>5

(* The items that name a device come after its SET_ADDRESS; endpoint 1 is read. *)
KnownAt(x, structs) ==
    /\ x.op \in {"found", "connect"} => structs[x.dev].addr # 0
    /\ x.op = "irp" /\ x.type # "control" => structs[x.dev].addr # 0
    /\ x.op = "irp" /\ x.type = "bulk" => (x.ep = 1 <=> x.dir = "in")

(* What the lists of the core and of the drivers hold, and the jobs; and a *)
(* device without an address has not transferred anything.                 *)
Kept ==
    /\ \A d \in ToSet(devices) : Named(d)
    /\ \A d \in ToSet(massstorage) : Named(d)
    /\ \A p \in Ports : connected[p] \in Devices => Named(connected[p])
    /\ data["hidkb"] # None => Named(data["hidkb"])
    /\ \A d \in Devices : ~Named(d) => dev[d].togl[1] = 0 /\ dev[d].togl[2] = 0
Carried == \A c \in Contexts : \A i \in 1 .. Len(job[c]) : KnownAt(job[c][i], dev)
Known == Kept /\ Carried

(* A job in which the head was replaced. *)
LEMMA CarriedThen ==
    ASSUME TypeOK, NEW structs, NEW c \in Contexts, job[c] # <<>>, NEW items \in Seq(Items), Then(c, items),
           \A i \in 1 .. Len(items) : KnownAt(items[i], structs),
           \A i \in 1 .. Len(job[c]) : KnownAt(job[c][i], structs)
    PROVE  \A i \in 1 .. Len(job'[c]) : KnownAt(job'[c][i], structs)
<1> DEFINE q == job[c]
           r == job'[c]
<1>1. r = items \o Tail(q) /\ q \in Seq(Items) /\ q # <<>>
  BY JobTyped DEF TypeOK
<1> HIDE DEF q, r
<1>2. /\ r \in Seq(Items) /\ Len(r) = Len(items) + Len(q) - 1
      /\ \A i \in 1 .. Len(items) : r[i] = items[i]
      /\ \A i \in Len(items) + 1 .. Len(r) : r[i] = q[i - Len(items) + 1]
      /\ \A i \in Len(items) + 1 .. Len(r) : i - Len(items) + 1 \in 2 .. Len(q)
  BY <1>1, Spliced
<1>3. Len(q) \in Nat /\ Len(items) \in Nat /\ Len(r) \in Nat
  BY <1>1, <1>2
<1>4. ASSUME NEW i \in 1 .. Len(r) PROVE KnownAt(r[i], structs)
  <2>1. CASE i \in 1 .. Len(items)
    BY <1>2, <2>1
  <2>2. CASE i \in Len(items) + 1 .. Len(r)
    <3> DEFINE j == i - Len(items) + 1
    <3>1. j \in 2 .. Len(q) /\ r[i] = q[j]
      BY <1>2, <2>2
    <3> HIDE DEF j
    <3>2. j \in 1 .. Len(q)
      BY <1>3, <3>1
    <3>3. KnownAt(q[j], structs)
      BY <3>2 DEF q
    <3>4. QED
      BY <3>1, <3>3
  <2>3. QED
    BY <1>3, <2>1, <2>2
<1>5. QED
  BY <1>4 DEF r

(* Items that name nothing. *)
LEMMA Nameless ==
    ASSUME NEW x, NEW structs, x.op \notin {"found", "connect"}, x.op = "irp" => x.type = "control"
    PROVE  KnownAt(x, structs)
  BY DEF KnownAt

(* What the drivers and the core make. *)
LEMMA MadeKnown ==
    ASSUME Inv, Shape, Names, Known, NEW c \in Contexts, job[c] # <<>>, NEW x \in Made(c)
    PROVE  KnownAt(x, dev)
<1>1. TypeOK /\ Jobs /\ x \in Items /\ Makes(c, x)
  BY DEF Inv, Made
<1>2. ASSUME x.op = "connect" PROVE Named(x.dev)
  <2>1. Item(c).op = "list" /\ x.dev = Item(c).dev
    BY <1>1, <1>2 DEF Makes
  <2>2. PICK d \in Devices, p \in Ports, k \in 1 .. 16 : Adds(c, d, p, k)
    BY <1>1, <2>1, HeadAdds DEF Enumerating
  <2>3. k = 16 /\ Item(c).dev = d
    BY <1>1, <2>1, <2>2, AddsAt
  <2>4. Named(d)
    BY <2>2, <2>3 DEF Names, Steps
  <2>5. QED
    BY <2>1, <2>3, <2>4
<1>3. x.op = "found" => Named(x.dev)
  BY <1>1 DEF Makes, Known, Kept
<1>4. x.op = "irp" /\ x.type # "control" => Named(x.dev) /\ (x.ep = 1 <=> x.dir = "in")
  BY <1>1 DEF Makes, Known, Kept
<1>5. QED
  BY <1>2, <1>3, <1>4 DEF KnownAt, Named

(* What was known stays known. *)
LEMMA KnownLater ==
    ASSUME Roomy, Inv, Inv', Shape, Names, [Next]_vars, NEW x \in Items, KnownAt(x, dev)
    PROVE  KnownAt(x, dev')
<1>1. x.op \in {"found", "connect"} \/ x.op = "irp" => x.dev \in Devices
  BY ItemTypes DEF Irps
<1>2. QED
  BY <1>1, NamedKept DEF KnownAt, Named

(* usb_add_device asks by control transfers. *)
LEMMA AddDeviceKnown ==
    ASSUME NEW d \in Devices, NEW p \in Ports, NEW structs
    PROVE  \A i \in 1 .. Len(AddDevice(d, p)) : KnownAt(AddDevice(d, p)[i], structs)
<1>1. Len(AddDevice(d, p)) = 16
  BY AddDeviceIs
<1> SUFFICES ASSUME NEW i \in 1 .. 16 PROVE KnownAt(AddDevice(d, p)[i], structs)
  BY <1>1
<1>2. CASE i \in Asks
  BY <1>2, AddOps, Nameless
<1>3. CASE i \in {2, 6}
  BY <1>3, AddOps, StepTyped, Nameless
<1>4. CASE i = 4
  BY <1>4, AddOps, StepTyped, Nameless
<1>5. CASE i \in {11, 15}
  BY <1>5, AddOps, StepTyped, Nameless
<1>6. CASE i = 16
  BY <1>6, AddOps, StepTyped, Nameless
<1>7. QED
  BY <1>2, <1>3, <1>4, <1>5, <1>6, AddOps

(* The jobs of a step of a context. *)
LEMMA CarriedContext ==
    ASSUME Roomy, Inv, Inv', Shape, Names, Known, NEW c \in Contexts, Context(c) \/ FireEndsWild(c)
    PROVE  Carried'
<1>1. TypeOK /\ Jobs /\ Registers /\ TypeOK' /\ Jobs' /\ Counted /\ Alive /\ [Next]_vars
  BY DEF Inv, Next
<1>2. job[c] # <<>> /\ job[c] \in Seq(Items) /\ Runs(c) /\ \A e \in Contexts : e # c => job'[e] = job[e]
  BY <1>1, ContextFollows DEF TypeOK
<1>3. ASSUME NEW e \in Contexts, NEW i \in 1 .. Len(job[e]) PROVE KnownAt(job[e][i], dev')
  <2>1. job[e] \in Seq(Items)
    BY <1>1 DEF TypeOK
  <2>2. job[e][i] \in Items
    BY <2>1
  <2>3. QED
    BY <1>1, <2>2, KnownLater DEF Known, Carried
<1>4. \A i \in 1 .. Len(job'[c]) : KnownAt(job'[c][i], dev')
  <2>1. ASSUME NEW items \in Seq(Items), Then(c, items), \A i \in 1 .. Len(items) : KnownAt(items[i], dev')
        PROVE  \A i \in 1 .. Len(job'[c]) : KnownAt(job'[c][i], dev')
    BY <1>1, <1>2, <1>3, <2>1, CarriedThen
  <2>2. ASSUME NEW x \in Items, Then(c, <<x>>), KnownAt(x, dev')
        PROVE  \A i \in 1 .. Len(job'[c]) : KnownAt(job'[c][i], dev')
    <3> DEFINE items == <<x>>
    <3>1. items \in Seq(Items) /\ Len(items) = 1 /\ items[1] = x /\ Then(c, items)
      BY <2>2, SeqOfOne
    <3> HIDE DEF items
    <3>2. \A i \in 1 .. Len(items) : items[i] = x
      BY <3>1
    <3>3. QED
      BY <2>1, <2>2, <3>1, <3>2
  <2>3. ASSUME Then(c, <<>>) PROVE \A i \in 1 .. Len(job'[c]) : KnownAt(job'[c][i], dev')
    <3>1. <<>> \in Seq(Items) /\ \A i \in 1 .. Len(<<>>) : FALSE
      OBVIOUS
    <3>2. QED
      BY <2>1, <2>3, <3>1
  <2>4. CASE Submit(c) \/ Enqueue(c) \/ Fire(c)
    <3>1. CASE Submit(c)
      <4>1. Item(c) \in Irps
        BY <1>1, <3>1, HeadFits, ItemTypes DEF Submit, At, Runs, Idle
      <4> DEFINE x == IF Interruptible(c) THEN [op |-> "queue", tds |-> SubmitIrp(Item(c))] ELSE [op |-> "poll"]
      <4>2. Then(c, <<x>>)
        BY <3>1 DEF Submit
      <4>3. x \in Items /\ x.op \in {"queue", "poll"}
        BY <4>1, <1>1, SmallItems, SubmitTyped
      <4> HIDE DEF x
      <4>4. QED
        BY <2>2, <4>2, <4>3, Nameless
    <3>2. CASE Enqueue(c)
      <4>1. Item(c).tds \in Seq(Tds) /\ Item(c).tds # <<>>
        BY <1>1, <3>2, HeadFits, ItemTypes DEF Enqueue, At, Runs, Idle
      <4> DEFINE x == [op |-> "queue", tds |-> Tail(Item(c).tds)]
      <4>2. Then(c, <<x>>)
        BY <3>2 DEF Enqueue
      <4>3. Tail(Item(c).tds) \in Seq(Tds)
        BY <4>1
      <4>4. x \in Items /\ x.op = "queue"
        BY <4>3, SmallItems
      <4> HIDE DEF x
      <4>5. QED
        BY <2>2, <4>2, <4>4, Nameless
    <3>3. CASE Fire(c)
      <4>1. Then(c, <<>>) \/ Then(c, <<[op |-> "poll"]>>)
        BY <3>3 DEF Fire
      <4> DEFINE x == [op |-> "poll"]
      <4>2. x \in Items /\ x.op = "poll"
        BY SmallItems
      <4>3. Then(c, <<>>) \/ Then(c, <<x>>)
        BY <4>1
      <4> HIDE DEF x
      <4>4. QED
        BY <2>2, <2>3, <4>2, <4>3, Nameless
    <3>4. QED
      BY <2>4, <3>1, <3>2, <3>3
  <2>5. CASE Pops(c)
    BY <2>3, <2>5 DEF Pops, FireEnds, FireEndsWild, Check, Addressed, Parse
  <2>6. CASE PortReset(c)
    <3>1. count + 1 \in Devices
      BY <1>1, <2>6, PortResetStep
    <3>2. Item(c).port \in Ports
      BY <1>1, <2>6, HeadFits, ItemTypes DEF PortReset, At, Runs, Idle
    <3>3. Then(c, AddDevice(count + 1, Item(c).port))
      BY <2>6 DEF PortReset
    <3>4. AddDevice(count + 1, Item(c).port) \in Seq(Items)
      BY <3>1, <3>2, AddDeviceItems
    <3>5. QED
      BY <2>1, <3>1, <3>2, <3>3, <3>4, AddDeviceKnown
  <2>7. CASE Late(c)
    <3>1. PICK items \in Seq(Made(c)) : Then(c, items)
      BY <1>1, <2>7, LateItems
    <3>2. items \in Seq(Items) /\ \A i \in 1 .. Len(items) : items[i] \in Made(c) /\ items[i] \in Items
      BY <3>1 DEF Made
    <3>3. \A i \in 1 .. Len(items) : KnownAt(items[i], dev')
      BY <1>1, <1>2, <3>2, MadeKnown, KnownLater
    <3>4. QED
      BY <2>1, <3>1, <3>2, <3>3
  <2>8. CASE Check(c) /\ gbuf = None
    <3>1. job'[c] = Rest(c)
      BY <1>1, <2>8 DEF Check, TypeOK
    <3>2. PICK n \in 1 .. Len(job[c]) : Rest(c) = SubSeq(job[c], n + 1, Len(job[c]))
      BY <1>1, <1>2, <2>8, RestOfJob DEF Check, At
    <3>3. /\ Len(job'[c]) = Len(job[c]) - n
          /\ \A i \in 1 .. Len(job[c]) - n : job'[c][i] = job[c][i + n]
      <4>1. Ordered(job[c])
        BY <1>1 DEF Jobs
      <4>2. QED
        BY <1>2, <3>1, <3>2, <4>1, OrderedSuffix
    <3>4. QED
      <4> SUFFICES ASSUME NEW i \in 1 .. Len(job'[c]) PROVE KnownAt(job'[c][i], dev')
        OBVIOUS
      <4>1. Len(job[c]) \in Nat
        BY <1>2
      <4>2. i + n \in 1 .. Len(job[c]) /\ i \in 1 .. Len(job[c]) - n
        BY <3>3, <4>1
      <4>3. QED
        BY <1>3, <3>3, <4>2
  <2>9. QED
    BY <2>4, <2>5, <2>6, <2>7, <2>8 DEF Context, Late, Pops
<1>5. QED
  BY <1>2, <1>3, <1>4 DEF Carried

(* The elements of a list to which one was appended. *)
LEMMA AppendedSet ==
    ASSUME NEW S, NEW s \in Seq(S), NEW x \in S, NEW r, r = Append(s, x)
    PROVE  ToSet(r) \subseteq ToSet(s) \cup {x}
<1>1. r \in Seq(S) /\ Len(r) = Len(s) + 1 /\ Len(s) \in Nat
  OBVIOUS
<1>2. \A i \in 1 .. Len(s) : r[i] = s[i]
  OBVIOUS
<1>3. r[Len(s) + 1] = x
  OBVIOUS
<1>4. \A i \in 1 .. Len(s) + 1 : i = Len(s) + 1 \/ i \in 1 .. Len(s)
  BY <1>1
<1>5. DOMAIN r = 1 .. Len(s) + 1 /\ DOMAIN s = 1 .. Len(s)
  BY <1>1
<1>6. QED
  BY <1>2, <1>3, <1>4, <1>5 DEF ToSet

(* What enters the lists has its address. *)
LEMMA ListsNamed ==
    ASSUME Inv, Inv', Shape, Names, Known, [Next]_vars
    PROVE  /\ \A d \in ToSet(devices') : Named(d)
           /\ \A d \in ToSet(massstorage') : Named(d)
           /\ \A p \in Ports : connected'[p] \in Devices => Named(connected'[p])
           /\ data'["hidkb"] # None => (Named(data["hidkb"]) /\ data'["hidkb"] = data["hidkb"])
                                       \/ (Named(data'["hidkb"]) /\ data'["hidkb"] \in ToSet(devices))
<1> DEFINE Lists == /\ \A d \in ToSet(devices') : Named(d)
                    /\ \A d \in ToSet(massstorage') : Named(d)
                    /\ \A p \in Ports : connected'[p] \in Devices => Named(connected'[p])
                    /\ data'["hidkb"] # None => (Named(data["hidkb"]) /\ data'["hidkb"] = data["hidkb"])
                                                \/ (Named(data'["hidkb"]) /\ data'["hidkb"] \in ToSet(devices))
<1>1. TypeOK /\ Jobs /\ Counted
  BY DEF Inv
<1>2. CASE UNCHANGED <<devices, massstorage, connected, data>>
  BY <1>2 DEF Known, Kept
<1>3. ASSUME NEW c \in Contexts, Context(c) \/ FireEndsWild(c) PROVE Lists
  <2>1. CASE Submit(c) \/ Enqueue(c) \/ Fire(c) \/ FireEnds(c) \/ FireEndsWild(c) \/ Try(c) \/ Enable(c)
             \/ Acknowledge(c) \/ PortReset(c) \/ Addressed(c) \/ Parse(c) \/ Register(c)
    BY <1>2, <2>1 DEF Submit, Enqueue, Fire, FireEnds, FireEndsWild, Try, Enable, Acknowledge, PortReset,
                      Addressed, Parse, Register, core
  <2>2. CASE SetupPort(c) \/ EnablePort(c)
    <3>1. Item(c).port \in Ports
      BY <1>1, <2>2, HeadTyped, ItemTypes DEF SetupPort, EnablePort, At, Runs, Idle
    <3>2. Forget(Item(c).port) \/ UNCHANGED <<connected, data, devices, dev, crashed>>
      BY <2>2 DEF SetupPort, EnablePort
    <3>3. massstorage' = massstorage
      BY <2>2 DEF SetupPort, EnablePort
    <3>4. /\ \A q \in Ports : connected'[q] \in {connected[q], None}
          /\ data'["hidkb"] \in {data["hidkb"], None} /\ ToSet(devices') \subseteq ToSet(devices)
      BY <1>1, <3>1, <3>2, ForgetRest
    <3>5. None \notin Devices
      BY UsbAssumption DEF Devices
    <3>6. QED
      BY <3>3, <3>4, <3>5 DEF Known, Kept
  <2>3. CASE Check(c)
    <3>1. UNCHANGED <<devices, massstorage, data>>
          /\ (connected' = connected \/ connected' = [connected EXCEPT ![Item(c).port] = Bad])
      BY <2>3 DEF Check
    <3>2. Bad \notin Devices
      BY UsbAssumption DEF Bad, Devices
    <3>3. connected \in [Ports -> Devices \cup {Bad, None}]
      BY <1>1 DEF TypeOK
    <3>4. \A q \in Ports : connected'[q] \in {connected[q], Bad}
      BY <3>1, <3>3
    <3>5. QED
      BY <3>1, <3>2, <3>4 DEF Known, Kept
  <2>4. CASE ListDevice(c)
    <3>1. Item(c).op = "list" /\ job[c] # <<>> /\ UNCHANGED <<massstorage, connected, data>>
          /\ devices' = Append(devices, Item(c).dev)
      BY <2>4 DEF ListDevice, At, Runs, Idle
    <3>2. PICK d \in Devices, p \in Ports, k \in 1 .. 16 : Adds(c, d, p, k)
      BY <1>1, <3>1, HeadAdds DEF Enumerating
    <3>3. k = 16 /\ Item(c).dev = d
      BY <1>1, <3>1, <3>2, AddsAt
    <3>4. Named(d)
      BY <3>2, <3>3 DEF Names, Steps
    <3>5. ToSet(devices') \subseteq ToSet(devices) \cup {d}
      <4>1. devices \in Seq(Devices) /\ devices' = Append(devices, d)
        BY <1>1, <3>1, <3>3 DEF TypeOK
      <4>2. QED
        BY <4>1, AppendedSet
    <3>6. QED
      BY <3>1, <3>4, <3>5 DEF Known, Kept
  <2>5. CASE Connect(c)
    <3>1. Item(c).op = "connect" /\ job[c] # <<>> /\ UNCHANGED <<massstorage, devices, data>>
          /\ connected' = [connected EXCEPT ![Item(c).port] = Item(c).dev]
      BY <2>5 DEF Connect, At, Runs, Idle
    <3>2. KnownAt(Item(c), dev)
      BY <1>1, <3>1, HeadTyped DEF Known, Carried
    <3>3. Named(Item(c).dev)
      BY <3>1, <3>2 DEF KnownAt, Named
    <3>4. connected \in [Ports -> Devices \cup {Bad, None}]
      BY <1>1 DEF TypeOK
    <3>5. \A q \in Ports : connected'[q] \in {connected[q], Item(c).dev}
      BY <3>1, <3>4
    <3>6. QED
      BY <3>1, <3>3, <3>5 DEF Known, Kept
  <2>6. CASE Probe(c)
    <3>1. UNCHANGED <<massstorage, devices, connected>>
      BY <2>6 DEF Probe
    <3>2. data'["hidkb"] = data["hidkb"] \/ data'["hidkb"] \in ToSet(devices)
      BY <1>1, <2>6, ProbeStep
    <3>3. QED
      BY <3>1, <3>2 DEF Known, Kept
  <2>7. CASE Found(c)
    <3>1. Item(c).op = "found" /\ job[c] # <<>> /\ UNCHANGED <<connected, devices, data>>
          /\ (massstorage' = massstorage \/ massstorage' = Append(massstorage, Item(c).dev))
      BY <2>7 DEF Found, At, Runs, Idle
    <3>2. KnownAt(Item(c), dev)
      BY <1>1, <3>1, HeadTyped DEF Known, Carried
    <3>3. Named(Item(c).dev)
      BY <3>1, <3>2 DEF KnownAt, Named
    <3>4. Item(c).dev \in Devices /\ massstorage \in Seq(Devices)
      BY <1>1, <3>1, HeadFits, ItemTypes DEF TypeOK
    <3>5. ToSet(massstorage') \subseteq ToSet(massstorage) \cup {Item(c).dev}
      BY <3>1, <3>4, AppendedSet
    <3>6. QED
      BY <3>1, <3>3, <3>5 DEF Known, Kept
  <2>8. QED
    BY <1>3, <2>1, <2>2, <2>3, <2>4, <2>5, <2>6, <2>7 DEF Context
<1>4. CASE Main \/ HcdiIrq
  BY <1>2, <1>4 DEF Main, Call, HcdiIrq, core
<1>5. CASE Executes \/ Halts \/ World \/ UNCHANGED vars
  BY <1>2, <1>5 DEF Executes, Halts, World, Plug, Unplug, Press, vars, core
<1>6. Lists
  BY <1>2, <1>3, <1>4, <1>5 DEF Next
<1>7. QED
  BY <1>6

(* The toggles of a device without an address: nothing is sent from it. *)
LEMMA TogglesNew ==
    ASSUME Roomy, Inv, Inv', Shape, Names, Known, [Next]_vars, NEW d \in Devices, ~Named(d)'
    PROVE  dev'[d].togl[1] = 0 /\ dev'[d].togl[2] = 0
<1>1. TypeOK /\ Jobs /\ Counted /\ Alive /\ dev \in [Devices -> Structs]
  BY DEF Inv, TypeOK
<1>2. ~Named(d) /\ dev[d].togl[1] = 0 /\ dev[d].togl[2] = 0
  <2>1. ~Named(d)
    BY NamedKept DEF Named
  <2>2. QED
    BY <2>1 DEF Known, Kept
<1>3. ASSUME NEW c \in Contexts, PortReset(c) PROVE dev'[d].togl[1] = 0 /\ dev'[d].togl[2] = 0
  <2>1. count + 1 \in Devices /\ \A e \in Devices : e # count + 1 => dev'[e] = dev[e]
    BY <1>1, <1>3, PortResetStep
  <2>2. dev'[count + 1] = NewDevice(Item(c).port)
    BY <1>1, <1>3, <2>1 DEF PortReset
  <2>3. QED
    BY <1>2, <2>1, <2>2 DEF NewDevice
<1>4. ASSUME NEW c \in Contexts, Submit(c) PROVE dev'[d] = dev[d]
  <2>1. job[c] # <<>> /\ Item(c).op = "irp" /\ KnownAt(Item(c), dev)
    BY <1>1, <1>4, HeadTyped DEF Known, Carried, Submit, At, Runs, Idle
  <2>2. CASE Item(c).type = "bulk"
    <3>1. dev[Item(c).dev].addr # 0
      BY <2>1, <2>2 DEF KnownAt
    <3>2. Item(c).dev # d
      BY <1>2, <3>1 DEF Named
    <3>3. dev' = [dev EXCEPT ![Item(c).dev].togl[Item(c).ep] = NextTogl(@, Len(SubmitIrp(Item(c))))]
      BY <1>4, <2>2 DEF Submit
    <3>4. QED
      BY <1>1, <3>2, <3>3
  <2>3. CASE Item(c).type # "bulk"
    BY <1>4, <2>3 DEF Submit
  <2>4. QED
    BY <2>2, <2>3
<1>5. QED
  BY <1>2, <1>3, <1>4, StructsSame

(* The job of the handler, and what the program asks of the drivers. *)
LEMMA CarriedElse ==
    ASSUME Roomy, Inv, Inv', Shape, Names, Known, [Next]_vars, HcdiIrq \/ Main \/ job' = job
    PROVE  Carried'
<1>1. TypeOK /\ Jobs
  BY DEF Inv
<1>2. ASSUME NEW c \in Contexts, NEW i \in 1 .. Len(job[c]) PROVE KnownAt(job[c][i], dev')
  <2>1. job[c] \in Seq(Items)
    BY <1>1 DEF TypeOK
  <2>2. job[c][i] \in Items
    BY <2>1
  <2>3. QED
    BY <2>2, KnownLater DEF Known, Carried
<1>3. CASE job' = job
  BY <1>2, <1>3 DEF Carried
<1>4. CASE HcdiIrq
  <2>1. /\ job'["main"] = job["main"] /\ \A i \in 1 .. Len(job'["irq"]) : job'["irq"][i].op \in {"port", "ack"}
    BY <1>1, <1>4, HandlerClean
  <2>2. \A i \in 1 .. Len(job'["irq"]) : KnownAt(job'["irq"][i], dev')
    BY <2>1, Nameless
  <2>3. QED
    BY <1>2, <2>1, <2>2 DEF Carried, Contexts
<1>5. CASE Main
  <2>1. job'["irq"] = job["irq"]
    BY <1>1, <1>5, CallClean DEF Main
  <2>2. PICK x \in Items : /\ job'["main"] = <<x>>
                           /\ \/ x = BulkWrite(massstorage[1], 2, 31) /\ massstorage # <<>>
                              \/ x = InterruptRead(data["hidkb"], 1, 8) /\ data["hidkb"] # None
    BY <1>1, <1>5, CallClean DEF Main
  <2>3. KnownAt(x, dev)
    <3>1. CASE x = BulkWrite(massstorage[1], 2, 31) /\ massstorage # <<>>
      <4>1. massstorage \in Seq(Devices)
        BY <1>1 DEF TypeOK
      <4>2. massstorage[1] \in ToSet(massstorage)
        BY <3>1, <4>1 DEF ToSet
      <4>3. Named(massstorage[1])
        BY <4>2 DEF Known, Kept
      <4>4. x.dev = massstorage[1] /\ x.op = "irp" /\ x.ep = 2 /\ x.dir = "out"
        BY <3>1 DEF BulkWrite
      <4>5. QED
        BY <4>3, <4>4 DEF KnownAt, Named
    <3>2. CASE x = InterruptRead(data["hidkb"], 1, 8) /\ data["hidkb"] # None
      <4>1. Named(data["hidkb"])
        BY <3>2 DEF Known, Kept
      <4>2. x.dev = data["hidkb"] /\ x.op = "irp" /\ x.type = "interrupt"
        BY <3>2 DEF InterruptRead
      <4>3. QED
        BY <4>1, <4>2 DEF KnownAt, Named
    <3>3. QED
      BY <2>2, <3>1, <3>2
  <2>4. KnownAt(x, dev')
    BY <2>3, KnownLater
  <2>5. \A i \in 1 .. Len(job'["main"]) : KnownAt(job'["main"][i], dev')
    <3> DEFINE items == <<x>>
    <3>1. Len(items) = 1 /\ items[1] = x /\ job'["main"] = items
      BY <2>2
    <3> HIDE DEF items
    <3>2. \A i \in 1 .. Len(items) : items[i] = x
      BY <3>1
    <3>3. QED
      BY <2>4, <3>1, <3>2
  <2>6. QED
    BY <1>2, <2>1, <2>5 DEF Carried, Contexts
<1>6. QED
  BY <1>3, <1>4, <1>5

(* What is known stays so. *)
LEMMA KnownNext ==
    ASSUME Roomy, Inv, Inv', Shape, Names, Known, [Next]_vars
    PROVE  Known'
<1>1. Carried'
  <2>1. CASE \E c \in Contexts : Context(c) \/ FireEndsWild(c)
    BY <2>1, CarriedContext
  <2>2. CASE HcdiIrq \/ Main
    BY <2>2, CarriedElse
  <2>3. CASE Executes \/ Halts \/ World \/ UNCHANGED vars
    BY <2>3, WorldSteps, CarriedElse
  <2>4. QED
    BY <2>1, <2>2, <2>3 DEF Next
<1>2. TypeOK'
  BY DEF Inv
<1>3. ToSet(devices') \subseteq Devices /\ ToSet(massstorage') \subseteq Devices
      /\ (data'["hidkb"] # None => data'["hidkb"] \in Devices)
  <2>1. devices' \in Seq(Devices) /\ massstorage' \in Seq(Devices)
        /\ data' \in [ToSet(Drivers) -> Devices \cup {None}]
    BY <1>2 DEF TypeOK
  <2>2. QED
    BY <2>1, SetOfSeq, DriversAre
<1>4. \A d \in Devices : Named(d) => dev'[d].addr # 0
  BY NamedKept
<1>5. Kept'
  <2>1. /\ \A d \in ToSet(devices') : dev'[d].addr # 0
        /\ \A d \in ToSet(massstorage') : dev'[d].addr # 0
        /\ \A p \in Ports : connected'[p] \in Devices => dev'[connected'[p]].addr # 0
        /\ data'["hidkb"] # None => dev'[data'["hidkb"]].addr # 0
    BY <1>3, <1>4, ListsNamed
  <2>2. \A d \in Devices : ~Named(d)' => dev'[d].togl[1] = 0 /\ dev'[d].togl[2] = 0
    BY TogglesNew
  <2>3. QED
    BY <2>1, <2>2 DEF Kept, Named
<1>6. QED
  BY <1>1, <1>5 DEF Known

(* Initially nothing is. *)
LEMMA KnownInit == ASSUME Init PROVE Known
<1>1. devices = <<>> /\ massstorage = <<>> /\ connected = [p \in Ports |-> None]
      /\ data = [d \in ToSet(Drivers) |-> None] /\ dev = [d \in Devices |-> NoDevice]
  BY DEF Init
<1>2. None \notin Devices
  BY UsbAssumption DEF Devices
<1>3. ToSet(<<>>) = {}
  BY DEF ToSet
<1>4. Kept
  BY <1>1, <1>3, <1>2, DriversAre DEF Kept, Named, NoDevice
<1>5. Carried
  <2> SUFFICES ASSUME NEW c \in Contexts, NEW i \in 1 .. Len(job[c]) PROVE KnownAt(job[c][i], dev)
    BY DEF Carried
  <2> DEFINE x == job[c][i]
  <2>1. x.op \in {"port", "enable irq", "register"}
    BY ShapeInit
  <2> HIDE DEF x
  <2>2. KnownAt(x, dev)
    BY <2>1, Nameless
  <2>3. QED
    BY <2>2 DEF x
<1>6. QED
  BY <1>4, <1>5 DEF Known

-----------------------------------------------------------------------------
(* TDs and what they say.                                                  *)

(* The fields of a TD. *)
LEMMA TdFields ==
    ASSUME NEW x, NEW pid, NEW togl, NEW len
    PROVE  LET t == Td(x, pid, togl, len)
           IN  /\ t.addr = dev[x.dev].addr /\ t.ep = x.ep /\ t.type = x.type /\ t.pid = pid
               /\ t.togl = togl % 2 /\ t.len = len /\ t.req = x.req /\ t.arg = next
  BY DEF Td

(* The packets of the data: all of one kind, and some if there are data. *)
LEMMA DataOf ==
    ASSUME TypeOK, NEW x \in Irps, NEW togl \in {0, 1}, NEW S,
           \A n \in Nat, len \in Nat : Td(x, "IN", n, len) \in S
    PROVE  /\ DataTds(x, togl) \in Seq(S)
           /\ x.len > 0 => DataTds(x, togl) # <<>> /\ DataTds(x, togl)[1].len > 0 /\ DataTds(x, togl)[1].pid = "IN"
<1> DEFINE size == EpSize(x)
           n == (x.len + size - 1) \div size
           all == Packets(x.len, size)
           lens == IF x.req = "device" /\ dev[x.dev].addr = 0 THEN SubSeq(all, 1, 1) ELSE all
<1>1. size \in {8, 64} /\ x.len \in Nat
  BY DEF TypeOK, Irps, EpSize, Structs
<1> HIDE DEF size
<1>2. n \in Nat /\ (x.len > 0 => n >= 1)
  BY <1>1
<1>3. \A i \in Nat : (IF i * size <= x.len THEN size ELSE x.len % size) \in Nat
  BY <1>1
<1>4. x.len > 0 => (IF 1 * size <= x.len THEN size ELSE x.len % size) > 0
  BY <1>1
<1>5. all = [i \in 1 .. n |-> IF i * size <= x.len THEN size ELSE x.len % size]
  BY DEF Packets
<1> HIDE DEF n
<1>6. all \in Seq(Nat) /\ Len(all) = n /\ (x.len > 0 => 1 \in 1 .. n /\ all[1] > 0)
  <2>1. all \in Seq(Nat) /\ Len(all) = n
    BY <1>2, <1>3, <1>5
  <2>2. x.len > 0 => 1 \in 1 .. n
    BY <1>2
  <2>3. x.len > 0 => all[1] > 0
    BY <1>4, <1>5, <2>2
  <2>4. QED
    BY <2>1, <2>2, <2>3
<1> HIDE DEF all
<1>7. lens \in Seq(Nat) /\ (x.len > 0 => lens # <<>> /\ lens[1] > 0)
  <2>1. CASE x.req # "device"
    BY <1>6, <2>1
  <2>2. CASE x.req = "device"
    <3>1. x.len > 0
      BY <2>2 DEF Irps
    <3>2. all # <<>> /\ all[1] > 0 /\ all \in Seq(Nat)
      BY <1>6, <3>1
    <3>3. SubSeq(all, 1, 1) \in Seq(Nat) /\ SubSeq(all, 1, 1) # <<>> /\ SubSeq(all, 1, 1)[1] = all[1]
      BY <3>2
    <3>4. QED
      BY <3>2, <3>3
  <2>3. QED
    BY <2>1, <2>2
<1>8. DataTds(x, togl) = [i \in 1 .. Len(lens) |-> Td(x, "IN", togl + i - 1, lens[i])]
  BY DEF DataTds, all, size
<1> HIDE DEF lens
<1> DEFINE tds == DataTds(x, togl)
<1>9. Len(lens) \in Nat /\ \A i \in 1 .. Len(lens) : togl + i - 1 \in Nat /\ lens[i] \in Nat
  BY <1>7
<1>10. \A i \in 1 .. Len(lens) : tds[i] \in S
  BY <1>8, <1>9
<1>11. tds \in Seq(S) /\ Len(tds) = Len(lens)
  BY <1>8, <1>9, <1>10
<1>12. x.len > 0 => 1 \in 1 .. Len(lens) /\ tds[1] = Td(x, "IN", togl + 1 - 1, lens[1])
  <2>1. x.len > 0 => 1 \in 1 .. Len(lens)
    BY <1>7
  <2>2. QED
    BY <1>8, <2>1
<1>13. x.len > 0 => tds[1].len = lens[1] /\ tds[1].pid = "IN"
  BY <1>12, TdFields
<1> HIDE DEF tds
<1>14. x.len > 0 => tds # <<>> /\ tds[1].len > 0 /\ tds[1].pid = "IN"
  BY <1>7, <1>11, <1>12, <1>13
<1>15. QED
  BY <1>11, <1>14 DEF tds

(* What holds of every TD of a request holds of its transfer. *)
LEMMA TdsOf ==
    ASSUME TypeOK, NEW x \in Irps, NEW S,
           \A pid \in {"SETUP", "IN", "OUT"}, n \in Nat, len \in Nat :
              (x.type = "bulk" => pid = IF x.dir = "in" THEN "IN" ELSE "OUT") => Td(x, pid, n, len) \in S
    PROVE  SubmitIrp(x) \in Seq(S)
<1>0. x.type \in {"control", "bulk", "interrupt"} /\ x.len \in Nat
  BY DEF Irps
<1>1. CASE x.type = "control"
  <2> DEFINE a == <<Td(x, "SETUP", 0, 8)>>
             b == IF x.dir = "in" THEN DataTds(x, 1) ELSE <<>>
             e == <<Td(x, IF x.dir = "in" THEN "OUT" ELSE "IN", 1, 0)>>
  <2>1. a \in Seq(S)
    BY <1>1
  <2>2. b \in Seq(S)
    <3>1. \A n \in Nat, len \in Nat : Td(x, "IN", n, len) \in S
      BY <1>1
    <3>2. DataTds(x, 1) \in Seq(S)
      BY <3>1, DataOf
    <3>3. QED
      BY <3>2
  <2>3. e \in Seq(S)
    BY <1>1
  <2>4. SubmitIrp(x) = (a \o b) \o e
    BY <1>1 DEF SubmitIrp, ControlTds
  <2> HIDE DEF a, b, e
  <2>5. QED
    BY <2>1, <2>2, <2>3, <2>4
<1>2. CASE x.type = "bulk"
  <2>1. dev[x.dev].togl[x.ep] \in Nat
    BY <1>2 DEF TypeOK, Irps, Structs
  <2>2. SubmitIrp(x) = BulkTds(x)
    BY <1>2 DEF SubmitIrp
  <2>3. BulkTds(x) \in Seq(S)
    BY <1>0, <1>2, <2>1 DEF BulkTds
  <2>4. QED
    BY <2>2, <2>3
<1>3. CASE x.type = "interrupt"
  <2>1. dev[x.dev].togl[x.ep] \in {0, 1}
    BY <1>3 DEF TypeOK, Irps, Structs
  <2>2. SubmitIrp(x) = DataTds(x, dev[x.dev].togl[x.ep])
    BY <1>3 DEF SubmitIrp
  <2>3. \A n \in Nat, len \in Nat : Td(x, "IN", n, len) \in S
    BY <1>3
  <2>4. QED
    BY <2>1, <2>2, <2>3, DataOf
<1>4. QED
  BY <1>0, <1>1, <1>2, <1>3

(* A control transfer that reads has a packet for the data; all others end *)
(* with one that is empty.                                                 *)
LEMMA ControlHas ==
    ASSUME TypeOK, NEW x \in Irps, x.type = "control"
    PROVE  /\ SubmitIrp(x) \in Seq(Tds) /\ SubmitIrp(x) # <<>>
           /\ x.dir = "in" /\ x.len > 0 =>
                \E i \in 1 .. Len(SubmitIrp(x)) : LET t == SubmitIrp(x)[i]
                                                  IN  t.type = "control" /\ t.pid = "IN" /\ t.len > 0
           /\ x.dir = "out" =>
                \E i \in 1 .. Len(SubmitIrp(x)) : LET t == SubmitIrp(x)[i]
                                                  IN  t.type = "control" /\ t.len = 0 /\ t.req = x.req
<1> DEFINE T == {t \in Tds : t.type = "control" /\ t.req = x.req}
           a == <<Td(x, "SETUP", 0, 8)>>
           b == IF x.dir = "in" THEN DataTds(x, 1) ELSE <<>>
           u == Td(x, IF x.dir = "in" THEN "OUT" ELSE "IN", 1, 0)
           e == <<u>>
<1>1. \A pid \in {"SETUP", "IN", "OUT"}, n \in Nat, len \in Nat : Td(x, pid, n, len) \in T
  BY TdTyped, TdFields
<1> HIDE DEF T
<1>2. a \in Seq(T) /\ Len(a) = 1
  BY <1>1
<1>3. /\ b \in Seq(T)
      /\ x.dir = "in" /\ x.len > 0 => b # <<>> /\ b[1].len > 0 /\ b[1].pid = "IN"
  <2>1. DataTds(x, 1) \in Seq(T)
        /\ (x.len > 0 => DataTds(x, 1) # <<>> /\ DataTds(x, 1)[1].len > 0 /\ DataTds(x, 1)[1].pid = "IN")
    BY <1>1, DataOf
  <2>2. QED
    BY <2>1
<1>4. e \in Seq(T) /\ Len(e) = 1 /\ e[1] = u /\ u \in T /\ u.len = 0
  <2>1. u \in T
    BY <1>1
  <2>2. u.len = 0
    BY TdFields
  <2> HIDE DEF u
  <2>3. QED
    BY <2>1, <2>2, SeqOfOne
<1> DEFINE f == a \o b
           r == SubmitIrp(x)
<1>5. r = f \o e
  BY DEF SubmitIrp, ControlTds
<1> HIDE DEF a, b, e, u
<1>6. /\ f \in Seq(T) /\ Len(f) = Len(a) + Len(b) /\ Len(b) \in Nat
      /\ \A i \in Len(a) + 1 .. Len(f) : f[i] = b[i - Len(a)]
  <2>1. a \in Seq(T) /\ b \in Seq(T) /\ f = a \o b
    BY <1>2, <1>3
  <2> HIDE DEF f
  <2>2. QED
    BY ONLY <2>1, Concat
<1> HIDE DEF f, r
<1>7. /\ r \in Seq(T) /\ Len(r) = Len(f) + Len(e) /\ Len(f) \in Nat
      /\ \A i \in 1 .. Len(f) : r[i] = f[i]
      /\ \A i \in Len(f) + 1 .. Len(r) : r[i] = e[i - Len(f)]
  <2>1. f \in Seq(T) /\ e \in Seq(T) /\ r = f \o e
    BY <1>4, <1>5, <1>6
  <2>2. QED
    BY ONLY <2>1, Concat
<1>8. Len(f) + 1 \in 1 .. Len(r) /\ r[Len(f) + 1] = u
  <2>1. Len(f) + 1 \in Len(f) + 1 .. Len(r) /\ Len(f) + 1 \in 1 .. Len(r) /\ Len(f) + 1 - Len(f) = 1
    BY <1>4, <1>7
  <2>2. QED
    BY <1>4, <1>7, <2>1
<1>9. ASSUME x.dir = "in", x.len > 0
      PROVE  2 \in 1 .. Len(r) /\ r[2].pid = "IN" /\ r[2].len > 0 /\ r[2] \in T
  <2>1. Len(b) >= 1
    BY <1>3, <1>9
  <2>2. 2 \in Len(a) + 1 .. Len(f) /\ 2 - Len(a) = 1 /\ 2 \in 1 .. Len(f)
    BY <1>2, <1>6, <2>1
  <2>3. f[2] = b[1] /\ r[2] = f[2] /\ 2 \in 1 .. Len(r)
    BY <1>4, <1>6, <1>7, <2>2
  <2>4. r[2] \in T
    BY <1>7, <2>3
  <2>5. QED
    BY <1>3, <1>9, <2>3, <2>4
<1>10. \A t \in T : t \in Tds /\ t.type = "control" /\ t.req = x.req
  BY DEF T
<1>11. r \in Seq(Tds)
  BY <1>7, <1>10
<1>12. r # <<>>
  BY <1>7, <1>8
<1>13. x.dir = "in" /\ x.len > 0 => \E i \in 1 .. Len(r) : r[i].type = "control" /\ r[i].pid = "IN" /\ r[i].len > 0
  BY <1>9, <1>10
<1>14. \E i \in 1 .. Len(r) : r[i].type = "control" /\ r[i].len = 0 /\ r[i].req = x.req
  BY <1>4, <1>8, <1>10
<1>15. QED
  BY <1>11, <1>12, <1>13, <1>14 DEF r

(* A bulk transfer is one packet with the toggle of the struct. *)
LEMMA BulkHas ==
    ASSUME TypeOK, NEW x \in Irps, x.type = "bulk"
    PROVE  /\ SubmitIrp(x) = <<Td(x, IF x.dir = "in" THEN "IN" ELSE "OUT", dev[x.dev].togl[x.ep], x.len)>>
           /\ Len(SubmitIrp(x)) = 1 /\ x.ep \in {1, 2} /\ x.dev \in Devices
<1>1. SubmitIrp(x) = BulkTds(x)
  BY DEF SubmitIrp
<1>2. x.ep \in {1, 2} /\ x.dev \in Devices
  BY DEF Irps
<1>3. QED
  BY <1>1, <1>2 DEF BulkTds

(* A TD goes to an address that was given, the pipes of a device have one *)
(* after SET_ADDRESS only, and endpoint 1 is read.                         *)
Sound(n) == {t \in Tds : /\ t.ep = 0 <=> t.type = "control"
                         /\ t.ep # 0 => t.addr # 0
                         /\ t.addr < n
                         /\ t.type = "bulk" => t.pid = IF t.ep = 1 THEN "IN" ELSE "OUT"}

(* SET_ADDRESS, with the address that is next. *)
Tells(t) == t.type = "control" /\ t.req = "address"
Silent == {t \in Tds : ~Tells(t)}
Telling(n) == {t \in Tds : Tells(t) => t.arg = n}

(* A context waits for its SET_ADDRESS. *)
Addressing == \E c \in Contexts, d \in Devices, p \in Ports : Adds(c, d, p, 3) /\ job[c][1].op = "poll"

(* The TDs of the endpoint, and those that the program has yet to enqueue. *)
Flights ==
    /\ ed # None => /\ ed.tds \in Seq(Sound(next))
                    /\ ed.tds \in Seq(Silent) \/ (ed.tds \in Seq(Telling(next)) /\ Addressing)
    /\ \A c \in Contexts : job[c] # <<>> /\ job[c][1].op = "queue" =>
          job[c][1].tds \in Seq(Sound(next)) /\ job[c][1].tds \in Seq(Silent)

(* The next address only grows, by SET_ADDRESS. *)
LEMMA NextGrows ==
    ASSUME Roomy, Inv, Inv', Shape, Names, [Next]_vars
    PROVE  /\ next \in Nat /\ next' \in Nat /\ next <= next'
           /\ (\A c \in Contexts : ~Addressed(c)) => next' = next
<1>1. next \in Nat /\ next' \in Nat
  BY UsbAssumption DEF Inv, TypeOK, Addresses
<1>2. CASE \A c \in Contexts : ~PortReset(c) /\ ~Addressed(c)
  BY <1>1, <1>2, AddrsSame
<1>3. CASE \E c \in Contexts : PortReset(c)
  BY <1>1, <1>3 DEF PortReset
<1>4. CASE \E c \in Contexts : Addressed(c)
  <2>1. next' = next + 1
    BY <1>4, NamesAddressed
  <2>2. QED
    BY <1>1, <1>4, <2>1
<1>5. QED
  BY <1>2, <1>3, <1>4

(* Sound TDs stay so. *)
LEMMA SoundLater ==
    ASSUME NEW n \in Nat, NEW m \in Nat, n <= m, NEW tds \in Seq(Sound(n))
    PROVE  tds \in Seq(Sound(m))
<1>1. \A t \in Tds : t.addr \in Nat
  BY UsbAssumption DEF Tds, Addresses
<1>2. Sound(n) \subseteq Sound(m)
  BY <1>1 DEF Sound
<1>3. QED
  BY <1>2

(* While a context runs that does not poll, no SET_ADDRESS is under way. *)
LEMMA NoTelling ==
    ASSUME TypeOK, Jobs, Shape, Flights, NEW c \in Contexts, Runs(c), job[c] # <<>>, Item(c).op # "poll", ed # None
    PROVE  ed.tds \in Seq(Silent)
<1>1. SUFFICES ASSUME Addressing PROVE FALSE
  BY DEF Flights
<1>2. PICK e \in Contexts, d \in Devices, p \in Ports : Adds(e, d, p, 3) /\ job[e][1].op = "poll"
  BY <1>1 DEF Addressing
<1>3. 3 \in 1 .. 16
  OBVIOUS
<1>4. e = c
  BY <1>2, <1>3, AddsRuns
<1>5. QED
  BY <1>2, <1>4, HeadTyped

(* The TDs of a request are sound, and tell an address if it does. *)
LEMMA SubmitSound ==
    ASSUME TypeOK, Jobs, Names, Known, NEW c \in Contexts, Submit(c)
    PROVE  /\ Item(c) \in Irps /\ job[c] # <<>> /\ Runs(c) /\ Item(c).op = "irp"
           /\ SubmitIrp(Item(c)) \in Seq(Sound(next)) /\ SubmitIrp(Item(c)) \in Seq(Telling(next))
           /\ SubmitIrp(Item(c)) \in Seq(Tds) /\ SubmitIrp(Item(c)) # <<>>
           /\ Item(c).req # "address" => SubmitIrp(Item(c)) \in Seq(Silent)
<1> DEFINE x == Item(c)
<1>1. job[c] # <<>> /\ x \in Irps /\ x.op = "irp" /\ x = job[c][1] /\ 1 \in 1 .. Len(job[c]) /\ Runs(c)
  BY HeadFits, HeadTyped, ItemTypes DEF Submit, At, Runs, Idle
<1>2. KnownAt(x, dev)
  BY <1>1 DEF Known, Carried
<1> HIDE DEF x
<1>3. /\ x.dev \in Devices /\ (x.ep = 0 <=> x.type = "control") /\ x.ep \in 0 .. 2
      /\ x.type \in {"control", "bulk", "interrupt"} /\ (x.type = "interrupt" => x.len > 0) /\ x.dir \in {"in", "out"}
  BY <1>1 DEF Irps
<1>4. dev[x.dev].addr < next /\ (x.ep # 0 => dev[x.dev].addr # 0)
  BY <1>1, <1>2, <1>3 DEF KnownAt, Names, Numbers
<1>5. ASSUME NEW pid \in {"SETUP", "IN", "OUT"}, NEW n \in Nat, NEW len \in Nat,
             x.type = "bulk" => pid = IF x.dir = "in" THEN "IN" ELSE "OUT"
      PROVE  /\ Td(x, pid, n, len) \in Sound(next) /\ Td(x, pid, n, len) \in Telling(next)
             /\ x.req # "address" => Td(x, pid, n, len) \in Silent
  <2> DEFINE t == Td(x, pid, n, len)
  <2>1. t \in Tds
    BY <1>1, TdTyped
  <2>2. t.addr = dev[x.dev].addr /\ t.ep = x.ep /\ t.type = x.type /\ t.pid = pid /\ t.req = x.req /\ t.arg = next
    BY TdFields
  <2> HIDE DEF t
  <2>3. x.type = "bulk" => t.pid = IF t.ep = 1 THEN "IN" ELSE "OUT"
    BY <1>1, <1>2, <1>5, <2>2 DEF KnownAt
  <2>4. t \in Sound(next)
    BY <1>3, <1>4, <2>1, <2>2, <2>3 DEF Sound
  <2>5. t \in Telling(next)
    BY <2>1, <2>2 DEF Telling
  <2>6. x.req # "address" => t \in Silent
    BY <2>1, <2>2 DEF Silent, Tells
  <2>7. QED
    BY <2>4, <2>5, <2>6 DEF t
<1>6. SubmitIrp(x) \in Seq(Sound(next))
  BY <1>1, <1>5, TdsOf
<1>7. SubmitIrp(x) \in Seq(Telling(next))
  BY <1>1, <1>5, TdsOf
<1>8. x.req # "address" => SubmitIrp(x) \in Seq(Silent)
  BY <1>1, <1>5, TdsOf
<1>9. SubmitIrp(x) \in Seq(Tds) /\ SubmitIrp(x) # <<>>
  BY <1>1, <1>3, SubmitTyped, SubmitNotEmpty
<1>10. QED
  BY <1>1, <1>6, <1>7, <1>8, <1>9 DEF x

(* A request that tells an address is step 3 of an enumeration. *)
LEMMA TellsStep ==
    ASSUME TypeOK, Jobs, Shape, NEW c \in Contexts, job[c] # <<>>, Item(c).op = "irp", Item(c).req = "address"
    PROVE  \E d \in Devices, p \in Ports : Adds(c, d, p, 3)
<1>1. PICK d \in Devices, p \in Ports, k \in 1 .. 16 : Adds(c, d, p, k)
  BY HeadAdds DEF Enumerating
<1>2. k \in Asks /\ Item(c) = AddDevice(d, p)[k]
  BY <1>1, AddsAt
<1>3. k = 3
  BY <1>2, AddOps
<1>4. QED
  BY <1>1, <1>3

(* The transfers of usb_submit_irp. *)
LEMMA FlightsSubmit ==
    ASSUME Roomy, Inv, Inv', Shape, Names, Known, Flights, NEW c \in Contexts, Submit(c)
    PROVE  Flights'
<1> DEFINE x == Item(c)
           tds == SubmitIrp(x)
<1>1. TypeOK /\ Jobs /\ TypeOK' /\ Jobs' /\ next' = next /\ Context(c)
  BY DEF Inv, Submit, Context
<1>2. /\ job[c] # <<>> /\ Runs(c) /\ x.op = "irp" /\ tds \in Seq(Sound(next)) /\ tds \in Seq(Telling(next))
      /\ tds \in Seq(Tds) /\ tds # <<>> /\ (x.req # "address" => tds \in Seq(Silent))
  BY <1>1, SubmitSound
<1> HIDE DEF tds
<1>3. \A e \in Contexts : e # c => job'[e] = job[e]
  BY <1>1, ContextFollows
<1>4. ed # None => ed.tds \in Seq(Silent) /\ ed.tds \in Seq(Sound(next))
  BY <1>1, <1>2, NoTelling DEF Flights
<1>5. CASE Interruptible(c)
  <2>1. ed' = ed /\ job'[c][1] = [op |-> "queue", tds |-> tds] /\ Clean(job[c])
    BY <1>1, <1>5, SubmitShape DEF Submit, tds
  <2>2. job'[c][1].tds = tds
    BY <2>1
  <2>3. x.req # "address"
    <3>1. 3 \in 1 .. 16 /\ job[c] \in Seq(Items)
      BY <1>1 DEF TypeOK
    <3>2. QED
      BY <1>1, <1>2, <2>1, <3>1, TellsStep, CleanShaped DEF Adds
  <2>4. QED
    BY <1>1, <1>2, <1>3, <1>4, <2>1, <2>2, <2>3 DEF Flights
<1>6. CASE ~Interruptible(c)
  <2>1. ed' = Joined(tds) /\ job'[c][1].op = "poll"
        /\ \A d \in Devices, p \in Ports, k \in 1 .. 16 : Adding(job'[c], d, p, k) <=> Adds(c, d, p, k)
    BY <1>1, <1>6, SubmitShape DEF Submit, tds
  <2>2. ed'.tds \in Seq(Sound(next)) /\ ed'.tds \in Seq(Telling(next)) /\ (x.req # "address" => ed'.tds \in Seq(Silent))
    <3>1. CASE ed = None
      BY <1>2, <2>1, <3>1, JoinedTyped, <1>1
    <3>2. CASE ed # None
      <4> DEFINE s == ed.tds
      <4>1. ed'.tds = s \o tds
        BY <1>1, <1>2, <2>1, <3>2, JoinedTyped
      <4>2. s \in Seq(Sound(next)) /\ s \in Seq(Silent) /\ Silent \subseteq Telling(next)
        BY <1>4, <3>2 DEF Silent, Telling
      <4> HIDE DEF s
      <4>3. s \in Seq(Telling(next))
        BY <4>2
      <4>4. s \o tds \in Seq(Sound(next)) /\ s \o tds \in Seq(Telling(next))
        BY <1>2, <4>2, <4>3
      <4>5. x.req # "address" => s \o tds \in Seq(Silent)
        BY <1>2, <4>2
      <4>6. QED
        BY <4>1, <4>4, <4>5
    <3>3. QED
      BY <3>1, <3>2
  <2>3. x.req = "address" => Addressing'
    <3>1. 3 \in 1 .. 16
      OBVIOUS
    <3>2. QED
      BY <1>1, <1>2, <2>1, <3>1, TellsStep DEF Addressing, Adds
  <2>4. QED
    BY <1>1, <1>3, <2>1, <2>2, <2>3 DEF Flights
<1>7. QED
  BY <1>5, <1>6

(* Those of hcdi_enqueue. *)
LEMMA FlightsEnqueue ==
    ASSUME Roomy, Inv, Inv', Shape, Names, Known, Flights, NEW c \in Contexts, Enqueue(c)
    PROVE  Flights'
<1> DEFINE x == Item(c)
           t == x.tds
           y == [op |-> "queue", tds |-> Tail(t)]
           one == <<Head(t)>>
<1>1. TypeOK /\ Jobs /\ TypeOK' /\ Jobs' /\ next' = next
  BY DEF Inv, Enqueue, core
<1>2. job[c] # <<>> /\ x \in Items /\ x.op = "queue" /\ t \in Seq(Tds) /\ t # <<>> /\ Runs(c) /\ x = job[c][1]
  BY <1>1, HeadFits, ItemTypes, HeadTyped DEF Enqueue, At, Runs, Idle
<1>3. ed' = Joined(one) /\ Then(c, <<y>>)
  BY DEF Enqueue
<1>4. t \in Seq(Sound(next)) /\ t \in Seq(Silent)
  BY <1>2 DEF Flights
<1> HIDE DEF t
<1>5. Tail(t) \in Seq(Tds)
  BY <1>2
<1>6. y \in Items /\ y.op = "queue" /\ y.tds = Tail(t)
  BY <1>5, SmallItems
<1>7. Tail(t) \in Seq(Sound(next)) /\ Tail(t) \in Seq(Silent) /\ Head(t) \in Sound(next) /\ Head(t) \in Silent
      /\ Head(t) \in Tds
  BY <1>2, <1>4
<1>8. one \in Seq(Tds) /\ one # <<>> /\ one \in Seq(Sound(next)) /\ one \in Seq(Silent)
  BY <1>7
<1> HIDE DEF y, one
<1>9. job'[c] # <<>> /\ job'[c][1] = y /\ \A e \in Contexts : e # c => job'[e] = job[e]
  BY <1>1, <1>2, <1>3, <1>6, HeadNext
<1>10. ed # None => ed.tds \in Seq(Silent) /\ ed.tds \in Seq(Sound(next))
  BY <1>1, <1>2, NoTelling DEF Flights
<1>11. ed'.tds \in Seq(Sound(next)) /\ ed'.tds \in Seq(Silent)
  <2>1. CASE ed = None
    BY <1>1, <1>3, <1>8, <2>1, JoinedTyped
  <2>2. CASE ed # None
    <3> DEFINE s == ed.tds
    <3>1. ed'.tds = s \o one
      BY <1>1, <1>3, <1>8, <2>2, JoinedTyped
    <3>2. s \in Seq(Sound(next)) /\ s \in Seq(Silent)
      BY <1>10, <2>2
    <3> HIDE DEF s
    <3>3. s \o one \in Seq(Sound(next)) /\ s \o one \in Seq(Silent)
      BY <1>8, <3>2
    <3>4. QED
      BY <3>1, <3>3
  <2>3. QED
    BY <2>1, <2>2
<1>12. QED
  BY <1>1, <1>6, <1>7, <1>9, <1>11 DEF Flights

(* The steps that end hcdi_fire or begin its polling. *)
LEMMA FlightsFire ==
    ASSUME TypeOK, Jobs, Shape, Flights, NEW c \in Contexts, Fire(c) \/ FireEnds(c) \/ FireEndsWild(c)
    PROVE  Flights'
<1>1. job[c] # <<>> /\ Runs(c) /\ next' = next
  BY DEF Fire, FireEnds, FireEndsWild, At, Runs, Idle, core
<1>2. CASE ed' = None /\ Then(c, <<>>)
  BY <1>1, <1>2, HeadDone DEF Flights
<1>3. CASE Fire(c) /\ ed # None
  <2> DEFINE y == [op |-> "poll"]
  <2>1. ed' = ed /\ Item(c).op = "queue" /\ Then(c, <<y>>)
    BY <1>3 DEF Fire, At
  <2>2. y \in Items /\ y.op = "poll"
    BY SmallItems
  <2> HIDE DEF y
  <2>3. job'[c] # <<>> /\ job'[c][1] = y /\ \A e \in Contexts : e # c => job'[e] = job[e]
    BY <1>1, <2>1, <2>2, HeadNext
  <2>4. ed.tds \in Seq(Silent)
    BY <1>1, <1>3, <2>1, NoTelling
  <2>5. QED
    BY <1>1, <1>3, <2>1, <2>2, <2>3, <2>4 DEF Flights
<1>4. QED
  BY <1>2, <1>3 DEF Fire, FireEnds, FireEndsWild, hc

(* A context that does something else. *)
LEMMA FlightsKept ==
    ASSUME Roomy, Inv, Inv', Shape, Names, Flights, [Next]_vars, NEW c \in Contexts, Runs(c), Follows(job'[c], job[c]),
           \A e \in Contexts : e # c => job'[e] = job[e],
           Item(c).op \notin {"irp", "queue", "poll"}, ed' = ed
    PROVE  Flights'
<1>1. TypeOK /\ Jobs /\ job[c] # <<>> /\ Item(c) = job[c][1]
  BY HeadTyped DEF Inv, Runs, Idle
<1>2. job'[c] # <<>> => job'[c][1].op # "queue"
  BY <1>1 DEF Follows
<1>3. next \in Nat /\ next' \in Nat /\ next <= next'
  BY NextGrows
<1>4. ed # None => ed.tds \in Seq(Silent) /\ ed.tds \in Seq(Sound(next'))
  BY <1>1, <1>3, NoTelling, SoundLater DEF Flights
<1>5. ASSUME NEW e \in Contexts, job'[e] # <<>>, job'[e][1].op = "queue"
      PROVE  job'[e][1].tds \in Seq(Sound(next')) /\ job'[e][1].tds \in Seq(Silent)
  <2>1. job[e] = job'[e]
    BY <1>2, <1>5
  <2>2. job[e][1].tds \in Seq(Sound(next)) /\ job[e][1].tds \in Seq(Silent)
    BY <1>5, <2>1 DEF Flights
  <2>3. QED
    BY <1>3, <2>1, <2>2, SoundLater
<1>6. QED
  BY <1>4, <1>5 DEF Flights

(* The handler and a call of the program begin without a transfer. *)
LEMMA FlightsElse ==
    ASSUME Inv, Inv', Shape, Flights, HcdiIrq \/ Main
    PROVE  Flights'
<1>1. TypeOK /\ Jobs /\ ed' = ed /\ next' = next
  BY DEF Inv, HcdiIrq, Main, Call, hc, core
<1>2. ~Addressing
  <2>1. NoAdds /\ 3 \in 1 .. 16
    BY AddsElse
  <2>2. QED
    BY <2>1 DEF NoAdds, Addressing
<1>3. ASSUME NEW e \in Contexts, job'[e] # <<>>, job'[e][1].op = "queue"
      PROVE  job'[e] = job[e]
  <2>0. job'[e] \in Seq(Items) /\ 1 \in 1 .. Len(job'[e])
    BY <1>3 DEF Inv, TypeOK
  <2>1. CASE HcdiIrq
    BY <1>1, <1>3, <2>0, <2>1, HandlerClean DEF Contexts
  <2>2. CASE Main
    <3>1. job'["irq"] = job["irq"]
      BY <1>1, <2>2, CallClean DEF Main
    <3>2. PICK x \in Items : x.op = "irp" /\ job'["main"] = <<x>>
      BY <1>1, <2>2, CallClean DEF Main
    <3>3. job'["main"][1] = x
      BY <3>2
    <3>4. QED
      BY <1>3, <3>1, <3>2, <3>3 DEF Contexts
  <2>3. QED
    BY <2>1, <2>2
<1>4. QED
  BY <1>1, <1>2, <1>3 DEF Flights

(* The controller retires TDs. *)
LEMMA FlightsSame ==
    ASSUME Inv, Flights, Executes \/ Halts \/ World \/ UNCHANGED vars
    PROVE  Flights'
<1>1. TypeOK /\ Jobs /\ job' = job
  BY WorldSteps DEF Inv
<1>2. next' = next /\ (Addressing => Addressing')
  <2>1. next' = next
    BY DEF Executes, Halts, World, Plug, Unplug, Press, vars, core
  <2>2. Addressing => Addressing'
    BY <1>1 DEF Addressing, Adds
  <2>3. QED
    BY <2>1, <2>2
<1>3. CASE ed' = ed
  BY <1>1, <1>2, <1>3 DEF Flights
<1>4. CASE Executes
  <2>1. ed # None /\ ed.tds # <<>> /\ ed'.tds \in {ed.tds, Tail(ed.tds), <<>>}
    BY <1>1, <1>4, ExecutesStep
  <2> DEFINE s == ed.tds
  <2>2. ASSUME NEW S, s \in Seq(S) PROVE ed'.tds \in Seq(S)
    <3>1. s # <<>> /\ ed'.tds \in {s, Tail(s), <<>>}
      BY <2>1
    <3> HIDE DEF s
    <3>2. Tail(s) \in Seq(S) /\ <<>> \in Seq(S)
      BY <2>2, <3>1
    <3>3. QED
      BY <2>2, <3>1, <3>2
  <2>3. s \in Seq(Sound(next)) /\ (s \in Seq(Silent) \/ (s \in Seq(Telling(next)) /\ Addressing))
    BY <2>1 DEF Flights
  <2>4. ed'.tds \in Seq(Sound(next)) /\ (ed'.tds \in Seq(Silent) \/ (ed'.tds \in Seq(Telling(next)) /\ Addressing'))
    BY <1>2, <2>2, <2>3
  <2>5. QED
    BY <1>1, <1>2, <2>4 DEF Flights
<1>5. QED
  BY <1>3, <1>4 DEF Halts, World, Plug, Unplug, Press, vars

(* In all steps. *)
LEMMA FlightsNext == ASSUME Roomy, Inv, Inv', Shape, Names, Known, Flights, [Next]_vars PROVE Flights'
<1>1. TypeOK /\ Jobs
  BY DEF Inv
<1>2. ASSUME NEW c \in Contexts, Context(c) \/ FireEndsWild(c) PROVE Flights'
  <2>1. /\ Runs(c) /\ Follows(job'[c], job[c]) /\ \A e \in Contexts : e # c => job'[e] = job[e]
    BY <1>2, ContextFollows
  <2>2. CASE Submit(c)
    BY <2>2, FlightsSubmit
  <2>3. CASE Enqueue(c)
    BY <2>3, FlightsEnqueue
  <2>4. CASE Fire(c) \/ FireEnds(c) \/ FireEndsWild(c)
    BY <1>1, <2>4, FlightsFire
  <2>5. CASE SetupPort(c) \/ EnablePort(c) \/ PortReset(c) \/ Check(c) \/ Addressed(c) \/ Parse(c)
             \/ ListDevice(c) \/ Connect(c) \/ Probe(c) \/ Found(c) \/ Try(c)
             \/ Register(c) \/ Enable(c) \/ Acknowledge(c)
    <3>1. Item(c).op \notin {"irp", "queue", "poll"}
      BY <2>5 DEF SetupPort, EnablePort, PortReset, Check, Addressed, Parse, ListDevice, Connect, Probe, Found,
                  Try, Register, Enable, Acknowledge, At
    <3>2. ed' = ed
      BY <2>5 DEF SetupPort, EnablePort, PortReset, Check, Addressed, Parse, ListDevice, Connect, Probe, Found,
                  Try, Register, Enable, Acknowledge, hc
    <3>3. QED
      BY <2>1, <3>1, <3>2, FlightsKept
  <2>6. QED
    BY <1>2, <2>2, <2>3, <2>4, <2>5 DEF Context
<1>3. CASE HcdiIrq \/ Main
  BY <1>3, FlightsElse
<1>4. CASE Executes \/ Halts \/ World \/ UNCHANGED vars
  BY <1>4, FlightsSame
<1>5. QED
  BY <1>2, <1>3, <1>4 DEF Next

(* Initially there are no TDs. *)
LEMMA FlightsInit == ASSUME Init PROVE Flights
<1>1. ed = None
  BY DEF Init
<1>2. ASSUME NEW c \in Contexts, job[c] # <<>> PROVE job[c][1].op # "queue"
  <2>1. job[c] \in Seq(Items)
    BY ShapeInit
  <2>2. 1 \in 1 .. Len(job[c])
    BY ONLY <1>2, <2>1
  <2>3. QED
    BY <2>2, ShapeInit
<1>3. QED
  BY <1>1, <1>2 DEF Flights

-----------------------------------------------------------------------------
(* Who answers on the bus.                                                 *)

(* Who answers to an address, and a port on which nothing was transferred. *)
Answers(p, a) == port[p].dev # None /\ port[p].pes /\ port[p].addr = a
New(p) == port[p].in = 0 /\ port[p].out = 0

(* The wires of a port are as they were. *)
SameWires(p) == /\ port'[p].dev = port[p].dev /\ port'[p].pes = port[p].pes /\ port'[p].addr = port[p].addr
                /\ port'[p].in = port[p].in /\ port'[p].out = port[p].out

(* SET_ADDRESS in a control transfer. *)
Tell(tds) == \E i \in 1 .. Len(tds) : tds[i].type = "control" /\ tds[i].len = 0 /\ tds[i].req = "address"
Ask(tds) == \E i \in 1 .. Len(tds) : tds[i].type = "control" /\ tds[i].pid = "IN" /\ tds[i].len > 0

(* What a control transfer does to the device that it goes to. *)
LEMMA ControlledAddr ==
    ASSUME NEW q \in RootPorts, NEW tds \in Seq(Tds), NEW n
    PROVE  LET r == Controlled(q, tds)
           IN  /\ r.dev = q.dev /\ r.pes = q.pes /\ r.in = q.in /\ r.out = q.out
               /\ tds \in Seq(Silent) => r.addr = q.addr
               /\ tds \in Seq(Telling(n)) => r.addr \in {q.addr, n} /\ (Tell(tds) => r.addr = n)
<1> DEFINE told(req) == {i \in DOMAIN tds : tds[i].type = "control" /\ tds[i].len = 0 /\ tds[i].req = req}
           m == Len(tds)
           A == told("address")
           last == CHOOSE i \in A : \A j \in A : j <= i
           a == IF A = {} THEN q.addr ELSE tds[last].arg
           f == IF told("reset") = {} THEN q.phase ELSE "command"
           r == [q EXCEPT !.addr = a, !.phase = f]
<1>1. m \in Nat /\ DOMAIN tds = 1 .. m /\ A \subseteq 1 .. m
  OBVIOUS
<1>2. Controlled(q, tds) = r
  BY DEF Controlled, RootPorts
<1>3. r.addr = a /\ r.dev = q.dev /\ r.pes = q.pes /\ r.in = q.in /\ r.out = q.out
  <2> HIDE DEF a, f
  <2>1. QED
    BY DEF RootPorts
<1>4. A # {} => last \in A
  <2> HIDE DEF A, m
  <2>1. QED
    BY <1>1, Greatest
<1>5. A # {} <=> Tell(tds)
  BY <1>1 DEF Tell
<1>6. \A i \in A : Tells(tds[i]) /\ i \in 1 .. m
  BY <1>1 DEF Tells
<1>7. ASSUME tds \in Seq(Silent) PROVE A = {}
  <2>1. \A i \in 1 .. m : tds[i] \in Silent
    BY <1>7
  <2>2. QED
    BY <1>6, <2>1 DEF Silent
<1>8. ASSUME tds \in Seq(Telling(n)), A # {} PROVE a = n
  <2>1. \A i \in 1 .. m : tds[i] \in Telling(n)
    BY <1>8
  <2>2. last \in A /\ Tells(tds[last]) /\ tds[last] \in Telling(n)
    BY <1>4, <1>6, <1>8, <2>1
  <2> HIDE DEF last, A
  <2>3. tds[last].arg = n
    BY <2>2 DEF Telling
  <2>4. QED
    BY <1>8, <2>3
<1>9. A = {} => a = q.addr
  OBVIOUS
<1> HIDE DEF A, a, r
<1>10. QED
  BY <1>2, <1>3, <1>5, <1>7, <1>8, <1>9

(* What the controller does, to the devices that answer. *)
LEMMA ExecutesPorts ==
    ASSUME TypeOK, Jobs, Executes
    PROVE  /\ ed # None /\ ed.tds \in Seq(Tds) /\ ed.tds # <<>> /\ ed'.addr = ed.addr /\ ed'.ep = ed.ep /\ ed' # None
           /\ \/ /\ ed.ep = 0 /\ ed'.tds = <<>>
                 /\ (Ask(ed.tds) => gbuf' # None) /\ (gbuf' = gbuf \/ gbuf' \in Answering)
                 /\ \A q \in Ports : IF q \in Answering THEN port'[q] = Controlled(port[q], ed.tds) ELSE port'[q] = port[q]
              \/ /\ ed.ep # 0 /\ gbuf' = gbuf
                 /\ \E p \in Answering :
                       /\ \A q \in Ports : q # p => port'[q] = port[q]
                       /\ \/ /\ port'[p] = Written(port[p], Head(ed.tds)) /\ ed'.tds = Tail(ed.tds)
                             /\ Head(ed.tds).pid = "OUT" /\ Head(ed.tds).type # "control"
                          \/ /\ port'[p] = Sent(port[p]) /\ Head(ed.tds).pid = "IN" /\ Head(ed.tds).type # "control"
                             /\ HasData(port[p])
                             /\ ed'.tds = IF Head(ed.tds).togl = port[p].in THEN Tail(ed.tds) ELSE ed.tds
<1> DEFINE p == CHOOSE q \in Answering : TRUE
           td == Head(ed.tds)
<1>1. /\ ed # None /\ ed \in Endpoints /\ ed.tds \in Seq(Tds) /\ ed.tds # <<>> /\ Answering # {} /\ Answering \subseteq Ports
      /\ port \in [Ports -> RootPorts]
  BY DEF Executes, TypeOK, Endpoints, Answering
<1>2. ed'.addr = ed.addr /\ ed'.ep = ed.ep /\ ed' # None
  <2>1. ed'.addr = ed.addr /\ ed'.ep = ed.ep
    BY ExecutesStep
  <2>2. ed' = [ed EXCEPT !.tds = <<>>] \/ ed' = [ed EXCEPT !.tds = Tail(@)] \/ ed' = ed
    BY DEF Executes
  <2>3. \A s \in Seq(Tds) : [ed EXCEPT !.tds = s] \in Endpoints
    BY <1>1 DEF Endpoints
  <2>4. <<>> \in Seq(Tds) /\ Tail(ed.tds) \in Seq(Tds)
    BY <1>1
  <2>5. ed' = [ed EXCEPT !.tds = <<>>] \/ ed' = [ed EXCEPT !.tds = Tail(ed.tds)] \/ ed' = ed
    BY <2>2
  <2>6. ed' \in Endpoints
    BY <1>1, <2>3, <2>4, <2>5
  <2>7. QED
    BY <2>1, <2>6, NoEndpoint
<1>3. p \in Answering /\ p \in Ports
  BY <1>1
<1>4. \A s : [ed EXCEPT !.tds = s].tds = s
  BY <1>1 DEF Endpoints
<1>5. \/ /\ ed.ep = 0
         /\ ed' = [ed EXCEPT !.tds = <<>>]
         /\ port' = [q \in Ports |-> IF q \in Answering THEN Controlled(port[q], ed.tds) ELSE port[q]]
         /\ gbuf' = IF \E i \in DOMAIN ed.tds : ed.tds[i].type = "control" /\ ed.tds[i].pid = "IN" /\ ed.tds[i].len > 0
                    THEN p ELSE gbuf
      \/ /\ ed.ep # 0 /\ td.pid = "OUT" /\ td.type # "control" /\ ed' = [ed EXCEPT !.tds = Tail(@)]
         /\ port' = [port EXCEPT ![p] = Written(@, td)] /\ gbuf' = gbuf
      \/ /\ ed.ep # 0 /\ td.pid = "IN" /\ td.type # "control" /\ HasData(port[p])
         /\ port' = [port EXCEPT ![p] = Sent(@)]
         /\ IF td.togl = port[p].in THEN ed' = [ed EXCEPT !.tds = Tail(@)] ELSE ed' = ed
         /\ gbuf' = gbuf
  BY DEF Executes
<1> HIDE DEF p, td
<1>6. CASE /\ ed.ep = 0
           /\ ed' = [ed EXCEPT !.tds = <<>>]
           /\ port' = [q \in Ports |-> IF q \in Answering THEN Controlled(port[q], ed.tds) ELSE port[q]]
           /\ gbuf' = IF \E i \in DOMAIN ed.tds : ed.tds[i].type = "control" /\ ed.tds[i].pid = "IN" /\ ed.tds[i].len > 0
                      THEN p ELSE gbuf
  <2>1. DOMAIN ed.tds = 1 .. Len(ed.tds)
    BY <1>1
  <2>2. None \notin Ports
    BY UsbAssumption DEF Ports
  <2>3. (Ask(ed.tds) => gbuf' # None) /\ (gbuf' = gbuf \/ gbuf' \in Answering)
    BY <1>3, <1>6, <2>1, <2>2 DEF Ask
  <2>4. ed'.tds = <<>>
    BY <1>4, <1>6
  <2>5. QED
    BY <1>1, <1>2, <1>6, <2>3, <2>4
<1>7. CASE /\ ed.ep # 0 /\ td.pid = "OUT" /\ td.type # "control" /\ ed' = [ed EXCEPT !.tds = Tail(@)]
           /\ port' = [port EXCEPT ![p] = Written(@, td)] /\ gbuf' = gbuf
  <2>1. ed'.tds = Tail(ed.tds)
    BY <1>4, <1>7
  <2>2. port'[p] = Written(port[p], td) /\ \A q \in Ports : q # p => port'[q] = port[q]
    BY <1>1, <1>3, <1>7
  <2>3. QED
    BY <1>1, <1>2, <1>3, <1>7, <2>1, <2>2 DEF td
<1>8. CASE /\ ed.ep # 0 /\ td.pid = "IN" /\ td.type # "control" /\ HasData(port[p])
           /\ port' = [port EXCEPT ![p] = Sent(@)]
           /\ IF td.togl = port[p].in THEN ed' = [ed EXCEPT !.tds = Tail(@)] ELSE ed' = ed
           /\ gbuf' = gbuf
  <2>1. ed'.tds = IF td.togl = port[p].in THEN Tail(ed.tds) ELSE ed.tds
    BY <1>4, <1>8
  <2>2. port'[p] = Sent(port[p]) /\ \A q \in Ports : q # p => port'[q] = port[q]
    BY <1>1, <1>3, <1>8
  <2>3. QED
    BY <1>1, <1>2, <1>3, <1>8, <2>1, <2>2 DEF td
<1>9. QED
  BY <1>5, <1>6, <1>7, <1>8

(* A port is enabled only with a device; before that nothing has happened *)
(* on it, and then the device has no address that was not given.           *)
Wires ==
    /\ \A p \in Ports : port[p].pes => port[p].dev # None /\ port[p].addr <= next
    /\ \A p \in Ports : port[p].dev # None /\ ~port[p].pes => port[p].addr = 0 /\ New(p)

Enabled(p) == \E c \in Contexts :
    /\ EnablePort(c) /\ Item(c).port = p /\ port[p].dev # None
    /\ port'[p].dev = port[p].dev /\ port'[p].pes /\ port'[p].addr = port[p].addr
    /\ port'[p].in = port[p].in /\ port'[p].out = port[p].out
ResetTo(p) == \E c \in Contexts :
    /\ PortReset(c) /\ Item(c).port = p /\ port[p].dev # None
    /\ port'[p].dev = port[p].dev /\ port'[p].pes /\ port'[p].addr = 0 /\ port'[p].in = 0 /\ port'[p].out = 0
Plugged(p) ==
    /\ port[p].dev = None /\ port'[p].dev # None /\ ~port'[p].pes
    /\ port'[p].addr = 0 /\ port'[p].in = 0 /\ port'[p].out = 0
Pulled(p) == port'[p].dev = None /\ ~port'[p].pes
Served(p) ==
    /\ Executes /\ p \in Answering /\ port'[p].dev = port[p].dev /\ port'[p].pes = port[p].pes
    /\ IF ed.ep = 0 THEN /\ port'[p].in = port[p].in /\ port'[p].out = port[p].out
                         /\ port'[p].addr \in {port[p].addr, next}
       ELSE port'[p].addr = port[p].addr

(* Most steps of a context leave the wires alone. *)
LEMMA ContextWires ==
    ASSUME TypeOK, Jobs, NEW c \in Contexts, Context(c) \/ FireEndsWild(c), NEW p \in Ports
    PROVE  \/ SameWires(p)
           \/ EnablePort(c) /\ Enabled(p)
           \/ PortReset(c) /\ ResetTo(p)
<1>1. port \in [Ports -> RootPorts]
  BY DEF TypeOK
<1>2. CASE SetupPort(c)
  <2>1. port' = port \/ port' = [port EXCEPT ![Item(c).port].csc = FALSE]
    BY <1>2 DEF SetupPort
  <2>2. QED
    BY <1>1, <2>1 DEF SameWires, RootPorts
<1>3. CASE EnablePort(c)
  <2>1. port' = port \/ (port[Item(c).port].dev # None /\ port' = [port EXCEPT ![Item(c).port].pes = TRUE])
    BY <1>3 DEF EnablePort
  <2>2. CASE port' = port
    BY <2>2 DEF SameWires
  <2>3. CASE port[Item(c).port].dev # None /\ port' = [port EXCEPT ![Item(c).port].pes = TRUE]
    <3>1. CASE p = Item(c).port
      <4>1. /\ port'[p].dev = port[p].dev /\ port'[p].pes /\ port'[p].addr = port[p].addr
            /\ port'[p].in = port[p].in /\ port'[p].out = port[p].out
        BY <1>1, <2>3, <3>1 DEF RootPorts
      <4>2. QED
        BY <1>3, <2>3, <3>1, <4>1 DEF Enabled
    <3>2. CASE p # Item(c).port
      BY <1>1, <2>3, <3>2 DEF SameWires
    <3>3. QED
      BY <3>1, <3>2
  <2>4. QED
    BY <2>1, <2>2, <2>3
<1>4. CASE PortReset(c)
  <2> DEFINE r == Item(c).port
             o == port[r]
             new == [o EXCEPT !.addr = 0, !.out = 0, !.in = 0, !.phase = "command", !.pes = TRUE]
  <2>1. port[r].dev # None /\ port' = [port EXCEPT ![r] = new]
    BY <1>1, <1>4 DEF PortReset
  <2>2. CASE p = r
    <3>1. port'[p] = new /\ o \in RootPorts
      BY <1>1, <2>1, <2>2
    <3> HIDE DEF o
    <3>2. new.dev = o.dev /\ new.pes /\ new.addr = 0 /\ new.in = 0 /\ new.out = 0
      BY <3>1 DEF RootPorts
    <3> HIDE DEF new
    <3>3. ResetTo(p)
      BY <1>4, <2>1, <2>2, <3>1, <3>2 DEF ResetTo, o
    <3>4. QED
      BY <1>4, <3>3
  <2>3. CASE p # r
    BY <1>1, <2>1, <2>3 DEF SameWires
  <2>4. QED
    BY <2>2, <2>3
<1>5. CASE ~SetupPort(c) /\ ~EnablePort(c) /\ ~PortReset(c)
  <2>1. port' = port
    BY <1>5 DEF Context, Submit, Enqueue, Fire, FireEnds, FireEndsWild, Check, Addressed, Parse,
                ListDevice, Connect, Probe, Found, Try, Register, Enable, Acknowledge, hc
  <2>2. QED
    BY <2>1 DEF SameWires
<1>6. QED
  BY <1>2, <1>3, <1>4, <1>5

(* What a packet does to the device that it goes to. *)
LEMMA PacketWires ==
    ASSUME TypeOK, Jobs, Flights, Executes, NEW p \in Ports
    PROVE  IF p \in Answering THEN Served(p) ELSE SameWires(p)
<1>1. port \in [Ports -> RootPorts] /\ port[p] \in RootPorts
  BY DEF TypeOK
<1>2. /\ ed # None /\ ed.tds \in Seq(Tds) /\ ed.tds # <<>>
      /\ (ed.tds \in Seq(Silent) \/ ed.tds \in Seq(Telling(next)))
  BY ExecutesPorts DEF Flights
<1>3. CASE /\ ed.ep = 0
           /\ \A q \in Ports : IF q \in Answering THEN port'[q] = Controlled(port[q], ed.tds) ELSE port'[q] = port[q]
  <2>1. LET r == Controlled(port[p], ed.tds)
        IN  /\ r.dev = port[p].dev /\ r.pes = port[p].pes /\ r.in = port[p].in /\ r.out = port[p].out
            /\ r.addr \in {port[p].addr, next}
    BY <1>1, <1>2, ControlledAddr
  <2>2. QED
    BY <1>3, <2>1 DEF Served, SameWires
<1>4. CASE /\ ed.ep # 0
           /\ \E r \in Answering :
                 /\ \A q \in Ports : q # r => port'[q] = port[q]
                 /\ port'[r] = Written(port[r], Head(ed.tds)) \/ port'[r] = Sent(port[r])
  <2>1. PICK r \in Answering : /\ \A q \in Ports : q # r => port'[q] = port[q]
                               /\ port'[r] = Written(port[r], Head(ed.tds)) \/ port'[r] = Sent(port[r])
    BY <1>4
  <2>2. Head(ed.tds) \in Tds
    BY <1>2
  <2>3. CASE p = r
    <3>1. LET w == Written(port[p], Head(ed.tds))
          IN  w.dev = port[p].dev /\ w.pes = port[p].pes /\ w.addr = port[p].addr
      BY <1>1, <2>2, WrittenTyped
    <3>2. LET w == Sent(port[p])
          IN  w.dev = port[p].dev /\ w.pes = port[p].pes /\ w.addr = port[p].addr
      BY <1>1, SentTyped
    <3>3. port'[p].dev = port[p].dev /\ port'[p].pes = port[p].pes /\ port'[p].addr = port[p].addr
      BY <2>1, <2>3, <3>1, <3>2
    <3>4. QED
      BY <1>4, <2>1, <2>3, <3>3 DEF Served
  <2>4. CASE p # r
    <3>1. port'[p] = port[p]
      BY <2>1, <2>4
    <3>2. SameWires(p)
      BY <3>1 DEF SameWires
    <3>3. QED
      BY <1>4, <3>2 DEF Served, SameWires
  <2>5. QED
    BY <2>3, <2>4
<1>5. QED
  BY <1>3, <1>4, ExecutesPorts

(* What becomes of a port in a step. *)
LEMMA PortEffect ==
    ASSUME Inv, Flights, [Next]_vars, NEW p \in Ports
    PROVE  SameWires(p) \/ Enabled(p) \/ ResetTo(p) \/ Plugged(p) \/ Pulled(p) \/ Served(p)
<1>1. TypeOK /\ Jobs /\ port \in [Ports -> RootPorts]
  BY DEF Inv, TypeOK
<1>2. CASE \E c \in Contexts : Context(c) \/ FireEndsWild(c)
  BY <1>1, <1>2, ContextWires
<1>3. CASE Executes
  BY <1>1, <1>3, PacketWires
<1>4. CASE Main \/ HcdiIrq \/ Halts \/ UNCHANGED vars
  BY <1>4 DEF SameWires, Main, Call, HcdiIrq, Halts, vars, hc
<1>5. ASSUME NEW r \in Ports, NEW k \in Kinds, Plug(r, k) PROVE SameWires(p) \/ Plugged(p)
  <2>1. None \notin Kinds
    BY UsbAssumption
  <2> DEFINE new == [dev |-> k, csc |-> TRUE, pes |-> FALSE, addr |-> 0,
                     out |-> 0, in |-> 0, phase |-> "command", report |-> FALSE]
  <2>2. port[r].dev = None /\ port' = [port EXCEPT ![r] = new]
    BY <1>5 DEF Plug
  <2>3. new.dev = k /\ ~new.pes /\ new.addr = 0 /\ new.in = 0 /\ new.out = 0
    OBVIOUS
  <2> HIDE DEF new
  <2>4. CASE p = r
    BY <1>1, <2>1, <2>2, <2>3, <2>4 DEF Plugged
  <2>5. CASE p # r
    BY <1>1, <2>2, <2>5 DEF SameWires
  <2>6. QED
    BY <2>4, <2>5
<1>6. ASSUME NEW r \in Ports, Unplug(r) PROVE SameWires(p) \/ Pulled(p)
  <2> DEFINE o == port[r]
             new == [o EXCEPT !.dev = None, !.csc = TRUE, !.pes = FALSE]
  <2>1. o \in RootPorts /\ port' = [port EXCEPT ![r] = new]
    BY <1>1, <1>6 DEF Unplug
  <2> HIDE DEF o
  <2>2. new.dev = None /\ ~new.pes
    BY <2>1 DEF RootPorts
  <2> HIDE DEF new
  <2>3. CASE p = r
    BY <1>1, <2>1, <2>2, <2>3 DEF Pulled
  <2>4. CASE p # r
    BY <1>1, <2>1, <2>4 DEF SameWires
  <2>5. QED
    BY <2>3, <2>4
<1>7. ASSUME NEW r \in Ports, Press(r) PROVE SameWires(p)
  <2>1. port' = [port EXCEPT ![r].report = TRUE]
    BY <1>7 DEF Press
  <2>2. QED
    BY <1>1, <2>1 DEF SameWires, RootPorts
<1>8. QED
  BY <1>2, <1>3, <1>4, <1>5, <1>6, <1>7 DEF Next, World

(* In all steps. *)
LEMMA WiresNext ==
    ASSUME Roomy, Inv, Inv', Shape, Names, Flights, Wires, [Next]_vars
    PROVE  Wires'
<1>1. TypeOK /\ TypeOK' /\ next \in Nat /\ next' \in Nat /\ next <= next'
  BY NextGrows DEF Inv
<1>2. \A p \in Ports : port[p].addr \in Nat /\ port'[p].addr \in Nat
  BY SMTT(20), <1>1, UsbAssumption DEF TypeOK, RootPorts, Addresses
<1>3. ASSUME NEW p \in Ports
      PROVE  /\ port'[p].pes => port'[p].dev # None /\ port'[p].addr <= next'
             /\ port'[p].dev # None /\ ~port'[p].pes => port'[p].addr = 0 /\ port'[p].in = 0 /\ port'[p].out = 0
  <2>0. /\ port[p].pes => port[p].dev # None /\ port[p].addr <= next
        /\ port[p].dev # None /\ ~port[p].pes => port[p].addr = 0 /\ port[p].in = 0 /\ port[p].out = 0
    BY DEF Wires, New
  <2>1. CASE SameWires(p)
    BY <1>1, <1>2, <2>0, <2>1 DEF SameWires
  <2>2. CASE Enabled(p)
    BY <1>1, <1>2, <2>0, <2>2 DEF Enabled
  <2>3. CASE ResetTo(p)
    BY <1>1, <1>2, <2>3 DEF ResetTo
  <2>4. CASE Plugged(p) \/ Pulled(p)
    BY <2>4 DEF Plugged, Pulled
  <2>5. CASE Served(p)
    BY <1>1, <1>2, <2>0, <2>5 DEF Served, Answering
  <2>6. QED
    BY <2>1, <2>2, <2>3, <2>4, <2>5, PortEffect
<1>4. QED
  BY <1>3 DEF Wires, New

(* Initially no port is enabled. *)
LEMMA WiresInit == ASSUME Init PROVE Wires
<1>1. PICK k \in Kinds \cup {None} :
          port = [p \in Ports |-> IF p = 1 /\ k # None THEN [EmptyPort EXCEPT !.dev = k, !.csc = TRUE] ELSE EmptyPort]
  BY DEF Init
<1>2. \A p \in Ports : ~port[p].pes /\ port[p].addr = 0 /\ port[p].in = 0 /\ port[p].out = 0
  BY <1>1 DEF EmptyPort
<1>3. QED
  BY <1>2 DEF Wires, New

(* Nobody starts to answer to an address that was given before. *)
LEMMA AnswersBack ==
    ASSUME Roomy, Inv, Inv', Shape, Names, Flights, Wires, [Next]_vars, NEW p \in Ports, NEW a \in 1 .. next - 1,
           Answers(p, a)'
    PROVE  /\ Answers(p, a) /\ port'[p].dev = port[p].dev
           /\ (Executes /\ ed.ep # 0) \/ (port'[p].in = port[p].in /\ port'[p].out = port[p].out)
<1>1. TypeOK /\ next \in Nat /\ a \in Nat /\ a < next /\ a # 0
  BY NextGrows DEF Inv
<1>2. port'[p].dev # None /\ port'[p].pes /\ port'[p].addr = a
  BY DEF Answers
<1>3. CASE SameWires(p)
  BY <1>2, <1>3 DEF SameWires, Answers
<1>4. CASE Enabled(p)
  BY <1>1, <1>2, <1>4 DEF Enabled, Wires, Answers
<1>5. CASE ResetTo(p) \/ Plugged(p) \/ Pulled(p)
  BY <1>1, <1>2, <1>5 DEF ResetTo, Plugged, Pulled
<1>6. CASE Served(p)
  BY <1>1, <1>2, <1>6 DEF Served, Answers
<1>7. QED
  BY <1>3, <1>4, <1>5, <1>6, PortEffect

-----------------------------------------------------------------------------
(* The bus while nothing goes wrong.                                       *)

(* No error on the bus, and no transfer of the handler inside one of the program. *)
Calm == errors = 0 /\ ~raced

Free(a) == \A p \in Ports : ~Answers(p, a)
Resets(c, p) == job[c] # <<>> /\ job[c][1].op = "reset" /\ job[c][1].port = p

(* Who answers to address 0 is being enumerated and has not got an address; *)
(* who answers to the next address has got it, and the core does not know.  *)
Opening(p) == \E c \in Contexts : Resets(c, p) \/ \E d \in Devices, k \in 1 .. 3 : Adds(c, d, p, k)
Told(c) == job[c][1].op = "poll" /\ ed # None /\ ed.tds = <<>>
Renamed(p) == \E c \in Contexts, d \in Devices : Adds(c, d, p, 4) \/ (Adds(c, d, p, 3) /\ Told(c))

(* What an enumeration waits for, and what it knows by the answer: that the *)
(* device has answered, or that there is none at address 0 any more.        *)
Asked(d, k) ==
    /\ ed # None /\ ed.addr = dev[d].addr /\ ed.ep = 0
    /\ k = 1 => IF ed.tds = <<>> THEN gbuf # None ELSE Ask(ed.tds)
    /\ k = 3 => IF ed.tds = <<>> THEN Free(0) ELSE Tell(ed.tds)
Stage(c, d, k) == /\ job[c][1].op = "poll" => Asked(d, k)
                  /\ (k = 2 /\ gbuf = None) \/ k = 4 => Free(0)

Untouched == \A p \in Ports : port[p].pes /\ port[p].addr \in {0, next} => New(p)
Starting == \A p \in Ports : Answers(p, 0) => Opening(p)
Newest == \A p \in Ports : Answers(p, next) => Renamed(p)
Distinct == \A p, q \in Ports, a \in Addresses : Answers(p, a) /\ Answers(q, a) => p = q
Dead == halted => ed # None /\ Free(ed.addr)
Stages == \A c \in Contexts, d \in Devices, p \in Ports, k \in 1 .. 16 : Adds(c, d, p, k) => Stage(c, d, k)
Lines == Untouched /\ Starting /\ Newest /\ Distinct /\ Dead /\ Stages
Bus == Calm => Lines

(* A context that runs and does not transfer has the endpoint for itself. *)
LEMMA EdNone ==
    ASSUME Owned, ~raced, NEW c \in Contexts, Runs(c), Item(c).op \notin {"queue", "poll"}
    PROVE  ed = None
  BY DEF Owned, Unshared, InTransfer, Runs, Idle, Contexts

(* The port that is reset is that of the context that runs. *)
LEMMA ResetRuns ==
    ASSUME TypeOK, Jobs, NEW c \in Contexts, Runs(c), NEW e \in Contexts, NEW p \in Ports, Resets(e, p)
    PROVE  e = c /\ Item(c).op = "reset" /\ Item(c).port = p
<1>1. Item(e) = job[e][1] /\ job[c] # <<>> /\ job[e] # <<>> /\ 1 \in 1 .. Len(job[c])
  BY HeadTyped DEF Resets, Runs, Idle
<1>2. ASSUME e # c PROVE FALSE
  <2>1. e = "irq" /\ c = "main"
    BY <1>1, <1>2, Alone DEF Resets
  <2>2. QED
    BY <1>1, <2>1 DEF Runs, Idle
<1>3. QED
  BY <1>1, <1>2 DEF Resets

(* No port is reset during an enumeration. *)
LEMMA ResetAdds ==
    ASSUME TypeOK, Jobs, NEW c \in Contexts, NEW d \in Devices, NEW p \in Ports, NEW k \in 1 .. 16,
           Adds(c, d, p, k), NEW e \in Contexts, NEW q \in Ports, Resets(e, q)
    PROVE  FALSE
<1>1. Item(c) = job[c][1] /\ job[c] # <<>> /\ Item(c).op # "reset"
  BY AddsHead, AddsAt
<1>2. job[e] # <<>> /\ Item(e) = job[e][1] /\ Item(e).op = "reset" /\ 1 \in 1 .. Len(job[c])
  BY <1>1, HeadTyped DEF Resets
<1>3. e # c
  BY <1>1, <1>2
<1>4. e = "irq" /\ c = "main"
  BY <1>1, <1>2, <1>3, Alone
<1>5. irqOn
  BY <1>2, <1>4, HeadFits
<1>6. QED
  BY <1>4, <1>5, AddsMasked

(* Without an enumeration nobody answers to address 0 or to the next one. *)
LEMMA Quiet ==
    ASSUME TypeOK, Jobs, Lines, NoAdds, \A c \in Contexts, p \in Ports : ~Resets(c, p)
    PROVE  Free(0) /\ Free(next)
<1>1. 1 .. 3 \subseteq 1 .. 16 /\ 3 \in 1 .. 16 /\ 4 \in 1 .. 16
  OBVIOUS
<1>2. \A p \in Ports : ~Opening(p) /\ ~Renamed(p)
  BY <1>1 DEF Opening, Renamed, NoAdds
<1>3. QED
  BY <1>2 DEF Lines, Starting, Newest, Free

(* With one it is its device alone. *)
LEMMA Busy ==
    ASSUME TypeOK, Jobs, Shape, Lines, NEW c \in Contexts, NEW d \in Devices, NEW p \in Ports, NEW k \in 1 .. 16,
           Adds(c, d, p, k), NEW q \in Ports
    PROVE  /\ Answers(q, 0) => q = p /\ k \in 1 .. 3
           /\ Answers(q, next) => q = p /\ (k = 4 \/ (k = 3 /\ Told(c)))
<1>1. 1 .. 3 \subseteq 1 .. 16 /\ 3 \in 1 .. 16 /\ 4 \in 1 .. 16
  OBVIOUS
<1>2. ASSUME Answers(q, 0) PROVE q = p /\ k \in 1 .. 3
  <2>1. PICK e \in Contexts : Resets(e, q) \/ \E f \in Devices, j \in 1 .. 3 : Adds(e, f, q, j)
    BY <1>2 DEF Lines, Starting, Opening
  <2>2. ~Resets(e, q)
    BY ResetAdds
  <2>3. PICK f \in Devices, j \in 1 .. 3 : Adds(e, f, q, j)
    BY <2>1, <2>2
  <2>4. q = p /\ j = k
    BY <1>1, <2>3, AddsUnique
  <2>5. QED
    BY <2>4
<1>3. ASSUME Answers(q, next) PROVE q = p /\ (k = 4 \/ (k = 3 /\ Told(c)))
  <2>1. PICK e \in Contexts, f \in Devices : Adds(e, f, q, 4) \/ (Adds(e, f, q, 3) /\ Told(e))
    BY <1>3 DEF Lines, Newest, Renamed
  <2>2. CASE Adds(e, f, q, 4)
    BY <1>1, <2>2, AddsUnique
  <2>3. CASE Adds(e, f, q, 3) /\ Told(e)
    <3>1. e = c /\ q = p /\ k = 3
      BY <1>1, <2>3, AddsUnique
    <3>2. QED
      BY <2>3, <3>1
  <2>4. QED
    BY <2>1, <2>2, <2>3
<1>4. QED
  BY <1>2, <1>3

(* The bus stays calm only as long as nothing happens to it. *)
LEMMA CalmBefore == ASSUME Inv, [Next]_vars, Calm' PROVE Calm /\ errors' = errors /\ raced' = raced
<1>1. errors \in Nat /\ raced \in BOOLEAN
  BY DEF Inv, TypeOK
<1>2. ASSUME NEW c \in Contexts, Context(c) \/ FireEndsWild(c) PROVE errors' = errors /\ raced' = raced
  BY <1>2 DEF Context, Submit, Enqueue, Fire, FireEnds, FireEndsWild, SetupPort, EnablePort, PortReset, Check,
         Addressed, Parse, ListDevice, Connect, Probe, Found, Try, Register, Enable, Acknowledge, hc
<1>3. ASSUME Halts PROVE errors' \in {errors, errors + 1} /\ raced' = raced
  BY <1>3 DEF Halts
<1>4. ASSUME HcdiIrq PROVE errors' = errors /\ raced' = (raced \/ Conversing)
  BY <1>4 DEF HcdiIrq, hc
<1>5. ASSUME Main \/ Executes \/ World \/ UNCHANGED vars PROVE errors' = errors /\ raced' = raced
  BY <1>5 DEF Main, Call, Executes, World, Plug, Unplug, Press, vars, hc
<1>6. errors' \in {errors, errors + 1}
  BY <1>2, <1>3, <1>4, <1>5 DEF Next
<1>7. raced' = raced \/ raced' = (raced \/ Conversing)
  BY <1>2, <1>3, <1>4, <1>5 DEF Next
<1>8. errors' = 0 /\ ~raced'
  BY DEF Calm
<1>9. errors = 0 /\ errors' = errors
  BY ONLY <1>1, <1>6, <1>8
<1>10. ~raced
  BY <1>7, <1>8
<1>11. raced' = raced
  <2>1. CASE raced' = raced
    BY <2>1
  <2>2. CASE raced' = (raced \/ Conversing)
    <3> DEFINE x == raced \/ Conversing
    <3>1. ~x
      BY <1>8, <2>2
    <3>2. x = FALSE
      BY <3>1
    <3>3. raced = FALSE
      BY <1>1, <1>10
    <3>4. QED
      BY <2>2, <3>2, <3>3
  <2>3. QED
    BY <1>7, <2>1, <2>2
<1>12. QED
  BY <1>8, <1>9, <1>10, <1>11 DEF Calm

(* Steps on the wires that nobody answers to more than before. *)
LEMMA AnswersSame ==
    ASSUME NEW p \in Ports, SameWires(p)
    PROVE  /\ New(p)' <=> New(p)
           /\ \A a : Answers(p, a)' <=> Answers(p, a)
  BY DEF SameWires, Answers, New

(* Nothing is enumerated before or after a step, nobody answers to address 0 *)
(* or the next one, and the wires are as they were.                          *)
LEMMA LinesQuiet ==
    ASSUME Lines, Free(0), Free(next), next' = next, \A p \in Ports : SameWires(p),
           \A c \in Contexts, d \in Devices, p \in Ports, k \in 1 .. 16 : ~Adding(job'[c], d, p, k), Dead'
    PROVE  Lines'
<1>1. Untouched' /\ Distinct'
  BY AnswersSame DEF Lines, Untouched, Distinct, SameWires, New, Answers
<1>2. Starting' /\ Newest'
  BY AnswersSame DEF Free, Starting, Newest, Answers, SameWires
<1>3. Stages'
  BY DEF Stages, Adds
<1>4. QED
  BY <1>1, <1>2, <1>3 DEF Lines

(* All that was shown so far. *)
Base == Inv /\ Shape /\ Names /\ Known /\ Flights /\ Wires

(* The parts of it that the steps below need again and again. *)
LEMMA BaseParts ==
    ASSUME Base
    PROVE  /\ Inv /\ TypeOK /\ Jobs /\ Registers /\ Counted /\ Alive /\ Owned
           /\ Shape /\ Names /\ Known /\ Flights /\ Wires /\ Numbers /\ Steps
           /\ next \in Nat /\ next >= 1 /\ next # 0 /\ 0 \in Addresses /\ next \in Addresses
<1>1. TypeOK /\ next \in Addresses
  BY DEF Base, Inv, TypeOK
<1>2. next \in 1 .. count + 1 /\ count \in Nat
  BY <1>1 DEF Base, Names, Numbers, TypeOK
<1>3. 0 \in Addresses
  BY UsbAssumption DEF Addresses
<1>4. next \in Nat /\ next >= 1 /\ next # 0
  BY ONLY <1>2
<1>5. QED
  BY <1>1, <1>3, <1>4 DEF Base, Inv, Names

(* The enumeration of a context that runs is the only one, and the port that *)
(* is reset is its own.                                                      *)
LEMMA OnlyOne ==
    ASSUME Base, NEW c \in Contexts, Runs(c)
    PROVE  /\ \A e \in Contexts, d \in Devices, p \in Ports, k \in 1 .. 16 : Adds(e, d, p, k) => e = c
           /\ \A e \in Contexts, p \in Ports : Resets(e, p) => e = c /\ Item(c).op = "reset" /\ Item(c).port = p
           /\ job[c] # <<>> /\ Item(c) = job[c][1] /\ Item(c) \in Items
  BY BaseParts, AddsRuns, ResetRuns, HeadTyped DEF Runs, Idle

(* usb_submit_irp asks for what the enumeration waits for. *)
LEMMA SubmitLines ==
    ASSUME Base, Base', Calm, Lines, NEW c \in Contexts, Submit(c)
    PROVE  Lines'
<1> DEFINE x == Item(c)
           tds == SubmitIrp(x)
<1>1. TypeOK /\ Jobs /\ TypeOK' /\ Jobs' /\ Shape /\ Owned /\ Context(c)
  BY BaseParts DEF Base, Inv, Context
<1>2. Runs(c) /\ x.op = "irp"
  BY DEF Submit, At
<1>3. ed = None /\ ~halted
  BY <1>1, <1>2, EdNone DEF Lines, Dead, Calm
<1>4. /\ next' = next /\ halted' = halted /\ (\A p \in Ports : SameWires(p))
      /\ \A d \in Devices : dev'[d].addr = dev[d].addr
  BY <1>1, SubmitStep DEF Submit, SameWires
<1>5. \A e \in Contexts : e # c => job'[e] = job[e]
  BY <1>1, ContextFollows DEF Inv, Base
<1>6. \A d \in Devices, p \in Ports, k \in 1 .. 16 : Adding(job'[c], d, p, k) <=> Adds(c, d, p, k)
  BY <1>1, SubmitShape
<1>7. \A e \in Contexts, d \in Devices, p \in Ports, k \in 1 .. 16 :
         Adding(job'[e], d, p, k) => e = c /\ Adds(c, d, p, k)
  BY <1>2, <1>5, <1>6, OnlyOne DEF Adds
<1>8. CASE NoAdds
  <2>1. \A e \in Contexts, p \in Ports : ~Resets(e, p)
    BY <1>2, OnlyOne
  <2>2. Free(0) /\ Free(next)
    BY <1>1, <1>8, <2>1, Quiet
  <2>3. Dead'
    BY <1>3, <1>4 DEF Dead
  <2>4. QED
    BY <1>4, <1>7, <1>8, <2>2, <2>3, LinesQuiet DEF NoAdds
<1>9. ASSUME NEW d \in Devices, NEW p \in Ports, NEW k \in 1 .. 16, Adds(c, d, p, k)
      PROVE  Lines'
  <2>1. k \in Asks /\ x = AddDevice(d, p)[k]
    BY <1>1, <1>2, <1>9, AddsAt
  <2>2. /\ x \in Irps /\ x.dev = d /\ x.type = "control" /\ x.ep = 0 /\ (x.req = "address" <=> k = 3)
        /\ (k = 1 => x.dir = "in" /\ x.len = 8) /\ (k = 3 => x.dir = "out")
    BY <2>1, AddOps
  <2>3. ~Interruptible(c)
    <3>1. job[c] \in Seq(Items)
      BY <1>1 DEF TypeOK
    <3>2. QED
      BY <1>1, <1>9, <3>1, SubmitShape, CleanShaped DEF Adds
  <2>4. job'[c][1].op = "poll" /\ ed' = Joined(tds)
    BY <1>1, <2>3, SubmitShape DEF Submit
  <2>5. /\ tds \in Seq(Tds) /\ tds # <<>> /\ Uniform(tds, dev[d].addr, 0)
        /\ (k = 1 => Ask(tds)) /\ (k = 3 => Tell(tds))
    <3>1. tds \in Seq(Tds) /\ Uniform(tds, dev[d].addr, 0)
      BY <1>1, <2>2, SubmitTyped
    <3>2. k = 1 => Ask(tds)
      BY <1>1, <2>2, ControlHas DEF Ask
    <3>3. k = 3 => Tell(tds)
      BY <1>1, <2>2, ControlHas DEF Tell
    <3>4. tds # <<>>
      BY <1>1, <2>2, ControlHas
    <3>5. QED
      BY <3>1, <3>2, <3>3, <3>4
  <2> HIDE DEF tds
  <2>6. /\ ed' # None /\ ed'.tds = tds /\ ed'.addr = tds[1].addr /\ ed'.ep = tds[1].ep
    BY <1>1, <1>3, <2>4, <2>5, JoinedTyped, NoEndpoint
  <2>7. ed'.addr = dev[d].addr /\ ed'.ep = 0
    <3>1. 1 \in 1 .. Len(tds)
      BY <2>5
    <3>2. QED
      BY <2>5, <2>6, <3>1 DEF Uniform
  <2>8. Stages'
    <3> SUFFICES ASSUME NEW e \in Contexts, NEW f \in Devices, NEW r \in Ports, NEW j \in 1 .. 16,
                        Adding(job'[e], f, r, j)
                 PROVE  Stage(e, f, j)'
      BY DEF Stages, Adds
    <3>1. e = c /\ f = d /\ j = k
      BY <1>1, <1>7, <1>9, AddsUnique
    <3>2. k \notin {2, 4}
      BY <2>1 DEF Asks
    <3>3. Asked(d, k)'
      BY <1>4, <2>5, <2>6, <2>7 DEF Asked
    <3>4. QED
      BY <3>1, <3>2, <3>3 DEF Stage
  <2>9. Starting'
    <3> SUFFICES ASSUME NEW q \in Ports, Answers(q, 0)' PROVE Opening(q)'
      BY DEF Starting
    <3>1. q = p /\ k \in 1 .. 3
      BY <1>1, <1>4, <1>9, AnswersSame, Busy
    <3>2. QED
      BY <1>6, <1>9, <3>1 DEF Opening, Adds
  <2>10. Newest'
    <3> SUFFICES ASSUME NEW q \in Ports, Answers(q, next) PROVE FALSE
      BY <1>4, AnswersSame DEF Newest
    <3>1. k = 4 \/ Told(c)
      BY <1>1, <1>9, Busy
    <3>2. x.op = "poll" \/ k = 4
      BY <1>2, <3>1, OnlyOne DEF Told
    <3>3. QED
      BY <1>2, <2>1, <3>2 DEF Asks
  <2>11. Untouched' /\ Distinct' /\ Dead'
    BY <1>3, <1>4, AnswersSame DEF Lines, Untouched, Distinct, SameWires, New, Answers, Dead
  <2>12. QED
    BY <2>8, <2>9, <2>10, <2>11 DEF Lines
<1>10. QED
  BY <1>2, <1>8, <1>9, OnlyOne DEF NoAdds

(* An enumeration that goes on to its next step without a transfer. *)
LEMMA AdvanceLines ==
    ASSUME Base, Base', Lines, NEW c \in Contexts, Runs(c), \A e \in Contexts : e # c => job'[e] = job[e],
           \A p \in Ports : SameWires(p), next' = next, gbuf' = gbuf, Dead',
           job'[c] # <<>> => job'[c][1].op \notin {"queue", "poll"},
           NEW d \in Devices, NEW p \in Ports, NEW k \in 1 .. 15, k # 4,
           Adds(c, d, p, k), Adding(job'[c], d, p, k + 1),
           k = 3 \/ (k = 1 /\ gbuf = None) => Free(0)
    PROVE  Lines'
<1>1. TypeOK /\ Jobs /\ Shape /\ TypeOK' /\ Jobs' /\ Shape'
  BY BaseParts DEF Base, Inv
<1>2. k \in 1 .. 16 /\ k + 1 \in 1 .. 16
  OBVIOUS
<1>3. ASSUME NEW e \in Contexts, NEW f \in Devices, NEW r \in Ports, NEW j \in 1 .. 16, Adding(job'[e], f, r, j)
      PROVE  e = c /\ f = d /\ j = k + 1
  <2>1. e = c
    BY <1>3, OnlyOne DEF Adds
  <2>2. job'[c] \in Seq(Items) /\ Ordered(job'[c])
    BY <1>1 DEF TypeOK, Jobs
  <2>3. QED
    BY <1>2, <1>3, <2>1, <2>2, AddingUnique
<1>4. Stages'
  <2> SUFFICES ASSUME NEW e \in Contexts, NEW f \in Devices, NEW r \in Ports, NEW j \in 1 .. 16,
                      Adding(job'[e], f, r, j)
               PROVE  Stage(e, f, j)'
    BY DEF Stages, Adds
  <2>1. e = c /\ f = d /\ j = k + 1
    BY <1>3
  <2>2. job'[c] # <<>>
    <3>1. job'[c] \in Seq(Items)
      BY <1>1 DEF TypeOK
    <3>2. QED
      BY <1>2, <3>1, AddingHead
  <2>3. (k + 1 = 2 /\ gbuf = None) \/ k + 1 = 4 => Free(0)
    <3>1. (k + 1 = 2 => k = 1) /\ (k + 1 = 4 => k = 3)
      BY <1>2
    <3>2. QED
      BY <3>1
  <2>4. Free(0) => Free(0)'
    BY AnswersSame DEF Free
  <2>5. QED
    BY <2>1, <2>2, <2>3, <2>4 DEF Stage
<1>5. Starting'
  <2> SUFFICES ASSUME NEW q \in Ports, Answers(q, 0)' PROVE Opening(q)'
    BY DEF Starting
  <2>1. Answers(q, 0)
    BY AnswersSame
  <2>2. q = p /\ k \in 1 .. 3 /\ k # 3
    BY <1>1, <1>2, <2>1, Busy DEF Free
  <2>3. k + 1 \in 1 .. 3
    BY <2>2
  <2>4. QED
    BY <2>2, <2>3 DEF Opening, Adds
<1>6. Newest'
  <2> SUFFICES ASSUME NEW q \in Ports, Answers(q, next)' PROVE Renamed(q)'
    BY DEF Newest
  <2>1. q = p /\ k = 3
    BY <1>1, <1>2, AnswersSame, Busy
  <2>2. Adding(job'[c], d, q, 4)
    BY <2>1
  <2>3. QED
    BY <2>2 DEF Renamed, Adds
<1>7. Untouched' /\ Distinct'
  BY AnswersSame DEF Lines, Untouched, Distinct, SameWires, New, Answers
<1>8. QED
  BY <1>4, <1>5, <1>6, <1>7 DEF Lines

(* A step of a context before an enumeration begins. *)
LEMMA QuietLines ==
    ASSUME Base, Base', Lines, NEW c \in Contexts, Context(c) \/ FireEndsWild(c), ~PortReset(c), NoAdds,
           Item(c).op # "reset", \A p \in Ports : SameWires(p), next' = next, Dead'
    PROVE  Lines'
<1>1. TypeOK /\ Jobs /\ Shape /\ Inv /\ Inv'
  BY BaseParts DEF Base
<1>2. Runs(c) /\ \A e \in Contexts : e # c => job'[e] = job[e]
  BY <1>1, ContextFollows
<1>3. Free(0) /\ Free(next)
  <2>1. \A e \in Contexts, p \in Ports : ~Resets(e, p)
    BY <1>2, OnlyOne
  <2>2. QED
    BY <1>1, <2>1, Quiet
<1>4. ASSUME NEW e \in Contexts, NEW d \in Devices, NEW p \in Ports, NEW k \in 1 .. 16, Adding(job'[e], d, p, k)
      PROVE  FALSE
  <2>1. e = c
    BY <1>2, <1>4 DEF NoAdds, Adds
  <2>2. Adds(c, d, p, k) \/ (k >= 2 /\ Adds(c, d, p, k - 1))
    BY <1>1, <1>4, <2>1, AddsBack
  <2>3. k >= 2 => k - 1 \in 1 .. 16
    OBVIOUS
  <2>4. QED
    BY <2>2, <2>3 DEF NoAdds
<1>5. QED
  BY <1>3, <1>4, LinesQuiet

(* hcdi_fire has ended: an answer came, or nobody was there. *)
LEMMA FireEndsLines ==
    ASSUME Base, Base', Calm, Lines, NEW c \in Contexts, FireEnds(c)
    PROVE  Lines'
<1>1. TypeOK /\ Jobs /\ Shape /\ Inv /\ Inv' /\ Context(c) /\ Pops(c)
  BY BaseParts DEF Base, Context, Pops
<1>2. /\ Runs(c) /\ job[c] # <<>> /\ Item(c).op = "poll" /\ Item(c) = job[c][1] /\ ed # None /\ FireOver /\ Then(c, <<>>)
      /\ (\A e \in Contexts : e # c => job'[e] = job[e])
  BY <1>1, ContextFollows, HeadTyped DEF FireEnds, At
<1>3. /\ \A p \in Ports : SameWires(p)
      /\ next' = next /\ gbuf' = gbuf /\ Dead'
  BY DEF FireEnds, SameWires, core, Dead
<1>4. CASE NoAdds
  <2>1. Item(c).op # "reset" /\ ~PortReset(c)
    BY <1>2 DEF PortReset, At
  <2>2. QED
    BY <1>1, <1>3, <1>4, <2>1, QuietLines
<1>5. ASSUME NEW d \in Devices, NEW p \in Ports, NEW k \in 1 .. 16, Adds(c, d, p, k)
      PROVE  Lines'
  <2>1. k \in Asks
    BY <1>1, <1>2, <1>5, AddsAt
  <2>2. k <= 15 /\ Adding(job'[c], d, p, k + 1)
    <3>1. ~Submit(c) /\ ~Check(c) /\ ~ListDevice(c)
      BY <1>2 DEF Submit, Check, ListDevice, At
    <3>2. QED
      BY <1>1, <1>5, <3>1, AddsForth
  <2>3. Asked(d, k)
    BY <1>2, <1>5 DEF Lines, Stages, Stage
  <2>4. k = 3 \/ (k = 1 /\ gbuf = None) => Free(0)
    <3> SUFFICES ASSUME k = 3 \/ (k = 1 /\ gbuf = None) PROVE Free(0)
      OBVIOUS
    <3>1. CASE ed.tds = <<>>
      BY <2>3, <3>1 DEF Asked
    <3>2. CASE halted
      <4>1. dev[d].addr = 0
        BY <1>5, BaseParts DEF Steps, Named
      <4>2. QED
        BY <2>3, <3>2, <4>1 DEF Lines, Dead, Asked
    <3>3. QED
      BY <1>2, <3>1, <3>2 DEF FireOver
  <2>5. k \in 1 .. 15 /\ k # 4
    BY <2>1, <2>2 DEF Asks
  <2>6. job'[c] # <<>> => job'[c][1].op \notin {"queue", "poll"}
    BY <1>1, <1>2, HeadDone
  <2>7. QED
    BY <1>2, <1>3, <1>5, <2>2, <2>4, <2>5, <2>6, AdvanceLines
<1>6. QED
  BY <1>2, <1>4, <1>5, OnlyOne DEF NoAdds

(* An enumeration does not find its transfer gone. *)
LEMMA FireEndsWildLines ==
    ASSUME Base, Base', Calm, Lines, NEW c \in Contexts, FireEndsWild(c)
    PROVE  Lines'
<1>1. TypeOK /\ Jobs /\ Shape /\ Inv /\ Inv'
  BY BaseParts DEF Base
<1>2. /\ Runs(c) /\ Item(c).op = "poll" /\ Item(c) = job[c][1] /\ ed = None
  BY <1>1, HeadTyped DEF FireEndsWild, At, Runs, Idle
<1>3. NoAdds
  <2> SUFFICES ASSUME NEW e \in Contexts, NEW d \in Devices, NEW p \in Ports, NEW k \in 1 .. 16, Adds(e, d, p, k)
               PROVE  FALSE
    BY DEF NoAdds
  <2>1. e = c
    BY <1>2, OnlyOne
  <2>2. QED
    BY <1>2, <2>1 DEF Lines, Stages, Stage, Asked
<1>4. (\A p \in Ports : SameWires(p)) /\ next' = next /\ Dead'
  BY <1>2 DEF FireEndsWild, SameWires, hc, core, Dead, Lines
<1>5. Item(c).op # "reset" /\ ~PortReset(c)
  BY <1>2 DEF PortReset, At
<1>6. QED
  BY <1>3, <1>4, <1>5, QuietLines

(* The steps between the transfers of an enumeration: usb_get_desc_dev_simple *)
(* was answered, the configuration is read.                                   *)
LEMMA CheckLines ==
    ASSUME Base, Base', Calm, Lines, NEW c \in Contexts, (Check(c) /\ gbuf # None) \/ Parse(c)
    PROVE  Lines'
<1>1. TypeOK /\ Jobs /\ Shape /\ Inv /\ Inv' /\ Context(c) /\ Pops(c) /\ Owned
  BY BaseParts DEF Base, Context, Pops
<1>2. /\ Runs(c) /\ job[c] # <<>> /\ Item(c).op \in {"check", "parse"} /\ Then(c, <<>>)
      /\ (\A e \in Contexts : e # c => job'[e] = job[e])
  BY <1>1, ContextFollows DEF Check, Parse, At
<1>3. ed = None /\ ~halted
  BY <1>1, <1>2, EdNone DEF Lines, Dead, Calm
<1>4. (\A p \in Ports : SameWires(p)) /\ next' = next /\ gbuf' = gbuf /\ Dead'
  BY <1>3 DEF Check, Parse, SameWires, hc, Dead
<1>5. PICK d \in Devices, p \in Ports, k \in 1 .. 16 : Adds(c, d, p, k)
  BY <1>1, <1>2, HeadAdds DEF Enumerating
<1>6. k \in {2, 6, 11, 15} /\ (Parse(c) => k \in {11, 15})
  BY <1>1, <1>2, <1>5, AddsAt DEF Parse, At
<1>7. Adding(job'[c], d, p, k + 1)
  <2>1. ~Submit(c) /\ ~ListDevice(c) /\ ~(Check(c) /\ gbuf = None)
    BY <1>2 DEF Submit, ListDevice, Check, Parse, At
  <2>2. QED
    BY <1>1, <1>5, <2>1, AddsForth
<1>8. job'[c] # <<>> => job'[c][1].op \notin {"queue", "poll"}
  BY <1>1, <1>2, HeadDone
<1>9. k \in 1 .. 15 /\ k # 4 /\ k # 3 /\ k # 1
  BY <1>6
<1>10. QED
  BY <1>2, <1>4, <1>5, <1>7, <1>8, <1>9, AdvanceLines

(* usb_add_device gives up: the device has gone. *)
LEMMA FailLines ==
    ASSUME Base, Base', Calm, Lines, NEW c \in Contexts, Check(c), gbuf = None
    PROVE  Lines'
<1>1. TypeOK /\ Jobs /\ Shape /\ Inv /\ Inv' /\ TypeOK' /\ Owned /\ Context(c)
  BY BaseParts DEF Base, Inv, Context
<1>2. /\ Runs(c) /\ job[c] # <<>> /\ Item(c).op = "check"
      /\ (\A e \in Contexts : e # c => job'[e] = job[e])
  BY <1>1, ContextFollows DEF Check, At
<1>3. ed = None /\ ~halted
  BY <1>1, <1>2, EdNone DEF Lines, Dead, Calm
<1>4. (\A p \in Ports : SameWires(p)) /\ next' = next /\ Dead'
  BY <1>3 DEF Check, SameWires, hc, Dead
<1>5. PICK d \in Devices, p \in Ports, k \in 1 .. 16 : Adds(c, d, p, k)
  BY <1>1, <1>2, HeadAdds DEF Enumerating
<1>6. k \in {2, 6}
  BY <1>1, <1>2, <1>5, AddsAt
<1>7. Free(0) /\ Free(next)
  <2>1. k = 2 => Free(0)
    BY <1>5 DEF Lines, Stages, Stage
  <2>2. k = 6 => Free(0)
    <3>1. 6 \notin 1 .. 3
      OBVIOUS
    <3>2. QED
      BY <1>1, <1>5, <3>1, Busy DEF Free
  <2>3. Free(next)
    BY <1>1, <1>5, <1>6, Busy DEF Free
  <2>4. QED
    BY <1>6, <2>1, <2>2, <2>3
<1>8. ASSUME NEW e \in Contexts, NEW f \in Devices, NEW r \in Ports, NEW j \in 1 .. 16, Adding(job'[e], f, r, j)
      PROVE  FALSE
  <2>1. e = c
    BY <1>2, <1>8, OnlyOne DEF Adds
  <2>2. Clean(job'[c]) /\ job'[c] \in Seq(Items)
    BY <1>1, CheckShape DEF TypeOK
  <2>3. QED
    BY <1>8, <2>1, <2>2, CleanShaped
<1>9. QED
  BY <1>4, <1>7, <1>8, LinesQuiet

(* The core takes the next address: the device that answers to it is named. *)
LEMMA AddressedLines ==
    ASSUME Roomy, Base, Base', Calm, Lines, NEW c \in Contexts, Addressed(c)
    PROVE  Lines'
<1>1. TypeOK /\ Jobs /\ Shape /\ Inv /\ Inv' /\ TypeOK' /\ Jobs' /\ Owned /\ Context(c) /\ Names
  BY BaseParts DEF Base, Inv, Context
<1>2. /\ Runs(c) /\ job[c] # <<>> /\ Item(c).op = "addressed" /\ Then(c, <<>>)
      /\ (\A e \in Contexts : e # c => job'[e] = job[e])
  BY <1>1, ContextFollows DEF Addressed, At
<1>3. ed = None /\ ~halted
  BY <1>1, <1>2, EdNone DEF Lines, Dead, Calm
<1>4. (\A p \in Ports : SameWires(p)) /\ Dead'
  BY <1>3 DEF Addressed, SameWires, hc, Dead
<1>5. next' = next + 1 /\ \E d \in Devices, p \in Ports : Adds(c, d, p, 4) /\ Adding(job'[c], d, p, 5)
  BY <1>1, NamesAddressed
<1>6. PICK d \in Devices, p \in Ports : Adds(c, d, p, 4) /\ Adding(job'[c], d, p, 5)
  BY <1>5
<1>7. 4 \in 1 .. 16 /\ 5 \in 1 .. 16
  OBVIOUS
<1>8. Free(0)
  BY <1>6, <1>7 DEF Lines, Stages, Stage
<1>9. \A q \in Ports : port[q].pes => port[q].addr <= next /\ port[q].addr # next'
  <2>1. \A q \in Ports : port[q].addr \in Nat
    BY <1>1, UsbAssumption DEF TypeOK, RootPorts, Addresses
  <2>2. next \in Nat /\ \A q \in Ports : port[q].pes => port[q].addr <= next
    BY BaseParts DEF Wires
  <2>3. QED
    BY <1>5, <2>1, <2>2
<1>10. Untouched' /\ Distinct' /\ Starting' /\ Newest'
  <2>1. Untouched'
    BY <1>4, <1>9, AnswersSame DEF Lines, Untouched, SameWires, New
  <2>2. Distinct'
    BY <1>4, AnswersSame DEF Lines, Distinct
  <2>3. Starting'
    BY <1>4, <1>8, AnswersSame DEF Starting, Free
  <2>4. Newest'
    <3> SUFFICES ASSUME NEW q \in Ports, Answers(q, next)' PROVE FALSE
      BY DEF Newest
    <3>1. port[q].pes /\ port[q].addr = next'
      BY <1>4 DEF Answers, SameWires
    <3>2. QED
      BY <1>9, <3>1
  <2>5. QED
    BY <2>1, <2>2, <2>3, <2>4
<1>11. Stages'
  <2> SUFFICES ASSUME NEW e \in Contexts, NEW f \in Devices, NEW r \in Ports, NEW j \in 1 .. 16,
                      Adding(job'[e], f, r, j)
               PROVE  Stage(e, f, j)'
    BY DEF Stages, Adds
  <2>1. e = c
    BY <1>2, OnlyOne DEF Adds
  <2>2. job'[c] \in Seq(Items) /\ Ordered(job'[c])
    BY <1>1 DEF TypeOK, Jobs
  <2>3. j = 5
    BY <1>6, <1>7, <2>1, <2>2, AddingUnique
  <2>4. job'[c] # <<>> /\ job'[c][1].op # "poll"
    BY <1>1, <1>2, <2>1, <2>2, AddingHead, HeadDone
  <2>5. QED
    BY <2>1, <2>3, <2>4 DEF Stage
<1>12. QED
  BY <1>4, <1>10, <1>11 DEF Lines

(* A context that runs and enumerates nothing: nothing is enumerated. *)
LEMMA CleanQuiet ==
    ASSUME Base, NEW c \in Contexts, Runs(c), Clean(job[c])
    PROVE  NoAdds
<1>1. job[c] \in Seq(Items)
  BY BaseParts DEF TypeOK
<1>2. \A d \in Devices, p \in Ports, k \in 1 .. 16 : ~Adding(job[c], d, p, k)
  BY <1>1, CleanShaped
<1>3. QED
  BY <1>2, OnlyOne DEF NoAdds, Adds

(* hcdi_enqueue and hcdi_fire when they can be interrupted: they are never *)
(* part of an enumeration.                                                 *)
LEMMA QueueLines ==
    ASSUME Base, Base', Calm, Lines, NEW c \in Contexts, Enqueue(c) \/ Fire(c)
    PROVE  Lines'
<1>1. TypeOK /\ Jobs /\ Shape /\ Inv /\ Context(c)
  BY BaseParts DEF Base, Context
<1>2. Runs(c) /\ Item(c).op = "queue" /\ job[c] # <<>> /\ Item(c) \in Items
  BY <1>1, ContextFollows, HeadTyped DEF Enqueue, Fire, At
<1>3. NoAdds
  BY <1>1, <1>2, QueueShape, CleanQuiet
<1>4. (\A p \in Ports : SameWires(p)) /\ next' = next /\ halted' = halted
  BY DEF Enqueue, Fire, SameWires, core
<1>5. halted => ed' # None /\ ed'.addr = ed.addr
  <2>1. CASE Fire(c)
    BY <2>1 DEF Fire, Lines, Dead
  <2>2. CASE Enqueue(c)
    <3> DEFINE t == Item(c).tds
               one == <<Head(t)>>
    <3>1. t \in Seq(Tds) /\ t # <<>> /\ ed' = Joined(one)
      BY <1>2, <2>2, ItemTypes DEF Enqueue
    <3> HIDE DEF t
    <3>2. one \in Seq(Tds) /\ one # <<>>
      BY <3>1
    <3> HIDE DEF one
    <3>3. ed' \in Endpoints /\ (ed # None => ed'.addr = ed.addr)
      BY <1>1, <3>1, <3>2, JoinedTyped
    <3>4. QED
      BY <3>3, NoEndpoint DEF Lines, Dead
  <2>3. QED
    BY <2>1, <2>2
<1>6. Dead'
  BY <1>4, <1>5, AnswersSame DEF Lines, Dead, Free
<1>7. Item(c).op # "reset" /\ ~PortReset(c)
  BY <1>2 DEF PortReset, At
<1>8. QED
  BY <1>1, <1>3, <1>4, <1>6, <1>7, QuietLines

(* What the core and the drivers do besides; at the end of an enumeration *)
(* nobody answers to address 0 or to the next one.                        *)
LEMMA LateLines ==
    ASSUME Base, Base', Calm, Lines, NEW c \in Contexts, Late(c), \A p \in Ports : SameWires(p)
    PROVE  Lines'
<1>1. TypeOK /\ Jobs /\ Shape /\ Inv /\ Context(c) /\ Registers /\ Owned /\ Inv'
  BY BaseParts DEF Base, Context, Late
<1>2. /\ Runs(c) /\ job[c] # <<>> /\ Clean(job'[c]) /\ job'[c] \in Seq(Items)
      /\ Item(c).op \notin BeforeList \cup {"reset"} /\ (~ListDevice(c) => Clean(job[c]))
      /\ \A e \in Contexts : e # c => job'[e] = job[e]
  BY <1>1, LateShape, ContextFollows
<1>3. ed = None /\ ~halted
  BY <1>1, <1>2, EdNone DEF Lines, Dead, Calm, BeforeList
<1>4. next' = next /\ Dead'
  <2>1. next' = next
    BY DEF Late, SetupPort, EnablePort, ListDevice, Connect, Probe, Found, Try, Register, Enable, Acknowledge, core
  <2>2. halted' = halted
    BY DEF Late, SetupPort, EnablePort, ListDevice, Connect, Probe, Found, Try, Register, Enable, Acknowledge, hc
  <2>3. QED
    BY <1>3, <2>1, <2>2 DEF Dead
<1>5. CASE ListDevice(c)
  <2>1. Item(c).op = "list"
    BY <1>5 DEF ListDevice, At
  <2>2. PICK d \in Devices, p \in Ports, k \in 1 .. 16 : Adds(c, d, p, k)
    BY <1>1, <1>2, <2>1, HeadAdds DEF Enumerating
  <2>3. k = 16
    BY <1>1, <2>1, <2>2, AddsAt
  <2>4. Free(0) /\ Free(next)
    <3>1. 16 \notin 1 .. 3
      OBVIOUS
    <3>2. QED
      BY <1>1, <2>2, <2>3, <3>1, Busy DEF Free
  <2>5. ASSUME NEW e \in Contexts, NEW f \in Devices, NEW r \in Ports, NEW j \in 1 .. 16, Adding(job'[e], f, r, j)
        PROVE  FALSE
    BY <1>2, <2>5, OnlyOne, CleanShaped DEF Adds
  <2>6. QED
    BY <1>4, <2>4, <2>5, LinesQuiet
<1>6. CASE ~ListDevice(c)
  <2>1. NoAdds /\ Item(c).op # "reset" /\ ~PortReset(c)
    BY <1>2, <1>6, CleanQuiet DEF PortReset, At
  <2>2. QED
    BY <1>1, <1>4, <2>1, QuietLines
<1>7. QED
  BY <1>5, <1>6

(* The port is enabled: the device on it answers to address 0. *)
LEMMA EnableLines ==
    ASSUME Base, Base', Calm, Lines, NEW c \in Contexts, EnablePort(c)
    PROVE  Lines'
<1>1. TypeOK /\ Jobs /\ Shape /\ Inv /\ Context(c) /\ Late(c) /\ Registers /\ Owned /\ Wires /\ next # 0
      /\ port \in [Ports -> RootPorts]
  BY BaseParts DEF Base, Context, Late, TypeOK
<1>2. /\ Runs(c) /\ job[c] # <<>> /\ Item(c).op = "enable" /\ Clean(job[c]) /\ Clean(job'[c]) /\ job'[c] \in Seq(Items)
      /\ (\A e \in Contexts : e # c => job'[e] = job[e]) /\ Item(c).port \in Ports
  <2>1. Item(c).op = "enable" /\ ~ListDevice(c)
    BY DEF EnablePort, ListDevice, At
  <2>2. Item(c).port \in Ports
    BY <1>1, <2>1, LateShape, HeadTyped, ItemTypes
  <2>3. QED
    BY <1>1, <2>1, <2>2, LateShape, ContextFollows
<1>3. PICK r \in Ports : r = Item(c).port
  BY <1>2
<1>4. CASE port[r].dev = None
  <2>1. port' = port
    BY <1>3, <1>4 DEF EnablePort
  <2>2. \A p \in Ports : SameWires(p)
    BY <2>1 DEF SameWires
  <2>3. QED
    BY <1>1, <2>2, LateLines
<1>5. CASE port[r].dev # None
  <2>1. /\ port' = [port EXCEPT ![r].pes = TRUE] /\ Then(c, <<Step("reset", None, r)>>)
        /\ next' = next /\ halted' = halted
    BY <1>3, <1>5 DEF EnablePort
  <2> DEFINE y == Step("reset", None, r)
  <2>2. y \in Items /\ y.op = "reset" /\ y.port = r
    BY <1>2, StepTyped
  <2> HIDE DEF y
  <2>3. job'[c] # <<>> /\ job'[c][1] = y
    BY <1>1, <1>2, <2>1, <2>2, HeadNext DEF y
  <2>4. Opening(r)'
    <3>1. Resets(c, r)'
      BY <2>2, <2>3 DEF Resets
    <3>2. QED
      BY <3>1 DEF Opening
  <2>5. /\ \A q \in Ports : q # r => SameWires(q)
        /\ port'[r].dev = port[r].dev /\ port'[r].pes /\ port'[r].addr = port[r].addr
        /\ port'[r].in = port[r].in /\ port'[r].out = port[r].out
    BY <1>1, <1>2, <2>1 DEF SameWires, RootPorts
  <2>6. NoAdds /\ Free(0) /\ Free(next)
    <3>1. NoAdds
      BY <1>2, CleanQuiet
    <3>2. \A e \in Contexts, p \in Ports : ~Resets(e, p)
      BY <1>2, OnlyOne
    <3>3. QED
      BY <1>1, <3>1, <3>2, Quiet
  <2>7. port[r].pes \/ (port[r].addr = 0 /\ New(r))
    BY <1>1, <1>2, <1>5 DEF Wires
  <2>8. Untouched'
    BY <2>1, <2>5, <2>7 DEF Lines, Untouched, New, SameWires
  <2>9. Starting'
    <3> SUFFICES ASSUME NEW q \in Ports, Answers(q, 0)' PROVE Opening(q)'
      BY DEF Starting
    <3>1. q = r
      BY <2>5, <2>6, AnswersSame DEF Free
    <3>2. QED
      BY <2>4, <3>1
  <2>10. Newest'
    <3> SUFFICES ASSUME NEW q \in Ports, Answers(q, next)' PROVE FALSE
      BY DEF Newest
    <3>1. q = r
      BY <2>1, <2>5, <2>6, AnswersSame DEF Free
    <3>2. port[r].addr = next /\ port[r].dev # None
      BY <1>5, <2>1, <2>5, <3>1 DEF Answers
    <3>3. port[r].pes
      BY <1>1, <2>7, <3>2
    <3>4. QED
      BY <1>2, <2>6, <3>2, <3>3 DEF Free, Answers
  <2>11. Distinct'
    <3> SUFFICES ASSUME NEW p \in Ports, NEW q \in Ports, NEW a \in Addresses, Answers(p, a)', Answers(q, a)', p # q
                 PROVE  FALSE
      BY DEF Distinct
    <3>1. (p # r => Answers(p, a)) /\ (q # r => Answers(q, a))
      BY <2>5, AnswersSame
    <3>2. (p = r => Answers(r, a) \/ a = 0) /\ (q = r => Answers(r, a) \/ a = 0)
      BY <1>5, <2>5, <2>7 DEF Answers
    <3>3. QED
      BY <2>6, <3>1, <3>2 DEF Lines, Distinct, Free
  <2>12. Dead'
    <3>1. ~halted
      BY <1>1, <1>2, EdNone DEF Lines, Dead, Calm
    <3>2. QED
      BY <2>1, <3>1 DEF Dead
  <2>13. Stages'
    <3> SUFFICES ASSUME NEW e \in Contexts, NEW f \in Devices, NEW s \in Ports, NEW j \in 1 .. 16, Adding(job'[e], f, s, j)
                 PROVE  FALSE
      BY DEF Stages, Adds
    <3>1. QED
      BY <1>2, OnlyOne, CleanShaped DEF Adds
  <2>14. QED
    BY <2>8, <2>9, <2>10, <2>11, <2>12, <2>13 DEF Lines
<1>6. QED
  BY <1>4, <1>5

(* The port is reset: its device answers to address 0, alone, and its *)
(* enumeration begins.                                                *)
LEMMA ResetLines ==
    ASSUME Base, Base', Calm, Lines, NEW c \in Contexts, PortReset(c)
    PROVE  Lines'
<1> DEFINE r == Item(c).port
           d == count + 1
<1>1. /\ TypeOK /\ Jobs /\ Shape /\ Inv /\ Context(c) /\ Owned /\ next # 0 /\ TypeOK' /\ Jobs' /\ Counted /\ Alive
      /\ port \in [Ports -> RootPorts]
  BY BaseParts DEF Base, Context, Inv, TypeOK
<1>2. d \in Devices /\ next' = next /\ halted' = halted /\ 1 \in 1 .. 16 /\ 1 \in 1 .. 3
  <2>1. d \in Devices
    BY <1>1, PortResetStep
  <2>2. next' = next /\ halted' = halted
    BY DEF PortReset
  <2>3. QED
    BY <2>1, <2>2
<1>3. /\ Runs(c) /\ job[c] # <<>> /\ Item(c).op = "reset" /\ r \in Ports
      /\ (\A e \in Contexts : e # c => job'[e] = job[e])
  BY <1>1, ContextFollows, HeadTyped, ItemTypes DEF PortReset, At
<1>4. /\ Clean(job[c]) /\ job'[c] # <<>> /\ job'[c][1].op = "irp" /\ Adding(job'[c], d, r, 1)
      /\ \A f \in Devices, p \in Ports, k \in 1 .. 16 : Adding(job'[c], f, p, k) => f = d /\ p = r /\ k = 1
  BY <1>1, <1>2, ResetShape
<1>5. NoAdds
  BY <1>3, <1>4, CleanQuiet
<1> HIDE DEF d
<1>6. \A q \in Ports : Answers(q, 0) => q = r
  <2> SUFFICES ASSUME NEW q \in Ports, Answers(q, 0) PROVE q = r
    OBVIOUS
  <2>1. Opening(q)
    BY DEF Lines, Starting
  <2>2. PICK e \in Contexts : Resets(e, q)
    <3>1. \A k \in 1 .. 3 : k \in 1 .. 16
      OBVIOUS
    <3>2. QED
      BY <1>5, <2>1, <3>1 DEF Opening, NoAdds
  <2>3. QED
    BY <1>3, <2>2, OnlyOne
<1>7. Free(next)
  <2>1. 3 \in 1 .. 16 /\ 4 \in 1 .. 16
    OBVIOUS
  <2>2. QED
    BY <1>5, <2>1 DEF Lines, Newest, Renamed, NoAdds, Free
<1>8. /\ \A q \in Ports : q # r => SameWires(q)
      /\ port'[r].addr = 0 /\ port'[r].in = 0 /\ port'[r].out = 0
  <2>1. ASSUME NEW q \in Ports PROVE SameWires(q) \/ ResetTo(q)
    <3>1. ~EnablePort(c)
      BY <1>3 DEF EnablePort, At
    <3>2. QED
      BY <1>1, <3>1, ContextWires
  <2>2. \A e \in Contexts : PortReset(e) => e = c
    BY <1>3, OnlyOne DEF PortReset, At, Runs, Idle, Contexts
  <2>3. \A q \in Ports : ResetTo(q) => q = r
    BY <2>2 DEF ResetTo
  <2>4. port'[r].addr = 0 /\ port'[r].in = 0 /\ port'[r].out = 0
    <3> DEFINE o == port[r]
               new == [o EXCEPT !.addr = 0, !.out = 0, !.in = 0, !.phase = "command", !.pes = TRUE]
    <3>1. port' = [port EXCEPT ![r] = new] /\ o \in RootPorts
      BY <1>1, <1>3 DEF PortReset
    <3> HIDE DEF o
    <3>2. new.addr = 0 /\ new.in = 0 /\ new.out = 0
      BY <3>1 DEF RootPorts
    <3> HIDE DEF new
    <3>3. QED
      BY <1>1, <1>3, <3>1, <3>2
  <2>5. QED
    BY <2>1, <2>3, <2>4
<1> HIDE DEF r
<1>9. ASSUME NEW e \in Contexts, NEW f \in Devices, NEW p \in Ports, NEW k \in 1 .. 16, Adding(job'[e], f, p, k)
      PROVE  e = c /\ k = 1
  BY <1>3, <1>4, <1>5, <1>9 DEF NoAdds, Adds
<1>10. Untouched'
  BY <1>2, <1>8 DEF Lines, Untouched, New, SameWires
<1>11. Starting'
  <2> SUFFICES ASSUME NEW q \in Ports, Answers(q, 0)' PROVE Opening(q)'
    BY DEF Starting
  <2>1. q = r
    BY <1>6, <1>8, AnswersSame
  <2>2. QED
    BY <1>2, <1>4, <2>1 DEF Opening, Adds
<1>12. Newest'
  BY <1>1, <1>2, <1>7, <1>8, AnswersSame DEF Newest, Free, Answers
<1>13. Distinct'
  <2> SUFFICES ASSUME NEW p \in Ports, NEW q \in Ports, NEW a \in Addresses, Answers(p, a)', Answers(q, a)', p # q
               PROVE  FALSE
    BY DEF Distinct
  <2>1. (p # r => Answers(p, a)) /\ (q # r => Answers(q, a)) /\ (p = r \/ q = r => a = 0)
    BY <1>8, AnswersSame DEF Answers
  <2>2. QED
    BY <1>6, <2>1 DEF Lines, Distinct
<1>14. Dead'
  <2>1. ~halted
    BY <1>1, <1>3, EdNone DEF Lines, Dead, Calm
  <2>2. QED
    BY <1>2, <2>1 DEF Dead
<1>15. Stages'
  <2> SUFFICES ASSUME NEW e \in Contexts, NEW f \in Devices, NEW p \in Ports, NEW k \in 1 .. 16, Adding(job'[e], f, p, k)
               PROVE  Stage(e, f, k)'
    BY DEF Stages, Adds
  <2>1. e = c /\ k = 1
    BY <1>9
  <2>2. QED
    BY <1>4, <2>1 DEF Stage
<1>16. QED
  BY <1>10, <1>11, <1>12, <1>13, <1>14, <1>15 DEF Lines

(* The handler begins, or a call of the program, and nothing is enumerated. *)
LEMMA ElseLines ==
    ASSUME Base, Base', Lines, HcdiIrq \/ Main
    PROVE  Lines'
<1>1. TypeOK /\ Jobs /\ Shape /\ Inv /\ Inv'
  BY BaseParts DEF Base
<1>2. /\ port' = port /\ ed' = ed /\ halted' = halted /\ next' = next
  BY DEF HcdiIrq, Main, Call, hc, core
<1>3. NoAdds /\ \A c \in Contexts, d \in Devices, p \in Ports, k \in 1 .. 16 : ~Adding(job'[c], d, p, k)
  BY <1>1, AddsElse
<1>4. ASSUME NEW e \in Contexts, NEW p \in Ports, Resets(e, p) PROVE FALSE
  <2>1. job[e] # <<>> /\ Item(e).op = "reset"
    BY <1>1, <1>4, HeadTyped DEF Resets
  <2>2. e = "main" /\ irqOn
    BY <2>1 DEF HcdiIrq, Main, Call, Idle, Contexts
  <2>3. Fits(e, Item(e))
    BY <1>1, <2>1, HeadFits
  <2>4. QED
    BY <2>1, <2>2, <2>3 DEF Fits, FitsAt
<1>5. Free(0) /\ Free(next)
  BY <1>1, <1>3, <1>4, Quiet
<1>6. \A p \in Ports : SameWires(p)
  BY <1>2 DEF SameWires
<1>7. Dead'
  BY <1>2 DEF Lines, Dead, Free, Answers
<1>8. QED
  BY <1>2, <1>3, <1>5, <1>6, <1>7, LinesQuiet

(* Nobody answers to more than before, and the contexts do nothing. *)
LEMMA FewerLines ==
    ASSUME Lines, job' = job, dev' = dev, next' = next, gbuf' = gbuf, ed' = ed, Dead',
           \A p \in Ports : SameWires(p) \/ ~port'[p].pes
    PROVE  Lines'
<1>1. \A p \in Ports : \A a : Answers(p, a)' => Answers(p, a)
  BY DEF Answers, SameWires
<1>2. (Free(0) => Free(0)') /\ (Free(next) => Free(next)')
  BY <1>1 DEF Free
<1>3. Untouched' /\ Distinct'
  BY <1>1 DEF Lines, Untouched, Distinct, SameWires, New
<1>4. Starting'
  <2> SUFFICES ASSUME NEW q \in Ports, Answers(q, 0)' PROVE Opening(q)'
    BY DEF Starting
  <2>1. Opening(q)
    BY <1>1 DEF Lines, Starting
  <2>2. QED
    BY <2>1 DEF Opening, Resets, Adds
<1>5. Newest'
  <2> SUFFICES ASSUME NEW q \in Ports, Answers(q, next)' PROVE Renamed(q)'
    BY DEF Newest
  <2>1. Renamed(q)
    BY <1>1 DEF Lines, Newest
  <2>2. QED
    BY <2>1 DEF Renamed, Told, Adds
<1>6. Stages'
  <2> SUFFICES ASSUME NEW e \in Contexts, NEW f \in Devices, NEW r \in Ports, NEW j \in 1 .. 16, Adds(e, f, r, j)'
               PROVE  Stage(e, f, j)'
    BY DEF Stages
  <2>1. Stage(e, f, j)
    BY DEF Lines, Stages, Adds
  <2>2. Asked(f, j) => Asked(f, j)'
    BY <1>2 DEF Asked
  <2>3. QED
    BY <1>2, <2>1, <2>2 DEF Stage
<1>7. QED
  BY <1>3, <1>4, <1>5, <1>6 DEF Lines

(* What is plugged, pulled or pressed. *)
LEMMA WorldLines ==
    ASSUME Base, Lines, World \/ UNCHANGED vars
    PROVE  Lines'
<1>1. port \in [Ports -> RootPorts]
  BY BaseParts DEF TypeOK
<1>2. job' = job /\ dev' = dev /\ next' = next /\ gbuf' = gbuf /\ ed' = ed /\ halted' = halted
  BY DEF World, Plug, Unplug, Press, vars, core
<1>3. ASSUME NEW p \in Ports, NEW k \in Kinds, Plug(p, k) PROVE \A q \in Ports : SameWires(q) \/ ~port'[q].pes
  <2>1. port' = [port EXCEPT ![p] = [dev |-> k, csc |-> TRUE, pes |-> FALSE, addr |-> 0, out |-> 0, in |-> 0,
                                     phase |-> "command", report |-> FALSE]]
    BY <1>3 DEF Plug
  <2>2. ~port'[p].pes /\ \A q \in Ports : q # p => port'[q] = port[q]
    BY <1>1, <2>1
  <2>3. QED
    BY <2>2 DEF SameWires
<1>4. ASSUME NEW p \in Ports, Unplug(p) PROVE \A q \in Ports : SameWires(q) \/ ~port'[q].pes
  <2> DEFINE o == port[p]
             new == [o EXCEPT !.dev = None, !.csc = TRUE, !.pes = FALSE]
  <2>1. o \in RootPorts /\ port' = [port EXCEPT ![p] = new]
    BY <1>1, <1>4 DEF Unplug
  <2> HIDE DEF o
  <2>2. ~new.pes
    BY <2>1 DEF RootPorts
  <2> HIDE DEF new
  <2>3. ~port'[p].pes /\ \A q \in Ports : q # p => port'[q] = port[q]
    BY <1>1, <2>1, <2>2
  <2>4. QED
    BY <2>3 DEF SameWires
<1>5. ASSUME NEW p \in Ports, Press(p) PROVE \A q \in Ports : SameWires(q)
  <2>1. port' = [port EXCEPT ![p].report = TRUE]
    BY <1>5 DEF Press
  <2>2. QED
    BY <1>1, <2>1 DEF SameWires, RootPorts
<1>6. CASE UNCHANGED vars
  BY <1>2, <1>6, FewerLines DEF vars, SameWires, Lines, Dead, Free, Answers
<1>7. CASE World
  <2>1. \A q \in Ports : SameWires(q) \/ ~port'[q].pes
    BY <1>3, <1>4, <1>5, <1>7 DEF World
  <2>2. Dead'
    BY <1>2, <2>1 DEF Lines, Dead, Free, Answers, SameWires
  <2>3. QED
    BY <1>2, <2>1, <2>2, FewerLines
<1>8. QED
  BY <1>6, <1>7

(* The endpoint is halted, without an error, when nobody answers. *)
LEMMA HaltsLines ==
    ASSUME Base, Calm, Lines, Halts, errors' = errors
    PROVE  Lines'
<1>1. errors \in Nat /\ TypeOK /\ Owned /\ Flights
  BY BaseParts DEF TypeOK
<1>2. /\ job' = job /\ dev' = dev /\ next' = next /\ gbuf' = gbuf /\ ed' = ed /\ port' = port
      /\ ed # None /\ ed.tds # <<>>
  BY DEF Halts, core
<1>3. Answering = {} \/ (ed.ep # 0 /\ Head(ed.tds).type = "control")
  BY <1>1 DEF Halts
<1>4. ~(ed.ep # 0 /\ Head(ed.tds).type = "control")
  <2> DEFINE s == ed.tds
  <2>1. s \in Seq(Sound(next)) /\ s # <<>> /\ Uniform(s, ed.addr, ed.ep)
    BY <1>1, <1>2 DEF Calm, Owned, Unshared, Flights
  <2> HIDE DEF s
  <2>2. Head(s) \in Sound(next) /\ Head(s) = s[1] /\ 1 \in 1 .. Len(s)
    BY <2>1
  <2>3. Head(s).ep = ed.ep /\ (Head(s).ep = 0 <=> Head(s).type = "control")
    BY <2>1, <2>2 DEF Uniform, Sound
  <2>4. QED
    BY <2>3 DEF s
<1>5. Free(ed.addr)
  BY <1>3, <1>4 DEF Answering, Free, Answers
<1>6. Dead'
  BY <1>2, <1>5 DEF Dead, Free, Answers
<1>7. \A p \in Ports : SameWires(p)
  BY <1>2 DEF SameWires
<1>8. QED
  BY <1>2, <1>6, <1>7, FewerLines

(* A packet to a pipe: its device has an address that the core knows. *)
LEMMA PipeLines ==
    ASSUME Base, Base', Calm, Lines, Executes, ed.ep # 0
    PROVE  Lines'
<1>1. TypeOK /\ Jobs /\ Owned /\ Flights /\ Shape
  BY BaseParts
<1>2. /\ job' = job /\ dev' = dev /\ next' = next /\ halted' = halted /\ ~halted /\ gbuf' = gbuf
      /\ ed # None /\ ed.tds \in Seq(Tds) /\ ed.tds # <<>>
  BY <1>1, ExecutesPorts DEF Executes, core
<1>3. ed.addr # 0 /\ ed.addr # next
  <2> DEFINE s == ed.tds
  <2>1. s \in Seq(Sound(next)) /\ s # <<>> /\ Uniform(s, ed.addr, ed.ep)
    BY <1>1, <1>2 DEF Calm, Owned, Unshared, Flights
  <2> HIDE DEF s
  <2>2. s[1] \in Sound(next) /\ 1 \in 1 .. Len(s)
    BY <2>1
  <2>3. s[1].ep = ed.ep /\ s[1].addr = ed.addr /\ (s[1].ep # 0 => s[1].addr # 0) /\ s[1].addr < next
        /\ s[1].addr \in Addresses
    BY <2>1, <2>2 DEF Uniform, Sound, Tds
  <2>4. next \in Nat /\ ed.addr \in Nat
    BY <2>3, BaseParts, UsbAssumption DEF Addresses
  <2>5. QED
    BY <2>3, <2>4
<1>4. ASSUME NEW p \in Ports
      PROVE  /\ port'[p].dev = port[p].dev /\ port'[p].pes = port[p].pes /\ port'[p].addr = port[p].addr
             /\ port[p].addr \in {0, next} => SameWires(p)
  BY <1>1, <1>3, PacketWires DEF Served, SameWires, Answering
<1>5. \A p \in Ports : \A a : Answers(p, a)' <=> Answers(p, a)
  BY <1>4 DEF Answers
<1>6. \A e \in Contexts, d \in Devices, p \in Ports, k \in 1 .. 16 : Adds(e, d, p, k) => job[e][1].op # "poll"
  BY DEF Lines, Stages, Stage, Asked
<1>7. Untouched' /\ Distinct' /\ Dead'
  BY <1>2, <1>4, <1>5 DEF Lines, Untouched, Distinct, Dead, SameWires, New
<1>8. Starting'
  <2> SUFFICES ASSUME NEW q \in Ports, Answers(q, 0)' PROVE Opening(q)'
    BY DEF Starting
  <2>1. Opening(q)
    BY <1>5 DEF Lines, Starting
  <2>2. QED
    BY <1>2, <2>1 DEF Opening, Resets, Adds
<1>9. Newest'
  <2> SUFFICES ASSUME NEW q \in Ports, Answers(q, next)' PROVE Renamed(q)'
    BY DEF Newest
  <2>1. Renamed(q)
    BY <1>2, <1>5 DEF Lines, Newest
  <2>2. \E c \in Contexts, d \in Devices : Adds(c, d, q, 4)
    BY <1>2, <2>1 DEF Renamed, Told
  <2>3. QED
    BY <1>2, <2>2 DEF Renamed, Adds
<1>10. Stages'
  <2> SUFFICES ASSUME NEW e \in Contexts, NEW f \in Devices, NEW r \in Ports, NEW j \in 1 .. 16, Adds(e, f, r, j)'
               PROVE  Stage(e, f, j)'
    BY DEF Stages
  <2>1. Stage(e, f, j) /\ job'[e][1].op # "poll"
    BY <1>2, <1>6 DEF Lines, Stages, Adds
  <2>2. Free(0) => Free(0)'
    BY <1>5 DEF Free
  <2>3. QED
    BY <1>2, <2>1, <2>2 DEF Stage
<1>11. QED
  BY <1>7, <1>8, <1>9, <1>10 DEF Lines

(* A control transfer that tells no address: the wires are as they were, and *)
(* what was asked for is answered.                                           *)
LEMMA AnswerLines ==
    ASSUME Base, Base', Calm, Lines, Executes, ed.ep = 0, ed.tds \in Seq(Silent)
    PROVE  Lines'
<1>1. TypeOK /\ Jobs /\ Owned /\ Flights /\ Shape /\ port \in [Ports -> RootPorts]
  BY BaseParts DEF TypeOK
<1>2. /\ job' = job /\ dev' = dev /\ next' = next /\ halted' = halted /\ ~halted
      /\ ed # None /\ ed.tds \in Seq(Tds) /\ ed.tds # <<>> /\ ed' # None /\ ed'.tds = <<>>
      /\ ed'.addr = ed.addr /\ ed'.ep = ed.ep
  BY <1>1, ExecutesPorts DEF Executes, core
<1>3. (Ask(ed.tds) => gbuf' # None) /\ (gbuf' = None => gbuf = None)
  <2>1. Answering \subseteq Ports /\ None \notin Ports
    BY UsbAssumption DEF Answering, Ports
  <2>2. QED
    BY <1>1, <2>1, ExecutesPorts
<1>4. \A q \in Ports : IF q \in Answering THEN port'[q] = Controlled(port[q], ed.tds) ELSE port'[q] = port[q]
  BY <1>1, ExecutesPorts
<1>5. ~Tell(ed.tds)
  <2>1. \A i \in 1 .. Len(ed.tds) : ed.tds[i] \in Silent
    OBVIOUS
  <2>2. QED
    BY <2>1 DEF Tell, Silent, Tells
<1>6. \A p \in Ports : SameWires(p)
  <2> TAKE p \in Ports
  <2>1. LET r == Controlled(port[p], ed.tds)
        IN  r.dev = port[p].dev /\ r.pes = port[p].pes /\ r.in = port[p].in /\ r.out = port[p].out /\ r.addr = port[p].addr
    BY <1>1, <1>2, ControlledAddr
  <2>2. QED
    BY <1>4, <2>1 DEF SameWires
<1>7. Untouched' /\ Distinct' /\ Dead'
  BY <1>2, <1>6, AnswersSame DEF Lines, Untouched, Distinct, Dead, SameWires, New
<1>8. Starting'
  <2> SUFFICES ASSUME NEW q \in Ports, Answers(q, 0)' PROVE Opening(q)'
    BY DEF Starting
  <2>1. Opening(q)
    BY <1>6, AnswersSame DEF Lines, Starting
  <2>2. QED
    BY <1>2, <2>1 DEF Opening, Resets, Adds
<1>9. Newest'
  <2> SUFFICES ASSUME NEW q \in Ports, Answers(q, next)' PROVE Renamed(q)'
    BY DEF Newest
  <2>1. Renamed(q)
    BY <1>2, <1>6, AnswersSame DEF Lines, Newest
  <2>2. \E c \in Contexts, d \in Devices : Adds(c, d, q, 4)
    BY <1>2, <2>1 DEF Renamed, Told
  <2>3. QED
    BY <1>2, <2>2 DEF Renamed, Adds
<1>10. Stages'
  <2> SUFFICES ASSUME NEW e \in Contexts, NEW f \in Devices, NEW r \in Ports, NEW j \in 1 .. 16, Adds(e, f, r, j)'
               PROVE  Stage(e, f, j)'
    BY DEF Stages
  <2>1. Stage(e, f, j)
    BY <1>2 DEF Lines, Stages, Adds
  <2>2. Free(0) => Free(0)'
    BY <1>6, AnswersSame DEF Free
  <2>3. Asked(f, j) => Asked(f, j)'
    BY <1>2, <1>3, <1>5 DEF Asked
  <2>4. QED
    BY <1>2, <1>3, <2>1, <2>2, <2>3 DEF Stage
<1>11. QED
  BY <1>7, <1>8, <1>9, <1>10 DEF Lines

(* SET_ADDRESS: the device that is enumerated is the one that hears it. *)
LEMMA TellLines ==
    ASSUME Base, Base', Calm, Lines, Executes, ed.ep = 0, ed.tds \in Seq(Telling(next)), Addressing
    PROVE  Lines'
<1>1. TypeOK /\ Jobs /\ Owned /\ Flights /\ Shape /\ port \in [Ports -> RootPorts] /\ Steps /\ next # 0
  BY BaseParts DEF TypeOK
<1>2. /\ job' = job /\ dev' = dev /\ next' = next /\ halted' = halted /\ ~halted
      /\ ed # None /\ ed.tds \in Seq(Tds) /\ ed.tds # <<>> /\ ed' # None /\ ed'.tds = <<>>
      /\ ed'.addr = ed.addr /\ ed'.ep = ed.ep
  BY <1>1, ExecutesPorts DEF Executes, core
<1>3. PICK c \in Contexts, d \in Devices, p \in Ports : Adds(c, d, p, 3) /\ job[c][1].op = "poll"
  BY DEF Addressing
<1>4. 3 \in 1 .. 16 /\ 3 <= 4 /\ 3 # 4
  OBVIOUS
<1>5. Asked(d, 3) /\ ~Named(d)
  BY <1>1, <1>3, <1>4 DEF Lines, Stages, Stage, Steps
<1>6. ed.addr = 0 /\ ed.addr = dev[d].addr /\ Tell(ed.tds)
  BY <1>2, <1>5 DEF Asked, Named
<1>7. /\ \A q \in Ports : Answers(q, 0) => q = p
      /\ \A q \in Ports : Answers(q, next) => q = p
  BY <1>1, <1>3, <1>4, Busy
<1>8. \A q \in Ports : q \in Answering <=> Answers(q, 0)
  BY <1>6 DEF Answering, Answers
<1>9. p \in Answering
  <2>1. Answering # {} /\ Answering \subseteq Ports
    BY DEF Executes, Answering
  <2>2. QED
    BY <1>7, <1>8, <2>1
<1>10. /\ port'[p].dev = port[p].dev /\ port'[p].pes = port[p].pes /\ port'[p].addr = next
       /\ port'[p].in = port[p].in /\ port'[p].out = port[p].out
  <2>1. port'[p] = Controlled(port[p], ed.tds)
    BY <1>1, <1>9, ExecutesPorts
  <2>2. LET r == Controlled(port[p], ed.tds)
        IN  r.dev = port[p].dev /\ r.pes = port[p].pes /\ r.in = port[p].in /\ r.out = port[p].out /\ r.addr = next
    BY <1>1, <1>2, <1>6, ControlledAddr
  <2>3. QED
    BY <2>1, <2>2
<1>11. \A q \in Ports : q # p => SameWires(q)
  BY <1>1, <1>7, <1>8, ExecutesPorts DEF SameWires
<1>12. Free(0)'
  BY <1>1, <1>7, <1>10, <1>11, AnswersSame DEF Free, Answers
<1>13. Starting' /\ Dead'
  BY <1>2, <1>12 DEF Starting, Free, Dead
<1>14. Untouched'
  <2>1. New(p)
    BY <1>8, <1>9 DEF Lines, Untouched, Answers
  <2>2. QED
    BY <1>2, <1>10, <1>11, <2>1 DEF Lines, Untouched, SameWires, New
<1>15. Newest'
  <2> SUFFICES ASSUME NEW q \in Ports, Answers(q, next)' PROVE Renamed(q)'
    BY DEF Newest
  <2>1. q = p
    BY <1>2, <1>7, <1>11, AnswersSame
  <2>2. Told(c)'
    BY <1>2, <1>3 DEF Told
  <2>3. QED
    BY <1>2, <1>3, <2>1, <2>2 DEF Renamed, Adds
<1>16. Distinct'
  <2> SUFFICES ASSUME NEW q \in Ports, NEW r \in Ports, NEW a \in Addresses, Answers(q, a)', Answers(r, a)', q # r
               PROVE  FALSE
    BY DEF Distinct
  <2>1. (q # p => Answers(q, a)) /\ (r # p => Answers(r, a)) /\ (q = p \/ r = p => a = next)
    BY <1>10, <1>11, AnswersSame DEF Answers
  <2>2. QED
    BY <1>7, <2>1 DEF Lines, Distinct
<1>17. Stages'
  <2> SUFFICES ASSUME NEW e \in Contexts, NEW f \in Devices, NEW r \in Ports, NEW j \in 1 .. 16, Adds(e, f, r, j)'
               PROVE  Stage(e, f, j)'
    BY DEF Stages
  <2>1. e = c /\ f = d /\ j = 3
    <3>1. Adds(e, f, r, j)
      BY <1>2 DEF Adds
    <3>2. QED
      BY SMTT(20), <1>1, <1>3, <1>4, <3>1, AddsUnique
  <2>2. Asked(f, j)'
    BY <1>2, <1>5, <1>12, <2>1 DEF Asked
  <2>3. QED
    BY <2>1, <2>2 DEF Stage
<1>18. QED
  BY <1>13, <1>14, <1>15, <1>16, <1>17 DEF Lines

(* All steps. *)
LEMMA BusNext == ASSUME Roomy, Base, Base', Bus, [Next]_vars PROVE Bus'
<1> SUFFICES ASSUME Calm' PROVE Lines'
  BY DEF Bus
<1>1. Calm /\ errors' = errors /\ Lines /\ Inv /\ TypeOK /\ Jobs
  BY CalmBefore, BaseParts DEF Bus
<1>2. ASSUME NEW c \in Contexts, Context(c) \/ FireEndsWild(c) PROVE Lines'
  <2>1. CASE Submit(c)
    BY <1>1, <2>1, SubmitLines
  <2>2. CASE Enqueue(c) \/ Fire(c)
    BY <1>1, <2>2, QueueLines
  <2>3. CASE FireEnds(c)
    BY <1>1, <2>3, FireEndsLines
  <2>4. CASE FireEndsWild(c)
    BY <1>1, <2>4, FireEndsWildLines
  <2>5. CASE Check(c) \/ Parse(c)
    BY <1>1, <2>5, CheckLines, FailLines
  <2>6. CASE Addressed(c)
    BY <1>1, <2>6, AddressedLines
  <2>7. CASE PortReset(c)
    BY <1>1, <2>7, ResetLines
  <2>8. CASE EnablePort(c)
    BY <1>1, <2>8, EnableLines
  <2>9. CASE SetupPort(c) \/ ListDevice(c) \/ Connect(c) \/ Probe(c) \/ Found(c) \/ Try(c)
             \/ Register(c) \/ Enable(c) \/ Acknowledge(c)
    <3>1. ~EnablePort(c) /\ ~PortReset(c)
      BY <2>9 DEF EnablePort, PortReset, SetupPort, ListDevice, Connect, Probe, Found, Try, Register, Enable,
                  Acknowledge, At
    <3>2. Late(c) /\ Context(c)
      BY <2>9 DEF Late, Context
    <3>3. \A p \in Ports : SameWires(p)
      BY <1>1, <3>1, <3>2, ContextWires
    <3>4. QED
      BY <1>1, <3>2, <3>3, LateLines
  <2>10. QED
    BY <1>2, <2>1, <2>2, <2>3, <2>4, <2>5, <2>6, <2>7, <2>8, <2>9 DEF Context
<1>3. CASE HcdiIrq \/ Main
  BY <1>1, <1>3, ElseLines
<1>4. CASE Executes
  <2>1. ed # None /\ (ed.tds \in Seq(Silent) \/ (ed.tds \in Seq(Telling(next)) /\ Addressing))
    BY <1>1, <1>4, ExecutesPorts, BaseParts DEF Flights
  <2>2. QED
    BY <1>1, <1>4, <2>1, PipeLines, AnswerLines, TellLines
<1>5. CASE Halts
  BY <1>1, <1>5, HaltsLines
<1>6. CASE World \/ UNCHANGED vars
  BY <1>1, <1>6, WorldLines
<1>7. QED
  BY <1>2, <1>3, <1>4, <1>5, <1>6 DEF Next

(* usb_init: nothing answers. *)
LEMMA BusInit == ASSUME Init PROVE Bus
<1>1. PICK k \in Kinds \cup {None} :
          port = [p \in Ports |-> IF p = 1 /\ k # None THEN [EmptyPort EXCEPT !.dev = k, !.csc = TRUE] ELSE EmptyPort]
  BY DEF Init
<1>2. \A p \in Ports : ~port[p].pes
  BY <1>1 DEF EmptyPort
<1>3. \A c \in Contexts, d \in Devices, p \in Ports, i \in 1 .. 16 : ~Adds(c, d, p, i)
  BY ShapeInit, CleanShaped DEF Adds
<1>4. ~halted
  BY DEF Init
<1>5. QED
  BY <1>2, <1>3, <1>4 DEF Bus, Lines, Untouched, Starting, Newest, Distinct, Dead, Stages, Answers

(* What was shown so far holds in every state. *)
LEMMA BaseInit == ASSUME Init PROVE Base
  BY InitInv, ShapeInit, NamesInit, KnownInit, FlightsInit, WiresInit DEF Base

(* In all steps, as long as there are addresses. *)
LEMMA BaseNext == ASSUME Roomy, Inv', Base, [Next]_vars PROVE Base'
  BY ShapeNext, NamesNext, KnownNext, FlightsNext, WiresNext DEF Base

-----------------------------------------------------------------------------
(* What an enumeration hears.                                              *)

(* All about the bus. *)
Grounds == Base /\ Lines /\ Calm

(* No disk answers to an address, or nobody but one port does. *)
Diskless(a) == \A p \in Ports : Answers(p, a) => port[p].dev # "disk"
Only(q, a) == \A p \in Ports : Answers(p, a) => p = q

(* The answer to an enumeration is that of its device. *)
Heard == \A c \in Contexts, d \in Devices, p \in Ports, k \in 5 .. 16 :
    Adds(c, d, p, k) /\ gbuf # None /\ (job[c][1].op = "poll" \/ k \in {11, 15}) => Only(gbuf, dev[d].addr)

(* What is true of an address that was given stays so. *)
LEMMA GivenKept ==
    ASSUME Roomy, Base, Base', [Next]_vars, NEW a \in 1 .. next - 1
    PROVE  /\ Diskless(a) => Diskless(a)'
           /\ \A q \in Ports : Only(q, a) => Only(q, a)'
<1>1. \A p \in Ports : Answers(p, a)' => Answers(p, a) /\ port'[p].dev = port[p].dev
  BY BaseParts, AnswersBack DEF Base
<1>2. QED
  BY <1>1 DEF Diskless, Only

(* A device that has an address keeps it. *)
LEMMA NamedGiven ==
    ASSUME Roomy, Base, Base', [Next]_vars, NEW d \in Devices, Named(d)
    PROVE  dev[d].addr \in 1 .. next - 1 /\ dev'[d].addr = dev[d].addr
<1>1. dev[d].addr \in Nat /\ next \in Nat /\ dev[d].addr < next /\ dev[d].addr # 0
  BY BaseParts, UsbAssumption DEF Numbers, Named, TypeOK, Structs, Addresses
<1>2. dev'[d].addr = dev[d].addr
  BY NamedKept DEF Base
<1>3. QED
  BY <1>1, <1>2

(* The device of an enumeration that was told its address. *)
LEMMA StepNamed ==
    ASSUME Base, NEW c \in Contexts, NEW d \in Devices, NEW p \in Ports, NEW k \in 5 .. 16, Adds(c, d, p, k)
    PROVE  Named(d) /\ k \in 1 .. 16
<1>1. k \in 1 .. 16 /\ ~(k <= 4)
  OBVIOUS
<1>2. QED
  BY <1>1, BaseParts DEF Steps

(* A step of a context. *)
LEMMA HeardContext ==
    ASSUME Roomy, Grounds, Base', Heard, NEW c \in Contexts, Context(c) \/ FireEndsWild(c)
    PROVE  Heard'
<1>1. TypeOK /\ Jobs /\ Shape /\ Inv /\ Inv' /\ [Next]_vars /\ Base
  BY BaseParts DEF Grounds, Base, Next
<1>2. Runs(c) /\ job[c] # <<>> /\ (\A e \in Contexts : e # c => job'[e] = job[e]) /\ Item(c) = job[c][1]
  BY <1>1, ContextFollows, HeadTyped
<1> SUFFICES ASSUME NEW e \in Contexts, NEW d \in Devices, NEW p \in Ports, NEW k \in 5 .. 16, Adding(job'[e], d, p, k),
                    gbuf' # None, job'[e][1].op = "poll" \/ k \in {11, 15}
             PROVE  Only(gbuf, dev[d].addr)'
  BY DEF Heard, Adds
<1>3. k \in 1 .. 16 /\ k - 1 \in 1 .. 16 /\ k # 1
  OBVIOUS
<1>4. e = c
  BY <1>1, <1>2, OnlyOne DEF Adds
<1>5. CASE Submit(c) /\ Adds(c, d, p, k)
  <2>1. Item(c).op = "irp"
    BY <1>5 DEF Submit, At
  <2>2. k \in Asks /\ Item(c) = AddDevice(d, p)[k]
    BY <1>1, <1>3, <1>5, <2>1, AddsAt
  <2>3. Item(c).type = "control"
    BY <1>3, <2>2, AddOps
  <2>4. gbuf' = None
    BY <1>5, <2>3 DEF Submit
  <2>5. QED
    BY <2>4
<1>6. CASE Pops(c) /\ k >= 2 /\ Adds(c, d, p, k - 1)
  <2>1. Then(c, <<>>) /\ gbuf' = gbuf
    BY <1>6 DEF Pops, FireEnds, FireEndsWild, Check, Addressed, Parse
  <2>2. job'[c] # <<>> => job'[c][1].op # "poll"
    BY <1>1, <1>2, <2>1, HeadDone
  <2>3. job'[c] # <<>>
    <3>1. job'[c] \in Seq(Items)
      BY <1>1 DEF Inv, TypeOK
    <3>2. QED
      BY <1>3, <1>4, <3>1, AddingHead
  <2>4. k \in {11, 15}
    BY <1>4, <2>2, <2>3
  <2>5. k - 1 \in {10, 14} /\ k - 1 \in 5 .. 16
    BY <2>4
  <2>6. Item(c).op = "poll"
    <3>1. k - 1 \in Asks
      BY <2>5 DEF Asks
    <3>2. Item(c).op = "poll" \/ Item(c).op = "irp"
      <4>1. Item(c).op = "poll" \/ Item(c) = AddDevice(d, p)[k - 1]
        BY <1>1, <1>3, <1>6, AddsHead
      <4>2. AddDevice(d, p)[k - 1].op = "irp"
        BY <1>3, <3>1, AddOps
      <4>3. QED
        BY <4>1, <4>2
    <3>3. Item(c).op # "irp"
      BY <1>6 DEF Pops, FireEnds, FireEndsWild, Check, Addressed, Parse, At
    <3>4. QED
      BY <3>2, <3>3
  <2>7. Only(gbuf, dev[d].addr)
    BY <1>2, <1>6, <2>1, <2>5, <2>6 DEF Heard
  <2>8. gbuf \in Ports
    BY <1>1, <2>1 DEF TypeOK
  <2>9. Named(d)
    BY <1>1, <1>6, <2>5, StepNamed
  <2>10. PICK a \in 1 .. next - 1 : a = dev[d].addr /\ dev'[d].addr = a
    BY <1>1, <2>9, NamedGiven
  <2>11. PICK q \in Ports : q = gbuf /\ q = gbuf'
    BY <2>1, <2>8
  <2>12. Only(q, a)'
    BY <1>1, <2>7, <2>10, <2>11, GivenKept
  <2>13. QED
    BY <2>10, <2>11, <2>12 DEF Only, Answers
<1>7. CASE PortReset(c) /\ k = 1
  BY <1>3, <1>7
<1>8. QED
  BY <1>1, <1>3, <1>4, <1>5, <1>6, <1>7, AddsBack

(* A packet of another transfer does not come between. *)
LEMMA HeardElse ==
    ASSUME Roomy, Grounds, Base', Heard, [Next]_vars, HcdiIrq \/ Main \/ Executes \/ Halts \/ World \/ UNCHANGED vars
    PROVE  Heard'
<1>1. TypeOK /\ Jobs /\ Shape /\ Inv /\ Inv' /\ Base /\ Owned
  BY BaseParts DEF Grounds, Base
<1> SUFFICES ASSUME NEW e \in Contexts, NEW d \in Devices, NEW p \in Ports, NEW k \in 5 .. 16, Adding(job'[e], d, p, k),
                    gbuf' # None, job'[e][1].op = "poll" \/ k \in {11, 15}
             PROVE  Only(gbuf, dev[d].addr)'
  BY DEF Heard, Adds
<1>2. k \in 1 .. 16 /\ (k \in {11, 15} => k \in 5 .. 16 /\ k \notin Asks)
  BY DEF Asks
<1>3. ~HcdiIrq /\ ~Main
  BY <1>1, <1>2, AddsElse
<1>4. job' = job /\ Adds(e, d, p, k)
  BY <1>3, WorldSteps DEF Adds
<1>5. Named(d)
  BY <1>1, <1>4, StepNamed
<1>6. PICK a \in 1 .. next - 1 : a = dev[d].addr /\ dev'[d].addr = a
  BY <1>1, <1>5, NamedGiven
<1>7. ASSUME NEW q \in Ports, q = gbuf', Only(q, a) PROVE Only(gbuf, dev[d].addr)'
  <2>1. Only(q, a)'
    BY <1>1, <1>7, GivenKept
  <2>2. QED
    BY <1>6, <1>7, <2>1 DEF Only, Answers
<1>8. CASE gbuf' = gbuf
  <2>1. gbuf \in Ports /\ Only(gbuf, a)
    BY <1>1, <1>4, <1>6, <1>8 DEF Heard, TypeOK
  <2>2. QED
    BY <1>7, <1>8, <2>1
<1>9. CASE gbuf' # gbuf
  <2>1. Executes
    BY <1>3, <1>9 DEF Halts, World, Plug, Unplug, Press, vars
  <2>2. gbuf' \in Answering /\ ed # None
    BY <1>1, <1>9, <2>1, ExecutesPorts
  <2>3. job[e][1].op = "poll"
    <3>1. SUFFICES ASSUME k \in {11, 15}, job[e][1].op # "poll" PROVE FALSE
      BY <1>4
    <3>2. job[e] # <<>> /\ ~Idle(e) /\ Item(e).op \notin {"queue", "poll"}
      <4>1. job[e] # <<>> /\ Item(e) = job[e][1] /\ Item(e) = AddDevice(d, p)[k]
        BY <1>1, <1>2, <1>4, <3>1, AddsHead
      <4>2. AddDevice(d, p)[k].op = "parse"
        BY <1>2, <3>1, AddOps, StepTyped
      <4>3. QED
        BY <4>1, <4>2 DEF Idle
    <3>3. PICK f \in Contexts : InTransfer(f)
      BY <1>1, <2>2 DEF Grounds, Calm, Owned, Unshared, Contexts
    <3>4. f # e /\ ~Idle(f)
      BY <3>2, <3>3 DEF InTransfer
    <3>5. CASE e = "irq"
      BY <1>1, <3>2, <3>3, <3>4, <3>5 DEF Grounds, Calm, Owned, Unshared, Contexts
    <3>6. CASE e = "main"
      <4>1. f = "irq"
        BY <3>4, <3>6 DEF Contexts
      <4>2. irqOn
        BY <1>1, <3>4, <4>1, HeadFits DEF Idle
      <4>3. QED
        BY <1>1, <1>2, <1>4, <3>6, <4>2, AddsMasked
    <3>7. QED
      BY <3>5, <3>6 DEF Contexts
  <2>4. Asked(d, k)
    BY <1>2, <1>4, <2>3 DEF Grounds, Lines, Stages, Stage
  <2>5. gbuf' \in Ports /\ Answers(gbuf', a) /\ a \in Addresses
    <3>1. a = ed.addr
      BY <1>6, <2>4 DEF Asked
    <3>2. a \in Addresses
      BY <1>1, <1>6 DEF TypeOK, Structs
    <3>3. QED
      BY <2>2, <3>1, <3>2 DEF Answering, Answers
  <2>6. Only(gbuf', a)
    BY <2>5 DEF Grounds, Lines, Distinct, Only
  <2>7. QED
    BY <1>7, <2>5, <2>6
<1>10. QED
  BY <1>8, <1>9

-----------------------------------------------------------------------------
(* The TDs that fly.                                                       *)

(* The enumeration's answers, in all steps. *)
LEMMA HeardNext ==
    ASSUME Roomy, Grounds, Base', Heard, [Next]_vars
    PROVE  Heard'
  BY HeardContext, HeardElse DEF Next

(* The TDs of the endpoint, those that are still to be enqueued, and all. *)
Held == IF ed # None THEN ed.tds ELSE <<>>
Queue(c) == IF job[c] # <<>> /\ job[c][1].op = "queue" THEN job[c][1].tds ELSE <<>>
Flying == Held \o (Queue("main") \o Queue("irq"))

(* Sequences in parts. *)
LEMMA Parts ==
    ASSUME NEW S, NEW s \in Seq(S), NEW t \in Seq(S)
    PROVE  /\ s \o t \in Seq(S) /\ s \o <<>> = s /\ <<>> \o s = s
           /\ t # <<>> => (s \o <<Head(t)>>) \o Tail(t) = s \o t /\ <<Head(t)>> \o Tail(t) = t
<1>1. s \o t \in Seq(S) /\ s \o <<>> = s /\ <<>> \o s = s
  OBVIOUS
<1>2. ASSUME t # <<>> PROVE (s \o <<Head(t)>>) \o Tail(t) = s \o t /\ <<Head(t)>> \o Tail(t) = t
  <2>1. Tail(t) \in Seq(S) /\ Len(Tail(t)) = Len(t) - 1 /\ Len(t) \in Nat /\ Len(t) >= 1 /\ Head(t) = t[1] /\ t[1] \in S
        /\ \A i \in 1 .. Len(t) - 1 : Tail(t)[i] = t[i + 1]
    BY <1>2
  <2> DEFINE one == <<Head(t)>>
             u == Tail(t)
  <2>2. one \in Seq(S) /\ Len(one) = 1 /\ one[1] = t[1]
    BY <2>1
  <2> HIDE DEF one, u
  <2>3. one \o u = t
    <3> DEFINE r == one \o u
    <3>1. u \in Seq(S) /\ Len(u) = Len(t) - 1 /\ \A i \in 1 .. Len(t) - 1 : u[i] = t[i + 1]
      BY <2>1 DEF u
    <3>2. r \in Seq(S) /\ Len(r) = Len(t) /\ r[1] = t[1] /\ \A i \in 2 .. Len(t) : r[i] = u[i - 1]
      <4>1. one \in Seq(S) /\ u \in Seq(S) /\ r = one \o u
        BY <2>2, <3>1
      <4> HIDE DEF r
      <4>2. /\ r \in Seq(S) /\ Len(r) = Len(one) + Len(u) /\ Len(one) \in Nat /\ Len(u) \in Nat
            /\ \A i \in 1 .. Len(one) : r[i] = one[i]
            /\ \A i \in Len(one) + 1 .. Len(r) : r[i] = u[i - Len(one)]
        BY ONLY <4>1, Concat
      <4>3. Len(r) = Len(t) /\ 1 \in 1 .. Len(one) /\ Len(one) + 1 = 2
        BY <2>1, <2>2, <3>1, <4>2
      <4>4. QED
        BY <2>2, <4>2, <4>3
    <3>3. \A i \in 2 .. Len(t) : i - 1 \in 1 .. Len(t) - 1 /\ i - 1 + 1 = i
      BY <2>1
    <3>4. \A i \in 2 .. Len(t) : r[i] = t[i]
      BY <3>1, <3>2, <3>3
    <3>5. \A i \in 1 .. Len(t) : i = 1 \/ i \in 2 .. Len(t)
      BY <2>1
    <3>6. \A i \in 1 .. Len(t) : r[i] = t[i]
      BY <3>2, <3>4, <3>5
    <3> HIDE DEF r
    <3>7. r = t
      BY <3>2, <3>6
    <3>8. QED
      BY <3>7 DEF r
  <2>4. (s \o one) \o u = s \o (one \o u)
    <3>1. u \in Seq(S)
      BY <2>1 DEF u
    <3>2. QED
      BY SMTT(20), <2>2, <3>1
  <2>5. QED
    BY <2>3, <2>4 DEF one, u
<1>3. QED
  BY <1>1, <1>2

(* They are TDs. *)
LEMMA FlyingTyped ==
    ASSUME TypeOK
    PROVE  /\ Held \in Seq(Tds) /\ Flying \in Seq(Tds)
           /\ \A c \in Contexts : Queue(c) \in Seq(Tds)
<1>1. Held \in Seq(Tds)
  BY DEF TypeOK, Held, Endpoints
<1>2. ASSUME NEW c \in Contexts PROVE Queue(c) \in Seq(Tds)
  BY HeadTyped, ItemTypes DEF Queue
<1>3. "main" \in Contexts /\ "irq" \in Contexts
  BY DEF Contexts
<1>4. QED
  BY <1>1, <1>2, <1>3 DEF Flying

(* What flies is that of the context that runs. *)
LEMMA FlyingAlone ==
    ASSUME TypeOK, Owned, Calm, NEW c \in Contexts, Runs(c)
    PROVE  /\ \A e \in Contexts : e # c => Queue(e) = <<>>
           /\ Flying = Held \o Queue(c)
           /\ Item(c).op \notin {"queue", "poll"} => ed = None /\ Flying = <<>>
           /\ Item(c).op # "queue" => Flying = Held
<1>1. ASSUME NEW e \in Contexts, e # c PROVE Queue(e) = <<>>
  <2>1. SUFFICES ASSUME job[e] # <<>>, job[e][1].op = "queue" PROVE FALSE
    BY DEF Queue
  <2>2. InTransfer(e)
    BY <2>1, HeadTyped DEF InTransfer, Idle
  <2>3. QED
    BY <1>1, <2>2 DEF Calm, Owned, Unshared, Runs, InTransfer, Contexts
<1>2. Held \in Seq(Tds) /\ Queue(c) \in Seq(Tds)
  BY FlyingTyped
<1>3. Flying = Held \o Queue(c)
  <2>1. CASE c = "main"
    BY <1>1, <1>2, <2>1 DEF Flying, Contexts
  <2>2. CASE c = "irq"
    BY <1>1, <1>2, <2>2 DEF Flying, Contexts
  <2>3. QED
    BY <2>1, <2>2 DEF Contexts
<1>4. Item(c).op # "queue" => Queue(c) = <<>>
  BY HeadTyped DEF Queue
<1>5. Item(c).op \notin {"queue", "poll"} => ed = None
  BY EdNone DEF Calm
<1>6. Item(c).op # "queue" => Flying = Held
  BY <1>2, <1>3, <1>4
<1>7. QED
  BY <1>1, <1>3, <1>5, <1>6 DEF Held

(* What flies after the step of a context. *)
LEMMA FlyingThen ==
    ASSUME TypeOK, TypeOK', Owned, Calm, NEW c \in Contexts, Runs(c), \A e \in Contexts : e # c => job'[e] = job[e]
    PROVE  Flying' = Held' \o Queue(c)'
<1>1. \A e \in Contexts : e # c => Queue(e)' = <<>>
  BY FlyingAlone DEF Queue
<1>2. Held' \in Seq(Tds) /\ Queue(c)' \in Seq(Tds)
  <2>1. Held' \in Seq(Tds)
    BY DEF TypeOK, Held, Endpoints
  <2>2. ASSUME job'[c] # <<>>, job'[c][1].op = "queue" PROVE job'[c][1].tds \in Seq(Tds)
    <3>1. job'[c][1] \in Items
      BY <2>2 DEF TypeOK
    <3>2. QED
      BY <2>2, <3>1, ItemTypes
  <2>3. QED
    BY <2>1, <2>2 DEF Queue
<1>3. CASE c = "main"
  BY <1>1, <1>2, <1>3 DEF Flying, Contexts
<1>4. CASE c = "irq"
  BY <1>1, <1>2, <1>4 DEF Flying, Contexts
<1>5. QED
  BY <1>3, <1>4 DEF Contexts

(* usb_submit_irp: nothing was under way. *)
LEMMA FlyingSubmit ==
    ASSUME Base, Base', Calm, NEW c \in Contexts, Submit(c)
    PROVE  Flying = <<>> /\ Flying' = SubmitIrp(Item(c)) /\ SubmitIrp(Item(c)) \in Seq(Tds)
<1> DEFINE tds == SubmitIrp(Item(c))
<1>1. TypeOK /\ TypeOK' /\ Jobs /\ Jobs' /\ Owned /\ Inv /\ Names /\ Known /\ Shape /\ Context(c)
  BY BaseParts DEF Base, Inv, Context
<1>2. Runs(c) /\ Item(c).op = "irp" /\ tds \in Seq(Tds) /\ tds # <<>>
  BY <1>1, SubmitSound
<1> HIDE DEF tds
<1>3. ed = None /\ Flying = <<>>
  BY <1>1, <1>2, FlyingAlone
<1>4. Flying' = Held' \o Queue(c)'
  BY <1>1, <1>2, ContextFollows, FlyingThen
<1>5. CASE Interruptible(c)
  <2>1. job'[c] # <<>> /\ job'[c][1] = [op |-> "queue", tds |-> tds]
    BY <1>1, <1>5, SubmitShape DEF tds
  <2>2. Queue(c)' = tds /\ Held' = <<>>
    BY <1>3, <1>5, <2>1 DEF Queue, Held, Submit
  <2>3. QED
    BY <1>2, <1>3, <1>4, <2>2, Parts DEF tds
<1>6. CASE ~Interruptible(c)
  <2>1. job'[c][1].op = "poll" /\ ed' = Joined(tds)
    BY <1>1, <1>6, SubmitShape DEF tds, Submit
  <2>2. ed' # None /\ ed'.tds = tds
    BY <1>1, <1>2, <1>3, <2>1, JoinedTyped, NoEndpoint
  <2>3. Queue(c)' = <<>> /\ Held' = tds
    BY <2>1, <2>2 DEF Queue, Held
  <2>4. QED
    BY <1>2, <1>3, <1>4, <2>3, Parts DEF tds
<1>7. QED
  BY <1>5, <1>6

(* hcdi_enqueue and the beginning of hcdi_fire. *)
LEMMA FlyingQueue ==
    ASSUME Base, Base', Calm, NEW c \in Contexts, Enqueue(c) \/ Fire(c)
    PROVE  Flying' = Flying
<1> DEFINE x == Item(c)
           t == x.tds
<1>1. TypeOK /\ TypeOK' /\ Jobs /\ Owned /\ Inv /\ Context(c)
  BY BaseParts DEF Base, Inv, Context
<1>2. job[c] # <<>> /\ x \in Items /\ x.op = "queue" /\ t \in Seq(Tds) /\ Runs(c) /\ x = job[c][1]
  BY <1>1, HeadTyped, ItemTypes DEF Enqueue, Fire, At, Runs, Idle
<1> HIDE DEF x
<1>3. Flying = Held \o t /\ Flying' = Held' \o Queue(c)' /\ Held \in Seq(Tds)
  <2>1. Queue(c) = t
    BY <1>2 DEF Queue
  <2>2. QED
    BY <1>1, <1>2, <2>1, FlyingAlone, FlyingThen, FlyingTyped, ContextFollows
<1> HIDE DEF t
<1>4. CASE Enqueue(c)
  <2> DEFINE one == <<Head(t)>>
             y == [op |-> "queue", tds |-> Tail(t)]
  <2>1. t # <<>> /\ ed' = Joined(one) /\ Then(c, <<y>>)
    BY <1>4 DEF Enqueue, t, x
  <2>2. Tail(t) \in Seq(Tds) /\ one \in Seq(Tds) /\ one # <<>>
    BY <1>2, <2>1
  <2>3. y \in Items /\ y.op = "queue" /\ y.tds = Tail(t)
    BY <2>2, SmallItems
  <2> HIDE DEF y, one
  <2>4. Queue(c)' = Tail(t)
    BY <1>1, <1>2, <2>1, <2>3, HeadNext DEF Queue
  <2>5. Held' = Held \o one
    <3>1. CASE ed = None
      <4>1. Held = <<>> /\ ed' # None /\ ed'.tds = one
        BY <1>1, <2>1, <2>2, <3>1, JoinedTyped, NoEndpoint DEF Held
      <4>2. QED
        BY <2>2, <4>1, Parts DEF Held
    <3>2. CASE ed # None
      BY <1>1, <2>1, <2>2, <3>2, JoinedTyped, NoEndpoint DEF Held
    <3>3. QED
      BY <3>1, <3>2
  <2>6. QED
    BY SMTT(20), <1>2, <1>3, <2>1, <2>4, <2>5, Parts DEF one
<1>5. CASE Fire(c)
  <2>1. t = <<>> /\ ed' = ed /\ (Then(c, <<>>) \/ Then(c, <<[op |-> "poll"]>>))
    BY <1>5 DEF Fire, t, x
  <2> DEFINE y == [op |-> "poll"]
  <2>2. y \in Items /\ y.op = "poll"
    BY SmallItems
  <2>3. Then(c, <<>>) \/ Then(c, <<y>>)
    BY <2>1
  <2> HIDE DEF y
  <2>4. Queue(c)' = <<>>
    BY <1>1, <1>2, <2>2, <2>3, HeadNext, HeadDone DEF Queue
  <2>5. Held' = Held
    BY <2>1 DEF Held
  <2>6. QED
    BY <1>3, <2>1, <2>4, <2>5
<1>6. QED
  BY <1>4, <1>5

(* The end of hcdi_fire. *)
LEMMA FlyingEnds ==
    ASSUME Base, Base', Calm, NEW c \in Contexts, FireEnds(c) \/ FireEndsWild(c)
    PROVE  Flying = Held /\ Flying' = <<>>
<1>1. TypeOK /\ TypeOK' /\ Jobs /\ Owned /\ Inv
  BY BaseParts DEF Base, Inv
<1>2. job[c] # <<>> /\ Item(c).op = "poll" /\ Runs(c) /\ Then(c, <<>>) /\ ed' = None
  BY DEF FireEnds, FireEndsWild, At, Runs, Idle, hc
<1>3. Flying = Held /\ Flying' = Held' \o Queue(c)'
  <2>1. \A e \in Contexts : e # c => job'[e] = job[e]
    BY <1>1, <1>2, HeadDone
  <2>2. QED
    BY <1>1, <1>2, <2>1, FlyingAlone, FlyingThen
<1>4. Queue(c)' = <<>>
  BY <1>1, <1>2, HeadDone DEF Queue
<1>5. QED
  BY <1>2, <1>3, <1>4 DEF Held

(* A context that does something else. *)
LEMMA FlyingKept ==
    ASSUME Base, Base', Calm, NEW c \in Contexts, Context(c) \/ FireEndsWild(c), Item(c).op \notin {"irp", "queue", "poll"}, ed' = ed
    PROVE  Flying = <<>> /\ Flying' = <<>>
<1>1. TypeOK /\ TypeOK' /\ Jobs /\ Owned /\ Inv
  BY BaseParts DEF Base, Inv
<1>2. job[c] # <<>> /\ Runs(c) /\ Follows(job'[c], job[c]) /\ Item(c) = job[c][1]
      /\ \A e \in Contexts : e # c => job'[e] = job[e]
  BY <1>1, ContextFollows, HeadTyped
<1>3. Flying = <<>> /\ ed = None /\ Flying' = Held' \o Queue(c)'
  BY <1>1, <1>2, FlyingAlone, FlyingThen
<1>4. Queue(c)' = <<>>
  BY <1>2 DEF Queue, Follows
<1>5. QED
  BY <1>3, <1>4 DEF Held

(* The handler, a call of the program, and what happens to the ports. *)
LEMMA FlyingElse ==
    ASSUME Base, Base', HcdiIrq \/ Main \/ Halts \/ World \/ UNCHANGED vars
    PROVE  Flying' = Flying
<1>1. TypeOK /\ TypeOK' /\ Jobs
  BY BaseParts DEF Base, Inv
<1>2. ed' = ed
  BY DEF HcdiIrq, Main, Call, Halts, World, Plug, Unplug, Press, vars, hc
<1>3. CASE Halts \/ World \/ UNCHANGED vars
  <2>1. job' = job
    BY <1>3, WorldSteps
  <2>2. QED
    BY <1>2, <2>1 DEF Flying, Held, Queue
<1>4. CASE HcdiIrq
  <2>1. job["irq"] = <<>> /\ job'["main"] = job["main"]
    BY <1>1, <1>4, HandlerClean DEF HcdiIrq, Idle
  <2>2. job'["irq"] # <<>> => job'["irq"][1].op # "queue"
    <3>1. job'["irq"] # <<>> => 1 \in 1 .. Len(job'["irq"])
      BY <1>1 DEF TypeOK, Contexts
    <3>2. QED
      BY <1>1, <1>4, <3>1, HandlerClean
  <2>3. QED
    BY <1>2, <2>1, <2>2 DEF Flying, Held, Queue
<1>5. CASE Main
  <2>1. job["main"] = <<>> /\ job'["irq"] = job["irq"]
    BY <1>1, <1>5, CallClean DEF Main, Call, Idle
  <2>2. PICK x \in Items : x.op = "irp" /\ job'["main"] = <<x>>
    BY <1>1, <1>5, CallClean DEF Main
  <2>3. job'["main"][1] = x
    BY <2>2
  <2>4. QED
    BY <1>2, <2>1, <2>2, <2>3 DEF Flying, Held, Queue
<1>6. QED
  BY <1>3, <1>4, <1>5

(* The controller takes away what it has retired. *)
LEMMA FlyingExecutes ==
    ASSUME Base, Executes
    PROVE  \E rest \in Seq(Tds) : /\ Flying = ed.tds \o rest /\ Flying' = ed'.tds \o rest
                                  /\ ed.tds \in Seq(Tds) /\ ed.tds # <<>>
                                  /\ ed'.tds \in {ed.tds, Tail(ed.tds), <<>>} /\ ed'.tds \in Seq(Tds)
<1> DEFINE rest == Queue("main") \o Queue("irq")
<1>1. TypeOK /\ Jobs
  BY BaseParts
<1>2. /\ job' = job /\ ed # None /\ ed' # None /\ ed.tds # <<>> /\ ed.tds \in Seq(Tds)
      /\ ed'.tds \in {ed.tds, Tail(ed.tds), <<>>}
  BY <1>1, ExecutesStep, ExecutesPorts
<1>3. rest \in Seq(Tds)
  BY <1>1, FlyingTyped DEF Contexts
<1>4. Flying = ed.tds \o rest /\ Flying' = ed'.tds \o rest
  BY <1>2 DEF Flying, Held, Queue
<1>5. ed'.tds \in Seq(Tds)
  <2> DEFINE s == ed.tds
  <2>1. s \in Seq(Tds) /\ s # <<>> /\ ed'.tds \in {s, Tail(s), <<>>}
    BY <1>2
  <2> HIDE DEF s
  <2>2. Tail(s) \in Seq(Tds) /\ <<>> \in Seq(Tds)
    BY <2>1
  <2>3. QED
    BY <2>1, <2>2
<1> HIDE DEF rest
<1>6. QED
  BY <1>2, <1>3, <1>4, <1>5

-----------------------------------------------------------------------------
(* Keyboards are no disks.                                                 *)

(* A job in which the head was replaced by items of a set. *)
LEMMA ThenIn ==
    ASSUME TypeOK, NEW S, NEW c \in Contexts, job[c] # <<>>, job[c] \in Seq(S),
           NEW items \in Seq(Items), items \in Seq(S), Then(c, items)
    PROVE  job'[c] \in Seq(S)
<1> DEFINE q == job[c]
<1>1. job'[c] = items \o Tail(q)
  BY JobTyped
<1>2. q \in Seq(S) /\ q # <<>>
  OBVIOUS
<1> HIDE DEF q
<1>3. Tail(q) \in Seq(S)
  BY <1>2
<1>4. QED
  BY <1>1, <1>3

(* What the steps of a context make: interrupt transfers are not among it. *)
LEMMA JobsIn ==
    ASSUME Inv, Inv', Shape, NEW S, \A x \in Items : (x.op = "irp" => x.type # "interrupt") => x \in S,
           \A e \in Contexts : job[e] \in Seq(S), NEW c \in Contexts, Context(c) \/ FireEndsWild(c)
    PROVE  \A e \in Contexts : job'[e] \in Seq(S)
<1>1. TypeOK /\ Jobs /\ Registers /\ TypeOK' /\ Jobs' /\ Counted /\ Alive
  BY DEF Inv
<1>2. job[c] # <<>> /\ job[c] \in Seq(Items) /\ job[c] \in Seq(S) /\ Runs(c) /\ \A e \in Contexts : e # c => job'[e] = job[e]
  BY <1>1, ContextFollows DEF TypeOK
<1> DEFINE Fine == job'[c] \in Seq(S)
<1>3. ASSUME NEW items \in Seq(Items), Then(c, items), items \in Seq(S) PROVE Fine
  BY <1>1, <1>2, <1>3, ThenIn
<1>4. ASSUME NEW x \in Items, Then(c, <<x>>), x.op # "irp" PROVE Fine
  <2>1. x \in S
    BY <1>4
  <2>2. <<x>> \in Seq(Items) /\ <<x>> \in Seq(S)
    BY <2>1
  <2>3. QED
    BY <1>3, <1>4, <2>2
<1>5. ASSUME Then(c, <<>>) PROVE Fine
  <2>1. <<>> \in Seq(Items) /\ <<>> \in Seq(S)
    OBVIOUS
  <2>2. QED
    BY <1>3, <1>5, <2>1
<1> SUFFICES Fine
  BY <1>2 DEF Fine
<1> HIDE DEF Fine
<1>6. CASE Submit(c) \/ Enqueue(c) \/ Fire(c)
  <2>1. CASE Submit(c)
    <3>1. Item(c) \in Irps
      BY <1>1, <2>1, HeadFits, ItemTypes DEF Submit, At, Runs, Idle
    <3> DEFINE x == IF Interruptible(c) THEN [op |-> "queue", tds |-> SubmitIrp(Item(c))] ELSE [op |-> "poll"]
    <3>2. Then(c, <<x>>)
      BY <2>1 DEF Submit
    <3>3. x \in Items /\ x.op \in {"queue", "poll"}
      BY <3>1, <1>1, SmallItems, SubmitTyped
    <3> HIDE DEF x
    <3>4. QED
      BY <1>4, <3>2, <3>3
  <2>2. CASE Enqueue(c)
    <3> DEFINE t == Item(c).tds
               x == [op |-> "queue", tds |-> Tail(t)]
    <3>1. t \in Seq(Tds) /\ t # <<>>
      BY <1>1, <2>2, HeadFits, ItemTypes DEF Enqueue, At, Runs, Idle
    <3>2. Then(c, <<x>>)
      BY <2>2 DEF Enqueue
    <3> HIDE DEF t
    <3>3. Tail(t) \in Seq(Tds)
      BY <3>1
    <3>4. x \in Items /\ x.op = "queue"
      BY <3>3, SmallItems
    <3> HIDE DEF x
    <3>5. QED
      BY <1>4, <3>2, <3>4
  <2>3. CASE Fire(c)
    <3> DEFINE x == [op |-> "poll"]
    <3>1. Then(c, <<>>) \/ Then(c, <<x>>)
      BY <2>3 DEF Fire
    <3>2. x \in Items /\ x.op = "poll"
      BY SmallItems
    <3> HIDE DEF x
    <3>3. QED
      BY <1>4, <1>5, <3>1, <3>2
  <2>4. QED
    BY <1>6, <2>1, <2>2, <2>3
<1>7. CASE Pops(c)
  BY <1>5, <1>7 DEF Pops, FireEnds, FireEndsWild, Check, Addressed, Parse
<1>8. CASE PortReset(c)
  <2>1. count + 1 \in Devices /\ Item(c).port \in Ports /\ Then(c, AddDevice(count + 1, Item(c).port))
    BY <1>1, <1>8, PortResetStep, HeadFits, ItemTypes DEF PortReset, At, Runs, Idle
  <2>2. PICK a : a = AddDevice(count + 1, Item(c).port)
    OBVIOUS
  <2>3. a \in Seq(Items) /\ Len(a) = 16
    BY <2>2, <2>1, AddDeviceIs
  <2>4. ASSUME NEW k \in 1 .. 16 PROVE a[k].op = "irp" => a[k].type # "interrupt"
    <3>1. CASE k \in Asks
      BY <2>2, <2>1, <3>1, AddOps
    <3>2. CASE k \in {2, 6}
      BY <2>2, <2>1, <3>2, AddOps, StepTyped
    <3>3. CASE k = 4
      BY <2>2, <2>1, <3>3, AddOps, StepTyped
    <3>4. CASE k \in {11, 15}
      BY <2>2, <2>1, <3>4, AddOps, StepTyped
    <3>5. CASE k = 16
      BY <2>2, <2>1, <3>5, AddOps, StepTyped
    <3>6. QED
      BY <2>2, <2>1, <3>1, <3>2, <3>3, <3>4, <3>5, AddOps
  <2>5. \A k \in 1 .. 16 : a[k] \in S
    <3>1. \A k \in 1 .. 16 : a[k] \in Items
      BY <2>2, <2>1, AddOps
    <3>2. QED
      BY <2>4, <3>1
  <2>6. a \in Seq(S)
    <3>1. \A k \in 1 .. Len(a) : a[k] \in S
      BY <2>3, <2>5
    <3>2. a \in Seq(Items)
      BY <2>3
    <3>3. QED
      BY ONLY <3>1, <3>2
  <2>7. QED
    BY <1>3, <2>2, <2>1, <2>3, <2>6
<1>9. CASE Late(c)
  <2>1. PICK items \in Seq(Made(c)) : Then(c, items)
    BY <1>1, <1>9, LateItems
  <2>2. Made(c) \subseteq S /\ Made(c) \subseteq Items
    BY DEF Made, Makes
  <2>3. items \in Seq(S) /\ items \in Seq(Items)
    BY <2>2
  <2>4. QED
    BY <1>3, <2>1, <2>3
<1>10. CASE Check(c) /\ gbuf = None
  <2>1. job'[c] = Rest(c)
    BY <1>1, <1>10 DEF Check, TypeOK
  <2>2. PICK n \in 1 .. Len(job[c]) : Rest(c) = SubSeq(job[c], n + 1, Len(job[c]))
    BY <1>1, <1>2, <1>10, RestOfJob DEF Check, At
  <2> DEFINE q == job[c]
             r == SubSeq(q, n + 1, Len(q))
  <2>3. Ordered(q) /\ q \in Seq(Items) /\ q \in Seq(S) /\ Len(q) \in Nat /\ n \in 1 .. Len(q)
    BY <1>1, <1>2 DEF Jobs
  <2> HIDE DEF q
  <2>4. /\ r \in Seq(Items) /\ Len(r) = Len(q) - n
        /\ \A i \in 1 .. Len(q) - n : r[i] = q[i + n]
    BY <2>3, OrderedSuffix
  <2> HIDE DEF r
  <2>5. \A i \in 1 .. Len(q) - n : i + n \in 1 .. Len(q)
    BY <2>3
  <2>6. \A i \in 1 .. Len(r) : r[i] \in S
    BY <2>3, <2>4, <2>5
  <2>7. r \in Seq(S)
    BY <2>4, <2>6
  <2>8. QED
    BY <2>1, <2>2, <2>7 DEF q, r, Fine
<1>11. QED
  BY <1>6, <1>7, <1>8, <1>9, <1>10 DEF Context, Late, Pops

(* The keyboard driver remembers a keyboard. *)
LEMMA HidkbBack ==
    ASSUME Inv, [Next]_vars
    PROVE  data'["hidkb"] \in {data["hidkb"], None}
           \/ (data'["hidkb"] \in Devices /\ dev[data'["hidkb"]].kind = "keyboard")
<1>1. TypeOK /\ Jobs
  BY DEF Inv
<1>2. ASSUME NEW c \in Contexts, Probe(c)
      PROVE  data'["hidkb"] = data["hidkb"] \/ (data'["hidkb"] \in Devices /\ dev[data'["hidkb"]].kind = "keyboard")
  <2> DEFINE set == {d \in Devices : dev[d].kind = "keyboard"}
             found == Filter(devices, set)
  <2>1. data \in [ToSet(Drivers) -> Devices \cup {None}] /\ devices \in Seq(Devices)
    BY <1>1 DEF TypeOK
  <2>2. found \in Seq(ToSet(devices) \cap set)
    BY <2>1, FilterKeeps
  <2>3. data' = data \/ (found # <<>> /\ data' = [data EXCEPT !["hidkb"] = Last(found)])
        \/ \E v : data' = [data EXCEPT !["hub"] = v]
    <3>1. ProbeKeyboard(c) => data' = data \/ (found # <<>> /\ data' = [data EXCEPT !["hidkb"] = Last(found)])
      BY DEF ProbeKeyboard
    <3>2. ProbeStorage(c) => data' = data
      BY DEF ProbeStorage
    <3>3. ProbeHub(c) => data' = data \/ \E v : data' = [data EXCEPT !["hub"] = v]
      BY DEF ProbeHub
    <3>4. ProbeKeyboard(c) \/ ProbeStorage(c) \/ ProbeHub(c)
      <4>1. Item(c).drv \in {"hidkb", "storage", "hub"}
        BY <1>1, <1>2, HeadTyped, ItemTypes DEF Probe, At, Runs, Idle
      <4>2. QED
        BY <1>2, <4>1 DEF Probe
    <3>5. QED
      BY <3>1, <3>2, <3>3, <3>4
  <2>4. \A T : found # <<>> /\ found \in Seq(T) => Last(found) \in T
    <3> HIDE DEF found
    <3>1. QED
      BY DEF Last
  <2> HIDE DEF found
  <2>5. CASE found # <<>> /\ data' = [data EXCEPT !["hidkb"] = Last(found)]
    <3>1. data'["hidkb"] = Last(found)
      BY <2>1, <2>5, DriversAre
    <3>2. Last(found) \in ToSet(devices) \cap set
      BY <2>2, <2>4, <2>5
    <3>3. QED
      BY <3>1, <3>2
  <2>6. CASE \E v : data' = [data EXCEPT !["hub"] = v]
    BY <2>1, <2>6, DriversAre
  <2>7. QED
    BY <2>3, <2>5, <2>6
<1>3. ASSUME NEW c \in Contexts, SetupPort(c) \/ EnablePort(c) PROVE data'["hidkb"] \in {data["hidkb"], None}
  <2>1. Item(c).port \in Ports
    BY <1>1, <1>3, HeadTyped, ItemTypes DEF SetupPort, EnablePort, At, Runs, Idle
  <2>2. Forget(Item(c).port) \/ UNCHANGED <<connected, data, devices, dev, crashed>>
    BY <1>3 DEF SetupPort, EnablePort
  <2>3. QED
    BY <1>1, <2>1, <2>2, ForgetRest
<1>4. ASSUME NEW c \in Contexts, Context(c) \/ FireEndsWild(c), ~Probe(c), ~SetupPort(c), ~EnablePort(c) PROVE data' = data
  BY <1>4 DEF Context, Submit, Enqueue, Fire, FireEnds, FireEndsWild, Check, Addressed, Parse,
              ListDevice, Connect, Found, Try, Register, Enable, Acknowledge, PortReset, core
<1>5. ASSUME HcdiIrq \/ Main \/ Executes \/ Halts \/ World \/ UNCHANGED vars PROVE data' = data
  BY <1>5 DEF HcdiIrq, Main, Call, Executes, Halts, World, Plug, Unplug, Press, vars, core
<1>6. QED
  BY <1>2, <1>3, <1>4, <1>5 DEF Next

(* A struct that a transfer from an interrupt endpoint may name: no disk *)
(* answers to its address.                                               *)
Safe(d) == Named(d) /\ Diskless(dev[d].addr)
Pure == {x \in Items : x.op = "irp" /\ x.type = "interrupt" => Safe(x.dev)}

(* Keyboards are no disks, also when the struct says what was plugged in. *)
Boards ==
    /\ \A d \in Devices : dev[d].kind = "keyboard" => Safe(d)
    /\ data["hidkb"] # None => Safe(data["hidkb"])
    /\ \A c \in Contexts : job[c] \in Seq(Pure)

(* It stays so. *)
LEMMA SafeLater ==
    ASSUME Roomy, Base, Base', [Next]_vars, NEW d \in Devices, Safe(d)
    PROVE  Safe(d)'
<1>1. Named(d) /\ Diskless(dev[d].addr)
  BY DEF Safe
<1>2. PICK a \in 1 .. next - 1 : a = dev[d].addr /\ dev'[d].addr = a
  BY <1>1, NamedGiven
<1>3. Diskless(a)'
  BY <1>1, <1>2, GivenKept
<1>4. a # 0
  BY <1>1, <1>2 DEF Named
<1>5. QED
  BY <1>2, <1>3, <1>4 DEF Safe, Named, Diskless, Answers

(* So do the items of a job. *)
LEMMA PureLater ==
    ASSUME Roomy, Base, Base', [Next]_vars, NEW c \in Contexts, job[c] \in Seq(Pure)
    PROVE  job[c] \in Seq(Pure')
<1>1. ASSUME NEW x \in Pure PROVE x \in Pure'
  <2>1. x \in Items /\ (x.op = "irp" => x.dev \in Devices)
    BY ItemTypes DEF Pure, Irps
  <2>2. QED
    BY <2>1, SafeLater DEF Pure
<1>2. QED
  BY <1>1

(* What the configuration says is what is plugged in. *)
LEMMA KindsNext ==
    ASSUME Roomy, Grounds, Base', Heard, Boards, [Next]_vars, NEW d \in Devices, dev'[d].kind = "keyboard"
    PROVE  Safe(d)'
<1>1. TypeOK /\ Jobs /\ Counted /\ Alive /\ Inv /\ Base /\ Shape
  BY BaseParts DEF Grounds
<1>2. dev[d].kind = "keyboard" => Safe(d)'
  BY <1>1, SafeLater DEF Boards
<1>3. ASSUME NEW c \in Contexts, PortReset(c) PROVE dev'[d].kind = dev[d].kind
  <2>1. \A e \in Devices : e # count + 1 => dev'[e] = dev[e]
    BY <1>1, <1>3, PortResetStep
  <2>2. ASSUME d = count + 1 PROVE FALSE
    <3>1. dev' = [dev EXCEPT ![d] = NewDevice(Item(c).port)] /\ dev \in [Devices -> Structs]
      BY <1>1, <1>3, <2>2 DEF PortReset, TypeOK
    <3>2. dev'[d].kind = None
      BY <3>1 DEF NewDevice
    <3>3. QED
      BY <3>2, UsbAssumption
  <2>3. QED
    BY <2>1, <2>2
<1>4. ASSUME NEW c \in Contexts, Parse(c) PROVE Safe(d)'
  <2>1. Runs(c) /\ job[c] # <<>> /\ Item(c).op = "parse" /\ Item(c) = job[c][1]
    BY <1>1, <1>4, HeadTyped DEF Parse, At, Runs, Idle
  <2>2. PICK f \in Devices, p \in Ports, k \in 1 .. 16 : Adds(c, f, p, k)
    BY <1>1, <2>1, HeadAdds DEF Enumerating
  <2>3. k \in {11, 15} /\ Item(c).dev = f
    BY <1>1, <2>1, <2>2, AddsAt
  <2>4. k \in 5 .. 16
    BY <2>3
  <2>5. Named(f)
    BY <1>1, <2>2, <2>4, StepNamed
  <2>6. dev' = [dev EXCEPT ![f].kind = IF gbuf = None THEN None ELSE port[gbuf].dev] /\ dev \in [Devices -> Structs]
    BY <1>1, <1>4, <2>3 DEF Parse, TypeOK
  <2>7. CASE d # f
    BY <1>2, <2>6, <2>7
  <2>8. CASE d = f
    <3>1. dev'[f].kind = IF gbuf = None THEN None ELSE port[gbuf].dev
      BY <2>6 DEF Structs
    <3>2. gbuf # None /\ port[gbuf].dev = "keyboard" /\ gbuf \in Ports
      BY <1>1, <2>8, <3>1, UsbAssumption DEF TypeOK
    <3>3. Only(gbuf, dev[f].addr)
      BY <2>2, <2>3, <2>4, <3>2 DEF Heard
    <3>4. Safe(f)
      BY <2>5, <3>2, <3>3 DEF Safe, Only, Diskless
    <3>5. QED
      BY <1>1, <2>8, <3>4, SafeLater
  <2>9. QED
    BY <2>7, <2>8
<1>5. (\A c \in Contexts : ~PortReset(c) /\ ~Parse(c)) => dev'[d].kind = dev[d].kind
  BY <1>1, StructsSame
<1>6. QED
  BY <1>2, <1>3, <1>4, <1>5

(* The jobs: a call of the program reads from what the driver remembers. *)
LEMMA PureNext ==
    ASSUME Roomy, Grounds, Base', Boards, [Next]_vars
    PROVE  \A c \in Contexts : job'[c] \in Seq(Pure')
<1>1. TypeOK /\ Jobs /\ Inv /\ Base /\ Shape /\ Inv' /\ TypeOK'
  BY BaseParts DEF Grounds, Base, Inv
<1>2. \A c \in Contexts : job[c] \in Seq(Pure')
  BY <1>1, PureLater DEF Boards
<1>3. \A x \in Items : (x.op = "irp" => x.type # "interrupt") => x \in Pure'
  BY DEF Pure
<1>4. ASSUME NEW c \in Contexts, Context(c) \/ FireEndsWild(c) PROVE \A e \in Contexts : job'[e] \in Seq(Pure')
  BY <1>1, <1>2, <1>3, <1>4, JobsIn
<1>5. CASE HcdiIrq
  <2>1. job'["main"] = job["main"] /\ job'["irq"] \in Seq(Items)
        /\ \A i \in 1 .. Len(job'["irq"]) : job'["irq"][i].op \in {"port", "ack"}
    BY <1>1, <1>5, HandlerClean
  <2>2. \A i \in 1 .. Len(job'["irq"]) : job'["irq"][i] \in Pure'
    <3> SUFFICES ASSUME NEW i \in 1 .. Len(job'["irq"]) PROVE job'["irq"][i] \in Pure'
      OBVIOUS
    <3>1. job'["irq"][i] \in Items /\ job'["irq"][i].op # "irp"
      BY <2>1
    <3>2. QED
      BY <1>3, <3>1
  <2>3. job'["irq"] \in Seq(Pure')
    BY ONLY <2>1, <2>2
  <2>4. QED
    BY <1>2, <2>1, <2>3 DEF Contexts
<1>6. CASE Main
  <2>1. PICK op \in MainOps : Call(op)
    BY <1>6 DEF Main
  <2>2. job'["irq"] = job["irq"]
    BY <1>1, <2>1, CallClean
  <2>3. PICK x \in Items : /\ x.op = "irp" /\ job'["main"] = <<x>>
                           /\ \/ x = BulkWrite(massstorage[1], 2, 31) /\ massstorage # <<>>
                              \/ x = InterruptRead(data["hidkb"], 1, 8) /\ data["hidkb"] # None
    BY <1>1, <2>1, CallClean
  <2>4. x \in Pure'
    <3>1. CASE x = BulkWrite(massstorage[1], 2, 31)
      <4>1. x.type = "bulk"
        BY <3>1 DEF BulkWrite
      <4>2. QED
        BY <1>3, <4>1
    <3>2. CASE x = InterruptRead(data["hidkb"], 1, 8) /\ data["hidkb"] # None
      <4>1. x.dev = data["hidkb"]
        BY <3>2 DEF InterruptRead
      <4>2. x.dev \in Devices /\ Safe(x.dev)
        BY <1>1, <3>2, <4>1, DriversAre DEF Boards, TypeOK
      <4>3. Safe(x.dev)'
        BY <1>1, <4>2, SafeLater
      <4>4. QED
        BY <4>3 DEF Pure
    <3>3. QED
      BY <2>3, <3>1, <3>2
  <2>5. job'["main"] \in Seq(Pure')
    BY <2>3, <2>4
  <2>6. QED
    BY <1>2, <2>2, <2>5 DEF Contexts
<1>7. CASE Executes \/ Halts \/ World \/ UNCHANGED vars
  BY <1>2, <1>7, WorldSteps
<1>8. QED
  BY <1>4, <1>5, <1>6, <1>7 DEF Next

(* In all steps. *)
LEMMA BoardsNext ==
    ASSUME Roomy, Grounds, Base', Heard, Boards, [Next]_vars
    PROVE  Boards'
<1>1. TypeOK /\ TypeOK' /\ Base /\ Inv
  BY BaseParts DEF Grounds, Base, Inv
<1>2. ASSUME data'["hidkb"] # None PROVE Safe(data["hidkb"])'
  <2>1. CASE data'["hidkb"] = data["hidkb"]
    <3>1. PICK d \in Devices : d = data["hidkb"] /\ d = data'["hidkb"]
      BY <1>1, <1>2, <2>1, DriversAre DEF TypeOK
    <3>2. Safe(d)
      BY <1>2, <2>1, <3>1 DEF Boards
    <3>3. Safe(d)'
      BY <1>1, <3>2, SafeLater
    <3>4. QED
      BY <3>1, <3>3 DEF Safe, Named, Diskless, Answers
  <2>2. CASE data'["hidkb"] \in Devices /\ dev[data'["hidkb"]].kind = "keyboard"
    <3>1. PICK d \in Devices : d = data'["hidkb"]
      BY <2>2
    <3>2. Safe(d)
      BY <2>2, <3>1 DEF Boards
    <3>3. Safe(d)'
      BY <1>1, <3>2, SafeLater
    <3>4. QED
      BY <3>1, <3>3 DEF Safe, Named, Diskless, Answers
  <2>3. QED
    BY <1>1, <1>2, <2>1, <2>2, HidkbBack
<1>3. QED
  BY <1>2, KindsNext, PureNext DEF Boards

-----------------------------------------------------------------------------
(* What flies to whom.                                                     *)

(* The parts of a sequence in a set are in it. *)
LEMMA InParts ==
    ASSUME NEW T, NEW S, NEW s \in Seq(T), NEW t \in Seq(T), s \o t \in Seq(S)
    PROVE  s \in Seq(S) /\ t \in Seq(S)
<1> DEFINE r == s \o t
<1>0. r \in Seq(S)
  OBVIOUS
<1>1. r = s \o t
  OBVIOUS
<1> HIDE DEF r
<1>2. /\ r \in Seq(T) /\ Len(r) = Len(s) + Len(t) /\ Len(s) \in Nat /\ Len(t) \in Nat
      /\ \A i \in 1 .. Len(s) : r[i] = s[i]
      /\ \A i \in Len(s) + 1 .. Len(r) : r[i] = t[i - Len(s)]
  BY ONLY <1>1, Concat, s \in Seq(T), t \in Seq(T)
<1>3. \A i \in 1 .. Len(r) : r[i] \in S
  BY <1>0
<1>4. \A i \in 1 .. Len(s) : i \in 1 .. Len(r)
  BY <1>2
<1>5. \A i \in 1 .. Len(s) : s[i] \in S
  BY <1>2, <1>3, <1>4
<1>6. \A i \in 1 .. Len(t) : Len(s) + i \in Len(s) + 1 .. Len(r) /\ Len(s) + i \in 1 .. Len(r) /\ Len(s) + i - Len(s) = i
  BY <1>2
<1>7. \A i \in 1 .. Len(t) : t[i] \in S
  <2>1. SUFFICES ASSUME NEW i \in 1 .. Len(t) PROVE t[i] \in S
    OBVIOUS
  <2>2. PICK j \in 1 .. Len(r) : j \in Len(s) + 1 .. Len(r) /\ j - Len(s) = i
    BY <1>6
  <2>3. r[j] = t[i]
    BY <1>2, <2>2
  <2>4. QED
    BY <1>3, <2>2, <2>3
<1>8. s \in Seq(S)
  BY ONLY <1>5, s \in Seq(T)
<1>9. t \in Seq(S)
  BY ONLY <1>7, t \in Seq(T)
<1>10. QED
  BY <1>8, <1>9

(* What a step can do to what flies. *)
LEMMA FlyingStep ==
    ASSUME Base, Base', Calm, [Next]_vars
    PROVE  \/ \E c \in Contexts : Submit(c) /\ Flying = <<>> /\ Flying' = SubmitIrp(Item(c))
           \/ Executes
           \/ /\ \A c \in Contexts : ~Submit(c)
              /\ \/ Flying' = Flying
                 \/ Flying' = <<>> /\ Flying = Held /\ \E c \in Contexts : FireEnds(c)
<1>1. ASSUME NEW c \in Contexts, Context(c) \/ FireEndsWild(c), ~Submit(c)
      PROVE  Flying' = Flying \/ (Flying' = <<>> /\ Flying = Held /\ FireEnds(c))
  <2>1. CASE Enqueue(c) \/ Fire(c)
    BY <2>1, FlyingQueue
  <2>2. CASE FireEnds(c)
    BY <2>2, FlyingEnds
  <2>3. CASE FireEndsWild(c)
    BY <2>3, FlyingEnds DEF FireEndsWild, Held
  <2>4. CASE ~Enqueue(c) /\ ~Fire(c) /\ ~FireEnds(c) /\ ~FireEndsWild(c)
    <3>1. Item(c).op \notin {"irp", "queue", "poll"} /\ ed' = ed
      <4>1. CASE SetupPort(c) \/ EnablePort(c) \/ PortReset(c) \/ Check(c) \/ Addressed(c) \/ Parse(c)
        BY <4>1 DEF SetupPort, EnablePort, PortReset, Check, Addressed, Parse, At, hc
      <4>2. CASE ListDevice(c) \/ Connect(c) \/ Probe(c) \/ Found(c) \/ Try(c) \/ Register(c) \/ Enable(c) \/ Acknowledge(c)
        BY <4>2 DEF ListDevice, Connect, Probe, Found, Try, Register, Enable, Acknowledge, At, hc
      <4>3. QED
        BY <1>1, <2>4, <4>1, <4>2 DEF Context
    <3>2. QED
      BY <1>1, <3>1, FlyingKept
  <2>5. QED
    BY <2>1, <2>2, <2>3, <2>4
<1>2. CASE \E c \in Contexts : Submit(c)
  BY <1>2, FlyingSubmit
<1>3. CASE \A c \in Contexts : ~Submit(c)
  BY <1>1, <1>3, FlyingElse DEF Next
<1>4. QED
  BY <1>2, <1>3

(* A kind of TD that is all that flies, and all that is submitted. *)
LEMMA FlyingIn ==
    ASSUME Base, Base', Calm, [Next]_vars, NEW S, Flying \in Seq(S),
           Executes \/ \A c \in Contexts : Submit(c) => SubmitIrp(Item(c)) \in Seq(S)
    PROVE  Flying' \in Seq(S)
<1>0. <<>> \in Seq(S)
  OBVIOUS
<1>1. CASE Executes
  <2>1. PICK rest \in Seq(Tds) : /\ Flying = ed.tds \o rest /\ Flying' = ed'.tds \o rest
                                 /\ ed.tds \in Seq(Tds) /\ ed.tds # <<>>
                                 /\ ed'.tds \in {ed.tds, Tail(ed.tds), <<>>} /\ ed'.tds \in Seq(Tds)
    BY <1>1, FlyingExecutes
  <2> DEFINE s == ed.tds
             u == ed'.tds
  <2>2. s \in Seq(Tds) /\ s # <<>> /\ u \in {s, Tail(s), <<>>} /\ s \o rest \in Seq(S) /\ Flying' = u \o rest
    BY <2>1
  <2> HIDE DEF s, u
  <2>3. s \in Seq(S) /\ rest \in Seq(S)
    BY <2>2, InParts
  <2>4. Tail(s) \in Seq(S)
    BY <2>2, <2>3
  <2>5. u \in Seq(S)
    BY <1>0, <2>2, <2>3, <2>4
  <2>6. QED
    BY <2>2, <2>3, <2>5
<1>2. QED
  BY <1>0, <1>1, FlyingStep

(* What flies to an interrupt endpoint flies to no disk, and a bulk packet *)
(* flies alone.                                                             *)
Reports == {t \in Tds : t.type = "interrupt" => Diskless(t.addr)}
Good == {t \in Reports : t \in Sound(next)}
NonBulk == {t \in Tds : t.type # "bulk"}
Keys == Flying \in Seq(Good)
Lone == Flying \in Seq(NonBulk) \/ Len(Flying) = 1

(* What is submitted is of that kind. *)
LEMMA SubmitGood ==
    ASSUME Grounds, Boards, NEW c \in Contexts, Submit(c)
    PROVE  /\ SubmitIrp(Item(c)) \in Seq(Good)
           /\ SubmitIrp(Item(c)) \in Seq(NonBulk) \/ Len(SubmitIrp(Item(c))) = 1
<1> DEFINE x == Item(c)
<1>1. TypeOK /\ Jobs /\ Names /\ Known
  BY BaseParts DEF Grounds
<1>2. x \in Irps /\ job[c] # <<>> /\ x.op = "irp" /\ SubmitIrp(x) \in Seq(Sound(next)) /\ x \in Items /\ x = job[c][1]
  BY <1>1, SubmitSound, HeadTyped
<1>3. x.type = "interrupt" => Diskless(dev[x.dev].addr)
  <2>1. 1 \in 1 .. Len(job[c])
    BY <1>1, <1>2 DEF TypeOK
  <2>2. job[c] \in Seq(Pure)
    BY DEF Boards
  <2>3. x \in Pure
    BY <1>2, <2>1, <2>2
  <2>4. QED
    BY <1>2, <2>3 DEF Pure, Safe
<1>4. x.type \in {"control", "bulk", "interrupt"}
  BY <1>2 DEF Irps
<1> HIDE DEF x
<1>5. SubmitIrp(x) \in Seq(Reports)
  <2>1. ASSUME NEW pid \in {"SETUP", "IN", "OUT"}, NEW n \in Nat, NEW len \in Nat
        PROVE  Td(x, pid, n, len) \in Reports
    <3>1. Td(x, pid, n, len) \in Tds
      BY <1>1, <1>2, TdTyped
    <3>2. Td(x, pid, n, len).type = x.type /\ Td(x, pid, n, len).addr = dev[x.dev].addr
      BY TdFields
    <3>3. QED
      BY <1>3, <3>1, <3>2 DEF Reports
  <2>2. QED
    BY <1>1, <1>2, <2>1, TdsOf
<1>6. SubmitIrp(x) \in Seq(Good)
  <2> DEFINE s == SubmitIrp(x)
  <2>1. s \in Seq(Sound(next)) /\ s \in Seq(Reports)
    BY <1>2, <1>5
  <2> HIDE DEF s
  <2>2. \A i \in 1 .. Len(s) : s[i] \in Good
    BY <2>1 DEF Good
  <2>3. s \in Seq(Good)
    BY ONLY <2>1, <2>2
  <2>4. QED
    BY <2>3 DEF s
<1>7. CASE x.type = "bulk"
  BY <1>1, <1>2, <1>6, <1>7, BulkHas DEF x
<1>8. CASE x.type # "bulk"
  <2>1. ASSUME NEW pid \in {"SETUP", "IN", "OUT"}, NEW n \in Nat, NEW len \in Nat
        PROVE  Td(x, pid, n, len) \in NonBulk
    <3>1. Td(x, pid, n, len) \in Tds
      BY <1>1, <1>2, TdTyped
    <3>2. Td(x, pid, n, len).type = x.type
      BY TdFields
    <3>3. QED
      BY <1>8, <3>1, <3>2 DEF NonBulk
  <2>2. SubmitIrp(x) \in Seq(NonBulk)
    BY <1>1, <1>2, <2>1, TdsOf
  <2>3. QED
    BY <1>6, <2>2 DEF x
<1>9. QED
  BY <1>7, <1>8

(* Addresses that were given: what was good stays good. *)
LEMMA GoodLater ==
    ASSUME Roomy, Base, Base', [Next]_vars, NEW s \in Seq(Good)
    PROVE  s \in Seq(Good')
<1>1. next \in Nat /\ next' \in Nat /\ next <= next'
  BY BaseParts, NextGrows DEF Base
<1>2. ASSUME NEW t \in Good PROVE t \in Good'
  <2>1. t \in Tds /\ t.addr \in Nat /\ t.addr < next /\ t \in Sound(next) /\ (t.type = "interrupt" => Diskless(t.addr))
    BY UsbAssumption DEF Good, Reports, Sound, Tds, Addresses
  <2>2. t \in Sound(next')
    BY <1>1, <2>1 DEF Sound
  <2>3. ASSUME t.type = "interrupt" PROVE Diskless(t.addr)'
    <3>1. t.addr # 0
      BY <2>1, <2>3 DEF Sound
    <3>2. t.addr \in 1 .. next - 1
      BY <1>1, <2>1, <3>1
    <3>3. QED
      BY <2>1, <2>3, <3>2, GivenKept
  <2>4. QED
    BY <2>1, <2>2, <2>3 DEF Good, Reports
<1>3. QED
  BY <1>2

(* It stays so. *)
LEMMA KeysNext ==
    ASSUME Roomy, Grounds, Base', Boards, Keys, [Next]_vars
    PROVE  Keys'
<1>1. Base /\ Calm
  BY DEF Grounds
<1>2. \A c \in Contexts : Submit(c) => SubmitIrp(Item(c)) \in Seq(Good)
  BY SubmitGood
<1>3. Flying' \in Seq(Good)
  BY <1>1, <1>2, FlyingIn DEF Keys
<1>4. QED
  BY <1>1, <1>3, GoodLater DEF Keys

(* One packet, and it stays or goes. *)
LEMMA OneGoes ==
    ASSUME NEW S, NEW s \in Seq(S), NEW r \in Seq(S), NEW u \in {s, Tail(s), <<>>}, s # <<>>, Len(s \o r) = 1
    PROVE  r = <<>> /\ s \o r = s /\ Len(s) = 1 /\ u \o r = u /\ u \in {s, <<>>} /\ Tail(s) = <<>>
<1>1. Len(s) \in Nat /\ Len(s) >= 1 /\ Len(r) \in Nat /\ Len(s \o r) = Len(s) + Len(r)
  OBVIOUS
<1>2. Len(s) = 1 /\ Len(r) = 0
  <2>1. Len(s \o r) = 1
    OBVIOUS
  <2>2. \A i, j \in Nat : i >= 1 /\ 1 = i + j => i = 1 /\ j = 0
    OBVIOUS
  <2>3. QED
    BY ONLY <1>1, <2>1, <2>2
<1>3. r = <<>>
  BY <1>2
<1>4. Tail(s) \in Seq(S) /\ Len(Tail(s)) = 0
  BY <1>2
<1>5. Tail(s) = <<>>
  BY <1>4
<1>6. QED
  BY <1>2, <1>3, <1>4, <1>5, Parts

(* A bulk packet flies alone until it is retired. *)
LEMMA LoneNext ==
    ASSUME Roomy, Grounds, Base', Boards, Lone, [Next]_vars
    PROVE  Lone'
<1>0. <<>> \in Seq(NonBulk)
  OBVIOUS
<1>1. Base /\ Calm /\ NonBulk' = NonBulk
  BY DEF Grounds, NonBulk
<1>2. CASE \E c \in Contexts : Submit(c) /\ Flying = <<>> /\ Flying' = SubmitIrp(Item(c))
  BY <1>1, <1>2, SubmitGood DEF Lone
<1>3. CASE Flying' = Flying
  BY <1>1, <1>3 DEF Lone
<1>4. CASE Flying' = <<>>
  BY <1>1, <1>4 DEF Lone
<1>5. CASE Executes
  <2>1. CASE Flying \in Seq(NonBulk)
    BY <1>1, <1>5, <2>1, FlyingIn DEF Lone
  <2>2. CASE Len(Flying) = 1
    <3>1. PICK rest \in Seq(Tds) : /\ Flying = ed.tds \o rest /\ Flying' = ed'.tds \o rest
                                   /\ ed.tds \in Seq(Tds) /\ ed.tds # <<>>
                                   /\ ed'.tds \in {ed.tds, Tail(ed.tds), <<>>} /\ ed'.tds \in Seq(Tds)
      BY <1>1, <1>5, FlyingExecutes
    <3>2. Flying' = Flying \/ Flying' = <<>>
      BY <2>2, <3>1, OneGoes
    <3>3. QED
      BY <1>0, <1>1, <2>2, <3>2 DEF Lone
  <2>3. QED
    BY <2>1, <2>2 DEF Lone
<1>6. QED
  BY <1>1, <1>2, <1>3, <1>4, <1>5, FlyingStep

-----------------------------------------------------------------------------
(* The toggles.                                                            *)

(* The toggle of an endpoint of the device, and whether a bulk packet to it *)
(* is under way: then that of the core is one ahead, and the packet has the  *)
(* one that the device waits for.                                            *)
Value(p, e) == IF e = 1 THEN port[p].in ELSE port[p].out
Moves(a, e) == Flying # <<>> /\ Flying[1].type = "bulk" /\ Flying[1].addr = a /\ Flying[1].ep = e
Toggle(d, p, e) ==
    IF Moves(dev[d].addr, e) THEN dev[d].togl[e] = 1 - Value(p, e) /\ Flying[1].togl = Value(p, e)
    ELSE dev[d].togl[e] = Value(p, e)
Disk(d, p) == Named(d) /\ Answers(p, dev[d].addr) /\ port[p].dev = "disk"
Toggles == \A d \in Devices, p \in Ports : Disk(d, p) => \A e \in {1, 2} : Toggle(d, p, e)

(* After SET_ADDRESS both begin at 0. *)
LEMMA TogglesAddressed ==
    ASSUME Roomy, Grounds, Base', NEW c \in Contexts, Addressed(c), NEW d \in Devices, ~Named(d), NEW p \in Ports, Disk(d, p)',
           NEW e \in {1, 2}
    PROVE  Toggle(d, p, e)'
<1>1. Base /\ Inv /\ Inv' /\ Shape /\ Names /\ TypeOK /\ Calm /\ Context(c) /\ Untouched /\ Kept
  BY BaseParts DEF Grounds, Base, Context, Lines, Known
<1>2. PICK f \in Devices : /\ dev'[f].addr = next /\ \A g \in Devices : g # f => dev'[g] = dev[g]
                           /\ dev'[f].togl = dev[f].togl
  BY <1>1, NamesAddressed
<1>3. d = f
  BY <1>2 DEF Disk, Named
<1>4. dev'[d].togl[e] = 0
  BY <1>1, <1>2, <1>3 DEF Kept
<1>5. port' = port /\ ed' = ed /\ Item(c).op \notin {"irp", "queue", "poll"}
  BY DEF Addressed, At, hc
<1>6. Flying' = <<>>
  BY <1>1, <1>5, FlyingKept
<1>7. New(p)
  BY <1>1, <1>2, <1>3, <1>5 DEF Disk, Answers, Untouched
<1>8. Value(p, e)' = 0 /\ ~Moves(dev[d].addr, e)'
  BY <1>5, <1>6, <1>7 DEF Value, Moves, New
<1>9. QED
  BY <1>4, <1>8 DEF Toggle

(* Who gets an address, and when. *)
LEMMA NewlyNamed ==
    ASSUME Roomy, Base, Base', [Next]_vars, NEW d \in Devices, ~Named(d), Named(d)'
    PROVE  \E c \in Contexts : Addressed(c)
<1>1. TypeOK /\ Jobs /\ Counted /\ Alive /\ Inv
  BY BaseParts
<1>2. SUFFICES ASSUME \A c \in Contexts : ~Addressed(c) PROVE FALSE
  OBVIOUS
<1>3. ASSUME NEW c \in Contexts, PortReset(c) PROVE FALSE
  <2>1. \A f \in Devices : f # count + 1 => dev'[f] = dev[f]
    BY <1>1, <1>3, PortResetStep
  <2>2. ASSUME d = count + 1 PROVE FALSE
    <3>1. dev' = [dev EXCEPT ![d] = NewDevice(Item(c).port)] /\ dev \in [Devices -> Structs]
      BY <1>1, <1>3, <2>2 DEF PortReset, TypeOK
    <3>2. dev'[d].addr = 0
      BY <3>1 DEF NewDevice
    <3>3. QED
      BY <3>2 DEF Named
  <2>3. QED
    BY <2>1, <2>2 DEF Named
<1>4. QED
  BY <1>1, <1>2, <1>3, AddrsSame DEF Named

(* A request: the toggle of its endpoint moves on, and the packet has the old one. *)
LEMMA TogglesSubmit ==
    ASSUME Roomy, Grounds, Base', Boards, NEW c \in Contexts, Submit(c), Flying = <<>>, Flying' = SubmitIrp(Item(c)),
           NEW d \in Devices, Named(d), NEW p \in Ports, NEW e \in {1, 2}, Toggle(d, p, e)
    PROVE  Toggle(d, p, e)'
<1> DEFINE x == Item(c)
<1>1. TypeOK /\ Jobs /\ Names /\ Known /\ Numbers /\ dev \in [Devices -> Structs] /\ port \in [Ports -> RootPorts]
  BY BaseParts DEF Grounds, TypeOK
<1>2. x \in Irps
  BY <1>1, SubmitSound
<1>3. port' = port
  BY DEF Submit
<1>4. dev[d].togl[e] = Value(p, e) /\ Value(p, e)' = Value(p, e) /\ Value(p, e) \in {0, 1}
  <2>1. ~Moves(dev[d].addr, e)
    BY DEF Moves
  <2>2. Value(p, e) \in {0, 1}
    BY <1>1 DEF Value, RootPorts
  <2>3. Value(p, e)' = Value(p, e)
    BY <1>3 DEF Value
  <2>4. QED
    BY <2>1, <2>2, <2>3 DEF Toggle
<1>5. CASE x.type = "bulk"
  <2> DEFINE pid == IF x.dir = "in" THEN "IN" ELSE "OUT"
             t == Td(x, pid, dev[x.dev].togl[x.ep], x.len)
  <2>1. SubmitIrp(x) = <<t>> /\ Len(SubmitIrp(x)) = 1 /\ x.ep \in {1, 2} /\ x.dev \in Devices
    BY <1>1, <1>2, <1>5, BulkHas
  <2>2. t.addr = dev[x.dev].addr /\ t.ep = x.ep /\ t.type = "bulk" /\ t.togl = dev[x.dev].togl[x.ep] % 2
    BY <1>5, TdFields
  <2>3. dev[x.dev].togl \in [{1, 2} -> {0, 1}] /\ dev[d].togl \in [{1, 2} -> {0, 1}]
    BY <1>1, <2>1 DEF Structs
  <2>4. t.togl = dev[x.dev].togl[x.ep]
    BY <2>1, <2>2, <2>3
  <2>5. dev' = [dev EXCEPT ![x.dev].togl[x.ep] = NextTogl(@, 1)]
    BY <1>5, <2>1 DEF Submit
  <2> HIDE DEF t, x
  <2>6. Flying' # <<>> /\ Flying'[1] = t
    BY <2>1 DEF x
  <2>7. dev[x.dev] \in Structs /\ dev[d] \in Structs
    BY <1>1, <2>1
  <2>8. dev'[d].addr = dev[d].addr
    BY <1>1, <2>1, <2>5, <2>7 DEF Structs
  <2>9. Moves(dev[d].addr, e)' <=> dev[x.dev].addr = dev[d].addr /\ x.ep = e
    BY <2>2, <2>6, <2>8 DEF Moves
  <2>10. CASE x.dev = d /\ x.ep = e
    <3>1. dev'[d].togl[e] = NextTogl(dev[d].togl[e], 1)
      BY <1>1, <2>1, <2>3, <2>5, <2>7, <2>10 DEF Structs
    <3>2. dev'[d].togl[e] = 1 - Value(p, e)
      BY <1>4, <3>1 DEF NextTogl
    <3>3. t.togl = Value(p, e) /\ Moves(dev[d].addr, e)'
      BY <1>4, <2>4, <2>9, <2>10
    <3>4. QED
      BY <1>4, <2>6, <3>2, <3>3 DEF Toggle
  <2>11. CASE ~(x.dev = d /\ x.ep = e)
    <3>1. dev'[d].togl[e] = dev[d].togl[e]
      BY <1>1, <2>1, <2>3, <2>5, <2>7, <2>11 DEF Structs
    <3>2. ~Moves(dev[d].addr, e)'
      BY <1>1, <2>1, <2>9, <2>11 DEF Numbers
    <3>3. QED
      BY <1>4, <3>1, <3>2 DEF Toggle
  <2>12. QED
    BY <2>10, <2>11
<1>6. CASE x.type # "bulk"
  <2>1. dev' = dev
    BY <1>6 DEF Submit
  <2>2. SubmitIrp(x) \in Seq(NonBulk)
    <3>1. ASSUME NEW pid \in {"SETUP", "IN", "OUT"}, NEW n \in Nat, NEW len \in Nat
          PROVE  Td(x, pid, n, len) \in NonBulk
      <4>1. Td(x, pid, n, len) \in Tds
        BY <1>1, <1>2, TdTyped
      <4>2. Td(x, pid, n, len).type = x.type
        BY TdFields
      <4>3. QED
        BY <1>6, <4>1, <4>2 DEF NonBulk
    <3> HIDE DEF x
    <3>2. QED
      BY <1>1, <1>2, <1>6, <3>1, TdsOf
  <2>3. Flying' # <<>> => Flying'[1].type # "bulk"
    <3> DEFINE s == SubmitIrp(x)
    <3>1. s \in Seq(NonBulk) /\ Flying' = s
      BY <2>2
    <3> HIDE DEF s
    <3>2. Flying' # <<>> => Flying'[1] \in NonBulk
      BY <3>1
    <3>3. QED
      BY <3>2 DEF NonBulk
  <2>4. ~Moves(dev[d].addr, e)'
    BY <2>3 DEF Moves
  <2>5. QED
    BY <1>4, <2>1, <2>4 DEF Toggle
<1>7. QED
  BY <1>5, <1>6

(* What is in the list of the endpoint comes first, and goes to it. *)
LEMMA FirstHeld ==
    ASSUME Grounds, NEW rest \in Seq(Tds), ed # None, ed.tds \in Seq(Tds), ed.tds # <<>>, Flying = ed.tds \o rest
    PROVE  /\ Flying # <<>> /\ Flying[1] = Head(ed.tds) /\ Head(ed.tds) = ed.tds[1]
           /\ Flying[1].addr = ed.addr /\ Flying[1].ep = ed.ep
           /\ Flying \in Seq(Tds) /\ 1 \in 1 .. Len(Flying)
<1> DEFINE s == ed.tds
<1>1. s \in Seq(Tds) /\ s # <<>> /\ Flying = s \o rest /\ Owned /\ Calm
  BY BaseParts DEF Grounds
<1>2. Uniform(s, ed.addr, ed.ep)
  BY <1>1 DEF Owned, Unshared, Calm
<1> HIDE DEF s
<1>3. 1 \in 1 .. Len(s) /\ Head(s) = s[1]
  BY <1>1
<1>4. s[1].addr = ed.addr /\ s[1].ep = ed.ep
  BY <1>2, <1>3 DEF Uniform
<1>5. (s \o rest)[1] = s[1] /\ s \o rest # <<>> /\ s \o rest \in Seq(Tds) /\ 1 \in 1 .. Len(s \o rest)
  BY <1>1, <1>3
<1>6. QED
  BY <1>1, <1>3, <1>4, <1>5 DEF s

(* The list is over: no packet of it is still awaited. *)
LEMMA OverMoves ==
    ASSUME Grounds, NEW c \in Contexts, FireEnds(c), Flying = Held, NEW p \in Ports, NEW a, Answers(p, a), NEW e
    PROVE  ~Moves(a, e)
<1>1. TypeOK /\ Dead /\ ed # None /\ (ed.tds = <<>> \/ halted)
  BY BaseParts DEF Grounds, Lines, FireEnds, FireOver
<1>2. Flying = ed.tds /\ ed.tds \in Seq(Tds)
  BY <1>1 DEF Held, TypeOK, Endpoints
<1>3. SUFFICES ASSUME Moves(a, e) PROVE FALSE
  OBVIOUS
<1>4. ed.tds # <<>> /\ halted
  BY <1>1, <1>2, <1>3 DEF Moves
<1>5. Flying = ed.tds \o <<>> /\ <<>> \in Seq(Tds)
  BY <1>2, Parts
<1>6. ed.addr = a
  BY <1>1, <1>2, <1>3, <1>4, <1>5, FirstHeld DEF Moves
<1>7. QED
  BY <1>1, <1>4, <1>6 DEF Dead, Free

(* A transfer that is not a bulk transfer does not become one. *)
LEMMA NoBulkMoves ==
    ASSUME Roomy, Grounds, Base', Lone, Executes, Flying # <<>>, Flying[1].type # "bulk"
    PROVE  \A a, e : ~Moves(a, e) /\ ~Moves(a, e)'
<1>1. Base /\ Calm /\ [Next]_vars
  BY DEF Grounds, Next
<1>2. CASE Flying \in Seq(NonBulk)
  <2>1. Flying' \in Seq(NonBulk)
    BY <1>1, <1>2, FlyingIn
  <2> DEFINE s == Flying'
  <2>2. s \in Seq(NonBulk)
    BY <2>1
  <2> HIDE DEF s
  <2>3. s # <<>> => s[1] \in NonBulk
    BY <2>2
  <2>4. s # <<>> => s[1].type # "bulk"
    BY <2>3 DEF NonBulk
  <2>5. QED
    BY <2>4 DEF s, Moves
<1>3. CASE Len(Flying) = 1
  <2>1. PICK rest \in Seq(Tds) : /\ Flying = ed.tds \o rest /\ Flying' = ed'.tds \o rest
                                 /\ ed.tds \in Seq(Tds) /\ ed.tds # <<>>
                                 /\ ed'.tds \in {ed.tds, Tail(ed.tds), <<>>} /\ ed'.tds \in Seq(Tds)
    BY <1>1, FlyingExecutes
  <2>2. Flying' = Flying \/ Flying' = <<>>
    BY ZenonT(40), <1>3, <2>1, OneGoes
  <2>3. QED
    BY <2>2 DEF Moves
<1>4. QED
  BY <1>2, <1>3 DEF Lone

(* The controller moves a packet: the device's toggle follows when it takes it. *)
LEMMA TogglesExecutes ==
    ASSUME Roomy, Grounds, Base', Keys, Lone, Executes,
           NEW d \in Devices, NEW p \in Ports, Disk(d, p), dev'[d].addr = dev[d].addr, dev[d].addr \in Addresses,
           (Executes /\ ed.ep # 0) \/ (port'[p].in = port[p].in /\ port'[p].out = port[p].out),
           NEW e \in {1, 2}, Toggle(d, p, e)
    PROVE  Toggle(d, p, e)'
<1> DEFINE td == Head(ed.tds)
           a == dev[d].addr
<1>1. Base /\ Calm /\ TypeOK /\ Jobs /\ Distinct /\ port \in [Ports -> RootPorts] /\ dev' = dev
  BY BaseParts DEF Grounds, Lines, TypeOK, Executes, core
<1>2. PICK rest \in Seq(Tds) : /\ Flying = ed.tds \o rest /\ Flying' = ed'.tds \o rest
                               /\ ed.tds \in Seq(Tds) /\ ed.tds # <<>>
                               /\ ed'.tds \in {ed.tds, Tail(ed.tds), <<>>} /\ ed'.tds \in Seq(Tds)
  BY <1>1, FlyingExecutes
<1>3. ed # None /\ Flying # <<>> /\ Flying[1] = td /\ td.addr = ed.addr /\ td.ep = ed.ep
      /\ 1 \in 1 .. Len(Flying) /\ Answers(p, a) /\ port[p].dev = "disk"
  BY <1>1, <1>2, FirstHeld DEF Executes, Disk
<1>4. td \in Sound(next) /\ (td.type = "interrupt" => Diskless(ed.addr)) /\ td.type \in {"control", "bulk", "interrupt"}
  <2>1. td \in Good
    BY <1>3 DEF Keys
  <2>2. QED
    BY <1>3, <2>1 DEF Good, Reports, Tds
<1>5. Value(p, e) \in {0, 1} /\ dev'[d].togl[e] = dev[d].togl[e]
  BY <1>1 DEF Value, RootPorts
<1> HIDE DEF td, a
<1>6. ASSUME td.type # "bulk", port'[p].in = port[p].in, port'[p].out = port[p].out PROVE Toggle(d, p, e)'
  <2>1. \A b, f : ~Moves(b, f) /\ ~Moves(b, f)'
    BY <1>3, <1>6, NoBulkMoves
  <2>2. ~Moves(dev[d].addr, e) /\ ~Moves(dev[d].addr, e)'
    BY <2>1 DEF Moves
  <2>3. Value(p, e)' = Value(p, e)
    BY <1>6 DEF Value
  <2>4. QED
    BY <1>5, <2>2, <2>3 DEF Toggle
<1>7. CASE ed.ep = 0
  <2>1. td.type # "bulk"
    BY <1>3, <1>4, <1>7 DEF Sound
  <2>2. QED
    BY <1>6, <1>7, <2>1
<1>8. CASE ed.ep # 0
  <2>1. PICK q \in Answering :
               /\ \A r \in Ports : r # q => port'[r] = port[r]
               /\ \/ /\ port'[q] = Written(port[q], td) /\ ed'.tds = Tail(ed.tds) /\ td.pid = "OUT"
                  \/ /\ port'[q] = Sent(port[q]) /\ td.pid = "IN"
                     /\ ed'.tds = IF td.togl = port[q].in THEN Tail(ed.tds) ELSE ed.tds
    BY <1>1, <1>8, ExecutesPorts DEF td
  <2>2. q \in Ports /\ Answers(q, ed.addr) /\ port[q] \in RootPorts /\ td.type # "control"
    BY <1>1, <1>3, <1>4, <1>8, <2>1 DEF Answering, Answers, Sound
  <2>3. CASE td.type = "interrupt"
    <3>1. port[q].dev # "disk"
      BY <1>4, <2>2, <2>3 DEF Diskless
    <3>2. port'[p] = port[p]
      BY <1>3, <2>1, <3>1
    <3>3. QED
      BY <1>6, <2>3, <3>2
  <2>4. CASE td.type = "bulk"
    <3>1. Len(Flying) = 1
      <4>1. Flying \notin Seq(NonBulk)
        <5>1. SUFFICES ASSUME Flying \in Seq(NonBulk) PROVE FALSE
          OBVIOUS
        <5>2. Flying[1] \in NonBulk
          BY <1>3, <5>1
        <5>3. QED
          BY <1>3, <2>4, <5>2 DEF NonBulk
      <4>2. QED
        BY <4>1 DEF Lone
    <3>2. Flying = ed.tds /\ Flying' = ed'.tds /\ Len(ed.tds) = 1 /\ Tail(ed.tds) = <<>>
      <4> DEFINE s == ed.tds
                 u == ed'.tds
      <4>1. s \in Seq(Tds) /\ s # <<>> /\ u \in {s, Tail(s), <<>>} /\ Len(s \o rest) = 1
        BY <1>2, <3>1
      <4> HIDE DEF s, u
      <4>2. rest = <<>> /\ s \o rest = s /\ Len(s) = 1 /\ u \o rest = u /\ Tail(s) = <<>>
        BY <4>1, OneGoes
      <4>3. QED
        BY <1>2, <4>2 DEF s, u
    <3>3. td.pid = IF ed.ep = 1 THEN "IN" ELSE "OUT"
      BY <1>3, <1>4, <2>4 DEF Sound
    <3>4. ed.ep \in {1, 2}
      BY <1>1, <1>3, <1>8 DEF TypeOK, Endpoints
    <3>5. /\ ed.ep = 1 => /\ port'[q].in = 1 - port[q].in /\ port'[q].out = port[q].out
                          /\ Flying' = IF td.togl = port[q].in THEN <<>> ELSE Flying
          /\ ed.ep = 2 => /\ port'[q].in = port[q].in /\ Flying' = <<>>
                          /\ td.togl = port[q].out => port'[q].out = 1 - port[q].out
      <4>1. CASE ed.ep = 1
        <5>1. port'[q] = Sent(port[q]) /\ ed'.tds = IF td.togl = port[q].in THEN Tail(ed.tds) ELSE ed.tds
          BY <2>1, <3>3, <4>1
        <5>2. Sent(port[q]).in = 1 - port[q].in /\ Sent(port[q]).out = port[q].out
          BY <2>2 DEF Sent, RootPorts
        <5>3. Flying' = IF td.togl = port[q].in THEN <<>> ELSE Flying
          <6>1. CASE td.togl = port[q].in
            BY <3>2, <5>1, <6>1
          <6>2. CASE td.togl # port[q].in
            BY <3>2, <5>1, <6>2
          <6>3. QED
            BY <6>1, <6>2
        <5>4. port'[q].in = 1 - port[q].in /\ port'[q].out = port[q].out
          BY <5>1, <5>2
        <5>5. QED
          BY <4>1, <5>3, <5>4
      <4>2. CASE ed.ep = 2
        <5>1. port'[q] = Written(port[q], td) /\ ed'.tds = Tail(ed.tds)
          BY <2>1, <3>3, <4>2
        <5>2. Written(port[q], td).in = port[q].in /\ (td.togl = port[q].out => Written(port[q], td).out = 1 - port[q].out)
          BY <2>2 DEF Written, RootPorts
        <5>3. Flying' = <<>>
          BY <3>2, <5>1
        <5>4. QED
          BY <4>2, <5>1, <5>2, <5>3
      <4>3. QED
        BY <3>4, <4>1, <4>2
    <3>6. CASE a = ed.addr /\ e = ed.ep
      <4>1. p = q
        <5>1. a \in Addresses /\ Answers(p, a) /\ Answers(q, a)
          BY <1>3, <2>2, <3>6 DEF a
        <5>2. QED
          BY <1>1, <2>2, <5>1 DEF Distinct
      <4>2. Moves(a, e)
        BY <1>3, <2>4, <3>6 DEF Moves
      <4>3. dev[d].togl[e] = 1 - Value(p, e) /\ td.togl = Value(p, e)
        BY <1>3, <4>2 DEF Toggle, a
      <4>4. Flying' = <<>> /\ Value(p, e)' = 1 - Value(p, e)
        <5>1. CASE e = 1
          BY <3>5, <3>6, <4>1, <4>3, <5>1 DEF Value
        <5>2. CASE e = 2
          BY <3>5, <3>6, <4>1, <4>3, <5>2 DEF Value
        <5>3. QED
          BY <5>1, <5>2
      <4>5. QED
        BY <1>5, <4>3, <4>4 DEF Toggle, Moves
    <3>7. CASE ~(a = ed.addr /\ e = ed.ep)
      <4>1. ~Moves(a, e)
        BY <1>3, <3>7 DEF Moves
      <4>2. Flying' = Flying \/ Flying' = <<>>
        BY <3>4, <3>5
      <4>3. ~Moves(dev[d].addr, e)'
        BY <4>1, <4>2 DEF Moves, a
      <4>4. Value(p, e)' = Value(p, e)
        <5>1. CASE p # q
          BY <2>1, <5>1 DEF Value
        <5>2. CASE p = q
          <6>1. a = ed.addr
            BY <1>3, <2>2, <5>2 DEF Answers
          <6>2. QED
            BY <3>4, <3>5, <3>7, <5>2, <6>1 DEF Value
        <5>3. QED
          BY <5>1, <5>2
      <4>5. QED
        BY <1>5, <4>1, <4>3, <4>4 DEF Toggle, a
    <3>8. QED
      BY <3>6, <3>7
  <2>5. QED
    BY <1>4, <2>2, <2>3, <2>4
<1>9. QED
  BY <1>7, <1>8

(* One step, for a device and the port that answers for it. *)
LEMMA TogglesOne ==
    ASSUME Roomy, Grounds, Base', Boards, Keys, Lone, Toggles, [Next]_vars,
           NEW d \in Devices, Named(d), NEW p \in Ports, Disk(d, p)', NEW e \in {1, 2}
    PROVE  Toggle(d, p, e)'
<1>1. Base /\ Calm /\ Inv /\ Inv' /\ Shape /\ Names /\ Flights /\ Wires /\ TypeOK /\ Jobs /\ Counted /\ Alive /\ Numbers
      /\ count \in Nat
  BY BaseParts DEF Grounds, Base, TypeOK
<1>2. PICK a \in 1 .. next - 1 : a = dev[d].addr /\ dev'[d].addr = a
  BY <1>1, NamedGiven
<1>3. Answers(p, a)'
  BY <1>2 DEF Disk, Answers
<1>4. /\ Answers(p, a) /\ port'[p].dev = port[p].dev
      /\ (Executes /\ ed.ep # 0) \/ (port'[p].in = port[p].in /\ port'[p].out = port[p].out)
  BY <1>1, <1>3, AnswersBack
<1>5. Disk(d, p) /\ dev[d].addr \in Addresses /\ dev'[d].addr = dev[d].addr
  BY <1>1, <1>2, <1>4 DEF Disk, TypeOK, Structs
<1>6. Toggle(d, p, e)
  BY <1>5 DEF Toggles
<1>7. CASE \E c \in Contexts : Submit(c) /\ Flying = <<>> /\ Flying' = SubmitIrp(Item(c))
  BY <1>6, <1>7, TogglesSubmit
<1>8. CASE Executes
  BY <1>4, <1>5, <1>6, <1>8, TogglesExecutes
<1>9. CASE /\ ~Executes /\ \A c \in Contexts : ~Submit(c)
           /\ Flying' = Flying \/ (Flying' = <<>> /\ Flying = Held /\ \E c \in Contexts : FireEnds(c))
  <2>1. dev'[d].togl = dev[d].togl
    <3>1. ASSUME NEW c \in Contexts, PortReset(c) PROVE dev'[d] = dev[d]
      <4>1. d # count + 1
        BY <1>1 DEF Numbers
      <4>2. QED
        BY <1>1, <3>1, <4>1, PortResetStep
    <3>2. QED
      BY <1>1, <1>9, <3>1, StructsSame
  <2>2. Value(p, e)' = Value(p, e)
    BY <1>4, <1>9 DEF Value
  <2>3. CASE Flying' = Flying
    <3>1. Moves(dev[d].addr, e)' <=> Moves(dev[d].addr, e)
      BY <1>5, <2>3 DEF Moves
    <3>2. QED
      BY <1>6, <2>1, <2>2, <2>3, <3>1 DEF Toggle
  <2>4. CASE Flying' = <<>> /\ Flying = Held /\ \E c \in Contexts : FireEnds(c)
    <3>1. ~Moves(dev[d].addr, e)
      BY <1>2, <1>4, <2>4, OverMoves
    <3>2. ~Moves(dev[d].addr, e)'
      BY <2>4 DEF Moves
    <3>3. QED
      BY <1>6, <2>1, <2>2, <3>1, <3>2 DEF Toggle
  <2>5. QED
    BY <1>9, <2>3, <2>4
<1>10. QED
  BY <1>1, <1>7, <1>8, <1>9, FlyingStep

(* All of it, in all steps. *)
LEMMA TogglesNext ==
    ASSUME Roomy, Grounds, Base', Boards, Keys, Lone, Toggles, [Next]_vars
    PROVE  Toggles'
<1>1. Base
  BY DEF Grounds
<1>2. ASSUME NEW d \in Devices, NEW p \in Ports, Disk(d, p)', NEW e \in {1, 2} PROVE Toggle(d, p, e)'
  <2>1. CASE Named(d)
    BY <1>2, <2>1, TogglesOne
  <2>2. CASE ~Named(d)
    BY <1>1, <1>2, <2>2, NewlyNamed, TogglesAddressed DEF Disk
  <2>3. QED
    BY <2>1, <2>2
<1>3. QED
  BY <1>2 DEF Toggles

(* Initially nothing flies, and no device has an address. *)
LEMMA TogglesInit == ASSUME Init PROVE Heard /\ Boards /\ Keys /\ Lone /\ Toggles
<1>1. ed = None /\ data["hidkb"] = None /\ \A d \in Devices : dev[d] = NoDevice
  BY DriversAre DEF Init
<1>2. \A d \in Devices : ~Named(d) /\ dev[d].kind # "keyboard"
  BY <1>1, UsbAssumption DEF NoDevice, Named
<1>3. \A c \in Contexts, d \in Devices, p \in Ports, k \in 1 .. 16 : ~Adds(c, d, p, k)
  BY ShapeInit, CleanShaped DEF Adds
<1>4. \A k \in 5 .. 16 : k \in 1 .. 16
  OBVIOUS
<1>5. Heard
  BY <1>3, <1>4 DEF Heard
<1>6. ASSUME NEW c \in Contexts PROVE job[c] \in Seq(Pure) /\ Queue(c) = <<>>
  <2> DEFINE q == job[c]
  <2>0. \A i \in 1 .. Len(q) : q[i].op # "irp" /\ q[i].op # "queue"
    <3>1. \A i \in 1 .. Len(q) : q[i].op \in {"port", "enable irq", "register"}
      BY ShapeInit
    <3>2. QED
      BY <3>1
  <2>1. q \in Seq(Items)
    BY ShapeInit
  <2> HIDE DEF q
  <2>2. ASSUME NEW i \in 1 .. Len(q) PROVE q[i] \in Pure
    <3>1. q[i] \in Items
      BY ONLY <2>1
    <3>2. q[i].op # "irp"
      BY <2>0, <2>2
    <3>3. QED
      BY <3>1, <3>2 DEF Pure
  <2>3. \A i \in 1 .. Len(q) : q[i] \in Pure
    BY <2>2
  <2>4. q \in Seq(Pure)
    BY ONLY <2>1, <2>3
  <2>5. q # <<>> => 1 \in 1 .. Len(q)
    BY ONLY <2>1
  <2>6. q # <<>> => q[1].op # "queue"
    BY <2>0, <2>5
  <2>7. QED
    BY <2>4, <2>6 DEF Queue, q
<1>7. Flying = <<>>
  BY <1>1, <1>6 DEF Flying, Held, Contexts
<1>8. <<>> \in Seq(Good) /\ <<>> \in Seq(NonBulk)
  OBVIOUS
<1>9. QED
  BY <1>1, <1>2, <1>5, <1>6, <1>7, <1>8 DEF Boards, Keys, Lone, Toggles, Disk

(* Everything about the bus and the toggles. *)
Wired == Base /\ Bus /\ (Calm => Heard /\ Boards /\ Keys /\ Lone /\ Toggles)

(* As long as the addresses do not wrap around. *)
THEOREM BusInvariance == ASSUME Roomy PROVE Spec => []Wired
<1>1. Init => Wired
  BY BaseInit, BusInit, TogglesInit DEF Wired
<1>2. Inv /\ Inv' /\ Wired /\ [Next]_vars => Wired'
  <2> SUFFICES ASSUME Inv, Inv', Wired, [Next]_vars PROVE Wired'
    OBVIOUS
  <2>1. Base' /\ Bus'
    BY BaseNext, BusNext DEF Wired
  <2>2. ASSUME Calm' PROVE Heard' /\ Boards' /\ Keys' /\ Lone' /\ Toggles'
    <3>1. Calm
      BY <2>2, CalmBefore
    <3>2. Grounds /\ Heard /\ Boards /\ Keys /\ Lone /\ Toggles
      BY <3>1 DEF Wired, Bus, Grounds
    <3>3. QED
      BY <2>1, <3>2, HeardNext, BoardsNext, KeysNext, LoneNext, TogglesNext
  <2>3. QED
    BY <2>1, <2>2 DEF Wired
<1>3. QED
  BY <1>1, <1>2, Invariance, PTL DEF Spec

(* The toggles of core.c and of the disk agree between the transfers, whatever *)
(* is plugged in and pulled, and whichever the drivers and the program do, as   *)
(* long as no error occurs, the handler does not start in the middle of the     *)
(* program's transfer, and core.nextaddress, a u8, has not come around.         *)
THEOREM Agreement == ASSUME Roomy PROVE Spec => []TogglesAgree
<1>1. ASSUME Inv, Wired PROVE TogglesAgree
  <2> SUFFICES ASSUME errors = 0, ~raced, AtRest, NEW p \in Ports, connected[p] \in Devices, port[p].dev = "disk", port[p].pes,
                      port[p].addr = dev[connected[p]].addr
               PROVE  dev[connected[p]].togl = [e \in {1, 2} |-> IF e = 1 THEN port[p].in ELSE port[p].out]
    BY DEF TogglesAgree
  <2> DEFINE d == connected[p]
  <2>1. TypeOK /\ Kept /\ Toggles /\ d \in Devices
    BY <1>1, BaseParts DEF Wired, Calm, Known
  <2>2. Named(d) /\ Disk(d, p)
    <3>1. port[p].dev # None
      BY UsbAssumption
    <3>2. QED
      BY <2>1, <3>1 DEF Kept, Disk, Answers
  <2> HIDE DEF d
  <2>3. Flying = <<>>
    <3>1. Held = <<>> /\ \A c \in Contexts : Queue(c) = <<>>
      <4>1. ASSUME NEW c \in Contexts PROVE Queue(c) = <<>>
        BY <2>1, HeadTyped DEF AtRest, Queue, Idle
      <4>2. QED
        BY <4>1 DEF AtRest, Held
    <3>2. QED
      BY <3>1 DEF Flying, Contexts
  <2>4. \A e \in {1, 2} : dev[d].togl[e] = IF e = 1 THEN port[p].in ELSE port[p].out
    BY <2>1, <2>2, <2>3 DEF Toggles, Toggle, Moves, Value
  <2>5. dev[d].togl \in [{1, 2} -> {0, 1}]
    BY <2>1 DEF TypeOK, Structs
  <2>6. QED
    BY <2>4, <2>5 DEF d
<1>2. QED
  BY <1>1, BusInvariance, Invariance, PTL

(* No two devices answer to the same address, and one that has none yet is *)
(* being enumerated, as long as nothing goes wrong on the bus.              *)
THEOREM OneAnswers == ASSUME Roomy PROVE Spec => [](Calm => Distinct /\ Starting)
<1>1. Wired => (Calm => Distinct /\ Starting)
  BY DEF Wired, Bus, Lines
<1>2. QED
  BY <1>1, BusInvariance, PTL
=============================================================================
