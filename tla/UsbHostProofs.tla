---------------------------- MODULE UsbHostProofs ----------------------------
(***************************************************************************)
(* The USB host stack, for any kinds of devices, any bound on mishaps and  *)
(* any calls of the program: its types, that packets go to the device they *)
(* are meant for, that no driver offers a freed keyboard, and that changes *)
(* of the root hub are noticed.                                            *)
(*                                                                         *)
(* A context is a sequence of items that are still to be done, so what     *)
(* holds between two steps of a routine is what holds of the items of a    *)
(* job: Jobs says in which order they come and what each needs of the rest *)
(* of the state.  Every action replaces the head of a job by fresh items   *)
(* (Advances), and what the other invariants need of that is Follows.      *)
(***************************************************************************)
EXTENDS UsbHost, WellFoundedInduction, TLAPS

-----------------------------------------------------------------------------
(* Induction over the natural numbers, stated with sets: what the library  *)
(* states with an operator for a parameter follows from least elements.    *)
LEMMA LeastNat ==
    ASSUME NEW T, T \subseteq Nat, T # {}
    PROVE  \E n \in T : \A m \in T : n <= m
<1>1. PICK n \in T : \A m \in T : <<m, n>> \notin OpToRel(<, Nat)
  BY NatLessThanWellFounded, WFMin
<1>2. ASSUME NEW m \in T, m < n PROVE FALSE
  <2>1. <<m, n>> \in Nat \X Nat /\ <<m, n>>[1] < <<m, n>>[2]
    BY <1>2
  <2>2. <<m, n>> \in {ss \in Nat \X Nat : ss[1] < ss[2]}
    BY <2>1
  <2>3. OpToRel(<, Nat) = {ss \in Nat \X Nat : ss[1] < ss[2]}
    BY Zenon DEF OpToRel
  <2>4. QED
    BY <1>1, <2>2, <2>3
<1>3. QED
  BY <1>2

(* A set with 0 and with the successor of each of its numbers has them *)
(* all.                                                                *)
LEMMA Induction ==
    ASSUME NEW S, 0 \in S, \A n \in Nat : n \in S => n + 1 \in S
    PROVE  Nat \subseteq S
<1> DEFINE T == Nat \ S
<1> SUFFICES ASSUME T # {} PROVE FALSE
  OBVIOUS
<1>1. PICK n \in T : \A m \in T : n <= m
  BY LeastNat
<1>2. n # 0 /\ n - 1 \in Nat /\ n - 1 \notin T
  BY <1>1
<1>3. QED
  BY <1>2

-----------------------------------------------------------------------------
(* The recursive function of Filter exists, and what it keeps is of the    *)
(* list and of the set.                                                    *)
Keeping(f, list, set, n) ==
    f = [i \in 0 .. n |-> IF i = 0 THEN <<>>
                          ELSE IF list[i] \in set THEN Append(f[i - 1], list[i]) ELSE f[i - 1]]

(* What is kept of n elements is known, hence of n + 1. *)
LEMMA KeepingStep ==
    ASSUME NEW list, NEW set, NEW n \in Nat, NEW f, Keeping(f, list, set, n)
    PROVE  \E g : Keeping(g, list, set, n + 1)
<1> DEFINE g == [i \in 0 .. n + 1 |->
                   IF i <= n THEN f[i]
                   ELSE IF list[i] \in set THEN Append(f[i - 1], list[i]) ELSE f[i - 1]]
<1> DEFINE h == [i \in 0 .. n + 1 |-> IF i = 0 THEN <<>>
                   ELSE IF list[i] \in set THEN Append(g[i - 1], list[i]) ELSE g[i - 1]]
<1>1. \A i \in 0 .. n : g[i] = f[i]
  OBVIOUS
<1>2. \A i \in 0 .. n : f[i] = IF i = 0 THEN <<>>
                   ELSE IF list[i] \in set THEN Append(f[i - 1], list[i]) ELSE f[i - 1]
  BY DEF Keeping
<1>3. \A i \in 0 .. n + 1 : g[i] = h[i]
  <2> SUFFICES ASSUME NEW i \in 0 .. n + 1 PROVE g[i] = h[i]
    OBVIOUS
  <2>1. i # 0 => i - 1 \in 0 .. n /\ g[i - 1] = f[i - 1]
    BY <1>1
  <2>2. QED
    BY <1>2, <2>1
<1>4. g = h
  BY <1>3
<1>5. QED
  BY <1>4 DEF Keeping

(* What is kept of the first n elements, for every n. *)
LEMMA KeepingExists ==
    ASSUME NEW list, NEW set, NEW n \in Nat
    PROVE  \E f : Keeping(f, list, set, n)
<1> DEFINE S == {m \in Nat : \E f : Keeping(f, list, set, m)}
<1>1. 0 \in S
  <2>1. Keeping([i \in 0 .. 0 |-> <<>>], list, set, 0)
    BY DEF Keeping
  <2>2. QED
    BY <2>1
<1>2. \A m \in Nat : m \in S => m + 1 \in S
  BY KeepingStep
<1>3. Nat \subseteq S
  <2> HIDE DEF S
  <2>1. QED
    BY <1>1, <1>2, Induction
<1>4. QED
  BY <1>3

(* It is a sequence of elements of the list and of the set. *)
LEMMA KeepingKeeps ==
    ASSUME NEW set, NEW list, NEW n \in Nat, NEW f, Keeping(f, list, set, n)
    PROVE  f[n] \in Seq({list[i] : i \in 1 .. n} \cap set)
<1> DEFINE K == {list[i] : i \in 1 .. n} \cap set
           S == {m \in Nat : m <= n => f[m] \in Seq(K)}
<1>0. \A i \in 0 .. n : f[i] = IF i = 0 THEN <<>>
                   ELSE IF list[i] \in set THEN Append(f[i - 1], list[i]) ELSE f[i - 1]
  BY DEF Keeping
<1>1. 0 \in S
  <2>1. f[0] = <<>>
    <3>1. 0 \in 0 .. n
      OBVIOUS
    <3>2. QED
      BY <1>0, <3>1
  <2> HIDE DEF K
  <2>2. <<>> \in Seq(K)
    OBVIOUS
  <2>3. f[0] \in Seq(K)
    BY <2>1, <2>2
  <2>4. QED
    BY <2>3
<1>2. \A m \in Nat : m \in S => m + 1 \in S
  <2> SUFFICES ASSUME NEW m \in Nat, m \in S, m + 1 <= n PROVE f[m + 1] \in Seq(K)
    OBVIOUS
  <2>1. f[m] \in Seq(K) /\ m + 1 \in 0 .. n /\ m + 1 # 0 /\ m + 1 - 1 = m
    OBVIOUS
  <2>2. f[m + 1] = IF list[m + 1] \in set THEN Append(f[m], list[m + 1]) ELSE f[m]
    BY <1>0, <2>1
  <2>3. list[m + 1] \in set => list[m + 1] \in K
    BY <2>1
  <2> HIDE DEF K
  <2>4. QED
    BY <2>1, <2>2, <2>3
<1>3. Nat \subseteq S
  <2> HIDE DEF S
  <2>1. QED
    BY <1>1, <1>2, Induction
<1>4. QED
  BY <1>3

(* Filter keeps nothing that is not of the list and of the set. *)
LEMMA FilterKeeps ==
    ASSUME NEW T, NEW list \in Seq(T), NEW set
    PROVE  Filter(list, set) \in Seq(ToSet(list) \cap set)
<1> DEFINE f == CHOOSE f : Keeping(f, list, set, Len(list))
<1>1. Keeping(f, list, set, Len(list))
  BY KeepingExists
<1>2. Filter(list, set) = f[Len(list)]
  BY Zenon DEF Filter, Keeping
<1>3. f[Len(list)] \in Seq({list[i] : i \in 1 .. Len(list)} \cap set)
  <2> HIDE DEF f
  <2>1. Len(list) \in Nat
    OBVIOUS
  <2>2. QED
    BY <1>1, <2>1, KeepingKeeps
<1>4. ToSet(list) = {list[i] : i \in 1 .. Len(list)}
  BY DEF ToSet
<1>5. QED
  BY <1>2, <1>3, <1>4

-----------------------------------------------------------------------------
(* The items that may stand before the listing of a device in its job: *)
(* the transfers of usb_add_device and what it reads.                  *)
BeforeList == {"irp", "queue", "poll", "check", "addressed", "parse"}

(* The items that say nothing of the rest of the state. *)
Plain == BeforeList \cup {"connect", "found"}

(* The order of a job: usb_add_device reads the descriptors before it  *)
(* lists the device and its check can give it up only then; hcdi_init  *)
(* unmasks the interrupt after the ports and before the drivers; a     *)
(* transfer and the reset of a port are what a context is at; hcdi_irq *)
(* acknowledges last; configure_ports looks at each port once.         *)
Ordered(q) ==
    \A i \in 1 .. Len(q) :
        /\ q[i].op = "list" => \A j \in 1 .. i - 1 : q[j].op \in BeforeList
        /\ q[i].op = "check" => \E j \in i + 1 .. Len(q) : q[j].op = "list"
        /\ q[i].op \in {"enable irq", "register"} => \A j \in i + 1 .. Len(q) : q[j].op = "register"
        /\ q[i].op \in {"queue", "poll", "enable", "reset"} => i = 1
        /\ q[i].op = "ack" => i = Len(q)
        /\ q[i].op = "port" => \A j \in i + 1 .. Len(q) : q[j].op = "port" => q[j].port # q[i].port

(* What may take the place of an item x at the head of a job. *)
Fresh(items, x) ==
    \A i \in 1 .. Len(items) :
        /\ items[i].op \in Plain \cup {"enable", "reset", "list", "probe", "try"}
        /\ items[i].op \in {"queue", "poll"} => i = 1 /\ x.op \in {"irp", "queue"}
        /\ items[i].op \in {"enable", "reset"} => i = 1 /\ x.op \in {"port", "enable"}
        /\ items[i].op = "check" => \E j \in i + 1 .. Len(items) : items[j].op = "list"
        /\ items[i].op = "list" => \A j \in 1 .. i - 1 : items[j].op \in BeforeList
        /\ x.op \in BeforeList => items[i].op \in BeforeList

(* A job whose head is replaced: where its items are. *)
LEMMA Spliced ==
    ASSUME NEW S, NEW q \in Seq(S), q # <<>>, NEW items \in Seq(S), NEW r, r = items \o Tail(q)
    PROVE  /\ r \in Seq(S) /\ Len(r) = Len(items) + Len(q) - 1
           /\ \A i \in 1 .. Len(items) : r[i] = items[i]
           /\ \A i \in Len(items) + 1 .. Len(r) : r[i] = q[i - Len(items) + 1]
           /\ \A i \in Len(items) + 1 .. Len(r) : i - Len(items) + 1 \in 2 .. Len(q)
<1>1. Tail(q) \in Seq(S) /\ Len(Tail(q)) = Len(q) - 1 /\ Len(q) >= 1
  OBVIOUS
<1>2. \A i \in 1 .. Len(Tail(q)) : Tail(q)[i] = q[i + 1]
  OBVIOUS
<1>3. r \in Seq(S) /\ Len(r) = Len(items) + Len(Tail(q))
  BY <1>1
<1>4. \A i \in 1 .. Len(items) : r[i] = items[i]
  BY <1>1
<1>5. \A i \in Len(items) + 1 .. Len(r) : r[i] = Tail(q)[i - Len(items)]
  BY <1>1, <1>3
<1>6. \A i \in Len(items) + 1 .. Len(r) : i - Len(items) \in 1 .. Len(Tail(q))
  BY <1>1, <1>3
<1>7. QED
  BY <1>1, <1>2, <1>3, <1>4, <1>5, <1>6

(* A job stays in order when fresh items take the place of its head. *)
LEMMA OrderedSplice ==
    ASSUME NEW q \in Seq(Items), q # <<>>, NEW items \in Seq(Items), NEW r, r = items \o Tail(q),
           Ordered(q), Fresh(items, Head(q))
    PROVE  Ordered(r)
<1> DEFINE n == Len(items)
<1>1. /\ r \in Seq(Items) /\ Len(r) = n + Len(q) - 1 /\ n \in Nat /\ Len(q) \in Nat /\ Len(q) >= 1
      /\ \A i \in 1 .. n : r[i] = items[i]
      /\ \A i \in n + 1 .. Len(r) : r[i] = q[i - n + 1]
  BY Spliced
<1>2. Head(q) = q[1]
  OBVIOUS
<1> SUFFICES ASSUME NEW i \in 1 .. Len(r)
             PROVE /\ r[i].op = "list" => \A j \in 1 .. i - 1 : r[j].op \in BeforeList
                   /\ r[i].op = "check" => \E j \in i + 1 .. Len(r) : r[j].op = "list"
                   /\ r[i].op \in {"enable irq", "register"} =>
                         \A j \in i + 1 .. Len(r) : r[j].op = "register"
                   /\ r[i].op \in {"queue", "poll", "enable", "reset"} => i = 1
                   /\ r[i].op = "ack" => i = Len(r)
                   /\ r[i].op = "port" =>
                         \A j \in i + 1 .. Len(r) : r[j].op = "port" => r[j].port # r[i].port
  BY DEF Ordered
<1> HIDE DEF n
<1>3. CASE i <= n
  <2>1. i \in 1 .. n /\ r[i] = items[i]
    BY <1>1, <1>3
  <2>2. \A j \in i + 1 .. n : j \in i + 1 .. Len(r) /\ r[j] = items[j]
    BY <1>1, <2>1
  <2>3. \A j \in 1 .. i - 1 : r[j] = items[j]
    BY <1>1, <2>1
  <2>4. /\ items[i].op \in Plain \cup {"enable", "reset", "list", "probe", "try"}
        /\ items[i].op \in {"queue", "poll", "enable", "reset"} => i = 1
        /\ items[i].op = "check" => \E j \in i + 1 .. n : items[j].op = "list"
        /\ items[i].op = "list" => \A j \in 1 .. i - 1 : items[j].op \in BeforeList
    BY <2>1 DEF Fresh, n
  <2>5. r[i].op = "list" => \A j \in 1 .. i - 1 : r[j].op \in BeforeList
    BY <2>1, <2>3, <2>4
  <2>6. r[i].op = "check" => \E j \in i + 1 .. Len(r) : r[j].op = "list"
    BY <2>1, <2>2, <2>4
  <2>7. QED
    BY <2>1, <2>4, <2>5, <2>6 DEF Plain, BeforeList
<1>4. CASE i > n
  <2> DEFINE k == i - n + 1
  <2>1. k \in 2 .. Len(q) /\ r[i] = q[k]
    BY SMTT(20), <1>1, <1>4
  <2>2. \A j \in i + 1 .. Len(r) : j - n + 1 \in k + 1 .. Len(q) /\ r[j] = q[j - n + 1]
    <3> SUFFICES ASSUME NEW j \in i + 1 .. Len(r)
                 PROVE  j - n + 1 \in k + 1 .. Len(q) /\ r[j] = q[j - n + 1]
      OBVIOUS
    <3>1. j - n + 1 \in k + 1 .. Len(q) /\ j \in n + 1 .. Len(r)
      <4>1. i \in Nat /\ j \in Nat /\ j >= i + 1 /\ j <= Len(r)
        BY <1>1, <1>4
      <4>2. Len(r) = n + Len(q) - 1 /\ n \in Nat /\ Len(q) \in Nat /\ i > n
        BY <1>1, <1>4
      <4>3. QED
        BY ONLY <4>1, <4>2
    <3>2. QED
      BY <1>1, <3>1
  <2>3. \A j \in k + 1 .. Len(q) : j + n - 1 \in i + 1 .. Len(r) /\ r[j + n - 1] = q[j]
    <3> SUFFICES ASSUME NEW j \in k + 1 .. Len(q)
                 PROVE  j + n - 1 \in i + 1 .. Len(r) /\ r[j + n - 1] = q[j]
      OBVIOUS
    <3>1. j + n - 1 \in i + 1 .. Len(r) /\ j + n - 1 \in n + 1 .. Len(r) /\ (j + n - 1) - n + 1 = j
      <4>1. i \in Nat /\ j \in Nat /\ j >= i - n + 2 /\ j <= Len(q)
        BY <1>1, <1>4
      <4>2. Len(r) \in Nat /\ Len(r) = n + Len(q) - 1 /\ n \in Nat /\ Len(q) \in Nat /\ i > n
        BY <1>1, <1>4
      <4> HIDE DEF k
      <4>3. QED
        BY ONLY <4>1, <4>2
    <3>2. QED
      BY <1>1, <3>1
  <2>4. (k = Len(q)) <=> (i = Len(r))
    BY <1>1
  <2> HIDE DEF k
  <2>5. k \in 1 .. Len(q) /\ k # 1
    BY <2>1
  <2>6. r[i].op = "list" => \A j \in 1 .. i - 1 : r[j].op \in BeforeList
    <3> SUFFICES ASSUME q[k].op = "list", NEW j \in 1 .. i - 1 PROVE r[j].op \in BeforeList
      BY <2>1
    <3>1. \A l \in 1 .. k - 1 : q[l].op \in BeforeList
      BY <2>5 DEF Ordered
    <3>2. CASE j <= n
      <4>1. j \in 1 .. n /\ r[j] = items[j]
        BY <1>1, <3>2
      <4>2. 1 \in 1 .. k - 1
        BY <2>1
      <4>3. QED
        BY <1>2, <3>1, <4>1, <4>2 DEF Fresh, n, Plain, BeforeList
    <3>3. CASE j > n
      <4>1. j - n + 1 \in 1 .. k - 1 /\ j \in n + 1 .. Len(r)
        BY <1>1, <3>3 DEF k
      <4>2. QED
        BY <1>1, <3>1, <4>1
    <3>4. QED
      BY <1>1, <3>2, <3>3
  <2>7. /\ q[k].op = "check" => \E j \in k + 1 .. Len(q) : q[j].op = "list"
        /\ q[k].op \in {"enable irq", "register"} => \A j \in k + 1 .. Len(q) : q[j].op = "register"
        /\ q[k].op \notin {"queue", "poll", "enable", "reset"}
        /\ q[k].op = "ack" => k = Len(q)
        /\ q[k].op = "port" => \A j \in k + 1 .. Len(q) : q[j].op = "port" => q[j].port # q[k].port
    BY <2>5 DEF Ordered
  <2>8. r[i].op = "check" => \E j \in i + 1 .. Len(r) : r[j].op = "list"
    BY <2>1, <2>3, <2>7
  <2>9. r[i].op \in {"enable irq", "register"} => \A j \in i + 1 .. Len(r) : r[j].op = "register"
    BY <2>1, <2>2, <2>7
  <2>10. r[i].op = "port" => \A j \in i + 1 .. Len(r) : r[j].op = "port" => r[j].port # r[i].port
    BY <2>1, <2>2, <2>7
  <2>11. QED
    BY <2>1, <2>4, <2>6, <2>7, <2>8, <2>9, <2>10
<1>5. i <= n \/ i > n
  BY <1>1
<1>6. QED
  BY ONLY <1>3, <1>4, <1>5

(* What is left of a job is in order: usb_add_device gives up. *)
LEMMA OrderedSuffix ==
    ASSUME NEW q \in Seq(Items), NEW n \in 1 .. Len(q), Ordered(q)
    PROVE  /\ SubSeq(q, n + 1, Len(q)) \in Seq(Items)
           /\ Len(SubSeq(q, n + 1, Len(q))) = Len(q) - n
           /\ \A i \in 1 .. Len(q) - n : SubSeq(q, n + 1, Len(q))[i] = q[i + n]
           /\ Ordered(SubSeq(q, n + 1, Len(q)))
<1> DEFINE r == SubSeq(q, n + 1, Len(q))
<1>1. Len(q) \in Nat /\ r \in Seq(Items) /\ Len(r) = Len(q) - n
  OBVIOUS
<1>2. \A i \in 1 .. Len(r) : r[i] = q[i + n] /\ i + n \in 1 .. Len(q)
  OBVIOUS
<1> HIDE DEF r
<1>3. Ordered(r)
  <2> SUFFICES ASSUME NEW i \in 1 .. Len(r)
             PROVE /\ r[i].op = "list" => \A j \in 1 .. i - 1 : r[j].op \in BeforeList
                   /\ r[i].op = "check" => \E j \in i + 1 .. Len(r) : r[j].op = "list"
                   /\ r[i].op \in {"enable irq", "register"} =>
                         \A j \in i + 1 .. Len(r) : r[j].op = "register"
                   /\ r[i].op \in {"queue", "poll", "enable", "reset"} => i = 1
                   /\ r[i].op = "ack" => i = Len(r)
                   /\ r[i].op = "port" =>
                         \A j \in i + 1 .. Len(r) : r[j].op = "port" => r[j].port # r[i].port
    BY DEF Ordered
  <2> DEFINE k == i + n
  <2>1. k \in 1 .. Len(q) /\ r[i] = q[k] /\ k # 1 /\ (k = Len(q) <=> i = Len(r))
    BY <1>1, <1>2
  <2>2. \A j \in 1 .. i - 1 : j + n \in 1 .. k - 1 /\ r[j] = q[j + n]
    BY <1>1, <1>2
  <2>3. \A j \in i + 1 .. Len(r) : j + n \in k + 1 .. Len(q) /\ r[j] = q[j + n]
    BY <1>1, <1>2
  <2>4. \A j \in k + 1 .. Len(q) : j - n \in i + 1 .. Len(r) /\ r[j - n] = q[j]
    <3> SUFFICES ASSUME NEW j \in k + 1 .. Len(q) PROVE j - n \in i + 1 .. Len(r) /\ r[j - n] = q[j]
      OBVIOUS
    <3>1. j - n \in i + 1 .. Len(r) /\ j - n \in 1 .. Len(r) /\ (j - n) + n = j
      BY <1>1
    <3>2. QED
      BY <1>2, <3>1
  <2> HIDE DEF k
  <2>5. /\ q[k].op = "list" => \A j \in 1 .. k - 1 : q[j].op \in BeforeList
        /\ q[k].op = "check" => \E j \in k + 1 .. Len(q) : q[j].op = "list"
        /\ q[k].op \in {"enable irq", "register"} => \A j \in k + 1 .. Len(q) : q[j].op = "register"
        /\ q[k].op \notin {"queue", "poll", "enable", "reset"}
        /\ q[k].op = "ack" => k = Len(q)
        /\ q[k].op = "port" => \A j \in k + 1 .. Len(q) : q[j].op = "port" => q[j].port # q[k].port
    BY <2>1 DEF Ordered
  <2>6. r[i].op = "check" => \E j \in i + 1 .. Len(r) : r[j].op = "list"
    BY <2>1, <2>4, <2>5
  <2>7. QED
    BY <2>1, <2>2, <2>3, <2>5, <2>6
<1>4. QED
  BY <1>1, <1>2, <1>3 DEF r

-----------------------------------------------------------------------------
(* What the model's types say of an item, by its operation. *)
LEMMA ItemTypes ==
    ASSUME NEW x \in Items
    PROVE  /\ x.op = "irp" => x \in Irps
           /\ x.op = "queue" => x.tds \in Seq(Tds)
           /\ x.op = "port" => x.port \in Ports /\ x.init \in BOOLEAN
           /\ x.op \in {"enable", "reset", "check", "addressed", "list", "connect"} => x.port \in Ports
           /\ x.op \in {"check", "addressed", "list", "connect", "parse", "found"} => x.dev \in Devices
           /\ x.op = "probe" => x.drv \in {"hidkb", "storage", "hub"}
<1>1. ToSet(Drivers) = {"hidkb", "storage", "hub"}
  <2>1. ToSet(Drivers) = {Drivers[1], Drivers[2], Drivers[3]}
    BY DEF ToSet, Drivers
  <2>2. QED
    BY <2>1 DEF Drivers
<1>2. QED
  BY <1>1 DEF Items, Irps

(* The three drivers that ppcskel registers. *)
LEMMA DriversAre == ToSet(Drivers) = {"hidkb", "storage", "hub"}
<1>1. ToSet(Drivers) = {Drivers[1], Drivers[2], Drivers[3]}
  BY DEF ToSet, Drivers
<1>2. QED
  BY <1>1 DEF Drivers

(* The item a context is at. *)
LEMMA HeadTyped ==
    ASSUME TypeOK, NEW c \in Contexts, job[c] # <<>>
    PROVE  /\ Item(c) \in Items /\ Item(c) = job[c][1] /\ Len(job[c]) >= 1 /\ Len(job[c]) \in Nat
           /\ job[c] \in Seq(Items)
BY DEF TypeOK, Item

(* usb_control_msg makes a request to endpoint 0. *)
LEMMA ControlTyped ==
    ASSUME NEW d \in Devices, NEW req \in Requests, NEW dir \in {"in", "out"}, NEW len \in Nat,
           req = "device" => len > 0
    PROVE  Control(d, req, dir, len) \in Items /\ Control(d, req, dir, len).op = "irp"
<1> DEFINE x == Control(d, req, dir, len)
<1>1. x.op = "irp" /\ x.ep = 0 /\ x.type = "control" /\ x.req = req /\ x.len = len
  BY DEF Control
<1>2. x \in [op : {"irp"}, type : {"control", "bulk", "interrupt"}, dev : Devices, ep : 0 .. 2,
            req : Requests \cup {None}, dir : {"in", "out"}, len : Nat]
  BY DEF Control
<1> HIDE DEF x
<1>3. QED
  BY <1>1, <1>2 DEF Items, Irps, x

(* usb_bulk_write, usb_bulk_read and usb_interrupt_read make a request. *)
LEMMA BulkTyped ==
    ASSUME NEW d \in Devices, NEW ep \in {1, 2}, NEW len \in Nat \ {0}
    PROVE  /\ BulkWrite(d, ep, len) \in Items /\ BulkWrite(d, ep, len).op = "irp"
           /\ BulkRead(d, ep, len) \in Items /\ BulkRead(d, ep, len).op = "irp"
           /\ InterruptRead(d, ep, len) \in Items /\ InterruptRead(d, ep, len).op = "irp"
<1> DEFINE all == [op : {"irp"}, type : {"control", "bulk", "interrupt"}, dev : Devices, ep : 0 .. 2,
                   req : Requests \cup {None}, dir : {"in", "out"}, len : Nat]
<1>1. None # "device"
  BY UsbAssumption
<1>2. BulkWrite(d, ep, len) \in all /\ BulkRead(d, ep, len) \in all /\ InterruptRead(d, ep, len) \in all
  BY DEF BulkWrite, BulkRead, InterruptRead
<1>3. \A x \in {BulkWrite(d, ep, len), BulkRead(d, ep, len), InterruptRead(d, ep, len)} :
         x.ep # 0 /\ x.type # "control" /\ x.req = None /\ x.op = "irp" /\ x.len > 0
  BY DEF BulkWrite, BulkRead, InterruptRead
<1>4. QED
  BY <1>1, <1>2, <1>3 DEF Items, Irps

(* The steps of the enumeration are items. *)
LEMMA StepTyped ==
    ASSUME NEW op, NEW d, NEW p
    PROVE  /\ Step(op, d, p).op = op /\ Step(op, d, p).dev = d /\ Step(op, d, p).port = p
           /\ op \in {"enable", "reset"} /\ d = None /\ p \in Ports => Step(op, d, p) \in Items
           /\ op \in {"check", "addressed", "list", "connect"} /\ d \in Devices /\ p \in Ports
                => Step(op, d, p) \in Items
           /\ op = "parse" /\ d \in Devices /\ p = None => Step(op, d, p) \in Items
BY DEF Step, Items

(* Everything that makes up one transfer goes to one endpoint of one address. *)
Uniform(tds, addr, ep) == \A i \in 1 .. Len(tds) : tds[i].addr = addr /\ tds[i].ep = ep

(* usb_create_transfer_descriptor: a TD has the address of the struct *)
(* and the endpoint of the request.                                   *)
LEMMA TdTyped ==
    ASSUME TypeOK, NEW x \in Irps, NEW pid \in {"SETUP", "IN", "OUT"}, NEW togl \in Nat, NEW len \in Nat
    PROVE  /\ Td(x, pid, togl, len) \in Tds
           /\ Td(x, pid, togl, len).addr = dev[x.dev].addr /\ Td(x, pid, togl, len).ep = x.ep
<1>1. togl % 2 \in {0, 1}
  OBVIOUS
<1>2. dev[x.dev].addr \in Addresses /\ next \in Addresses
  BY DEF TypeOK, Irps, Structs
<1>3. QED
  BY <1>1, <1>2 DEF Td, Tds, Irps

(* The loop of packets of usb_submit_irp makes TDs of one address and *)
(* endpoint.                                                          *)
LEMMA DataTyped ==
    ASSUME TypeOK, NEW x \in Irps, NEW togl \in {0, 1}
    PROVE  DataTds(x, togl) \in Seq(Tds) /\ Uniform(DataTds(x, togl), dev[x.dev].addr, x.ep)
<1> DEFINE size == EpSize(x)
           all == Packets(x.len, size)
           lens == IF x.req = "device" /\ dev[x.dev].addr = 0 THEN SubSeq(all, 1, 1) ELSE all
<1>1. size \in {8, 64} /\ x.len \in Nat
  BY DEF TypeOK, Irps, EpSize, Structs
<1> HIDE DEF size
<1>2. (x.len + size - 1) \div size \in Nat
  BY <1>1
<1>3. \A i \in Nat : (IF i * size <= x.len THEN size ELSE x.len % size) \in Nat
  BY <1>1
<1>4. all \in Seq(Nat)
  BY <1>2, <1>3 DEF Packets
<1> HIDE DEF all
<1>5. lens \in Seq(Nat)
  <2>1. CASE x.req # "device"
    BY <1>4, <2>1
  <2>2. CASE x.req = "device"
    <3>1. (x.len + size - 1) \div size >= 1
      BY <1>1, <2>2 DEF Irps
    <3>2. all # <<>>
      BY <1>2, <3>1 DEF all, Packets
    <3>3. QED
      BY <1>4, <3>2
  <2>3. QED
    BY <2>1, <2>2
<1>6. DataTds(x, togl) = [i \in 1 .. Len(lens) |-> Td(x, "IN", togl + i - 1, lens[i])]
  BY DEF DataTds, all, size
<1> HIDE DEF lens
<1>7. ASSUME NEW i \in 1 .. Len(lens)
      PROVE  /\ Td(x, "IN", togl + i - 1, lens[i]) \in Tds
             /\ Td(x, "IN", togl + i - 1, lens[i]).addr = dev[x.dev].addr
             /\ Td(x, "IN", togl + i - 1, lens[i]).ep = x.ep
  <2>1. togl + i - 1 \in Nat /\ lens[i] \in Nat
    BY <1>5
  <2>2. QED
    BY <2>1, TdTyped
<1>8. Len(lens) \in Nat
  BY <1>5
<1> DEFINE tds == DataTds(x, togl)
<1>9. \A i \in 1 .. Len(lens) :
         tds[i] \in Tds /\ tds[i].addr = dev[x.dev].addr /\ tds[i].ep = x.ep
  BY <1>6, <1>7
<1>10. tds = [i \in 1 .. Len(lens) |-> tds[i]]
  BY <1>6
<1> HIDE DEF tds
<1>11. tds \in Seq(Tds) /\ Len(tds) = Len(lens)
  BY <1>8, <1>9, <1>10
<1>12. QED
  BY <1>9, <1>11 DEF Uniform, tds

(* usb_submit_irp makes TDs of one address and endpoint, whatever the *)
(* type of the transfer.                                              *)
LEMMA SubmitTyped ==
    ASSUME TypeOK, NEW x \in Irps
    PROVE  SubmitIrp(x) \in Seq(Tds) /\ Uniform(SubmitIrp(x), dev[x.dev].addr, x.ep)
<1>0. x.type \in {"control", "bulk", "interrupt"} /\ x.len \in Nat
  BY DEF Irps
<1>1. CASE x.type = "control"
  <2> DEFINE a == <<Td(x, "SETUP", 0, 8)>>
             b == IF x.dir = "in" THEN DataTds(x, 1) ELSE <<>>
             e == <<Td(x, IF x.dir = "in" THEN "OUT" ELSE "IN", 1, 0)>>
  <2>1. a \in Seq(Tds) /\ Uniform(a, dev[x.dev].addr, x.ep)
    BY TdTyped DEF Uniform
  <2>2. b \in Seq(Tds) /\ Uniform(b, dev[x.dev].addr, x.ep)
    BY DataTyped DEF Uniform
  <2>3. e \in Seq(Tds) /\ Uniform(e, dev[x.dev].addr, x.ep)
    BY TdTyped DEF Uniform
  <2>4. SubmitIrp(x) = (a \o b) \o e
    BY <1>1 DEF SubmitIrp, ControlTds
  <2> HIDE DEF a, b, e
  <2>5. (a \o b) \in Seq(Tds) /\ Uniform(a \o b, dev[x.dev].addr, x.ep)
    BY <2>1, <2>2 DEF Uniform
  <2>6. QED
    BY <2>3, <2>4, <2>5 DEF Uniform
<1>2. CASE x.type = "bulk"
  <2>1. dev[x.dev].togl[x.ep] \in {0, 1}
    BY <1>2 DEF TypeOK, Irps, Structs
  <2>2. SubmitIrp(x) = BulkTds(x)
    BY <1>2 DEF SubmitIrp
  <2>3. BulkTds(x) \in Seq(Tds) /\ Uniform(BulkTds(x), dev[x.dev].addr, x.ep)
    BY <1>0, <2>1, TdTyped DEF BulkTds, Uniform
  <2>4. QED
    BY <2>2, <2>3
<1>3. CASE x.type = "interrupt"
  <2>1. dev[x.dev].togl[x.ep] \in {0, 1}
    BY <1>3 DEF TypeOK, Irps, Structs
  <2>2. SubmitIrp(x) = DataTds(x, dev[x.dev].togl[x.ep])
    BY <1>3 DEF SubmitIrp
  <2>3. QED
    BY <2>1, <2>2, DataTyped
<1>4. QED
  BY <1>0, <1>1, <1>2, <1>3

-----------------------------------------------------------------------------
(* What holds of an item x in the job of a context, given the rest of the  *)
(* state: enumeration is for the handler once interrupts are enabled, the  *)
(* struct of a device that is about to be listed is alive and new, ...     *)
FitsAt(c, x, on, ports, structs, list, n, disks) ==
    /\ c = "irq" => on /\ x.op \notin {"enable irq", "register"}
    /\ c = "main" => x.op # "ack"
    /\ c = "main" /\ x.op \in {"port", "enable", "reset", "list", "enable irq"} => ~on
    /\ x.op = "port" =>
          IF c = "irq" THEN ~x.init ELSE ports[x.port].dev # None => ports[x.port].csc
    /\ x.op = "list" => structs[x.dev].live /\ x.dev \notin ToSet(list)
    /\ x.op = "probe" /\ x.drv = "hidkb" => n >= 1
    /\ x.op = "try" => disks # <<>>

(* The same, of this state and of the next one. *)
Fits(c, x) == FitsAt(c, x, irqOn, port, dev, devices, drivers, massstorage)
FitsNext(c, x) == FitsAt(c, x, irqOn', port', dev', devices', drivers', massstorage')

(* What a context has still to do is in order, and every item of it *)
(* fits.                                                            *)
Jobs == \A c \in Contexts : Ordered(job[c]) /\ \A i \in 1 .. Len(job[c]) : Fits(c, job[c][i])

(* How an action moves a job on. *)
Advances(c) ==
    \E items \in Seq(Items) :
        /\ Then(c, items) /\ Fresh(items, Item(c))
        /\ \A i \in 1 .. Len(items) : FitsNext(c, items[i])

(* What most actions leave alone, as far as the items of jobs go. *)
Steady ==
    /\ irqOn' = irqOn /\ drivers' >= drivers
    /\ \A p \in Ports : (port[p].dev # None => port[p].csc) => (port'[p].dev # None => port'[p].csc)
    /\ \A d \in Devices : dev[d].live /\ d \notin ToSet(devices) => dev'[d].live /\ d \notin ToSet(devices')
    /\ massstorage # <<>> => massstorage' # <<>>

(* A step that leaves these alone leaves an item fitting. *)
LEMMA SteadyFits ==
    ASSUME TypeOK, TypeOK', Steady, NEW c \in Contexts, NEW x \in Items, Fits(c, x)
    PROVE  FitsNext(c, x)
<1>1. /\ x.op = "port" => x.port \in Ports
      /\ x.op = "list" => x.dev \in Devices
  BY ItemTypes
<1>2. x.op = "port" /\ c # "irq" => (port'[x.port].dev # None => port'[x.port].csc)
  BY <1>1 DEF Steady, Fits, FitsAt
<1>3. x.op = "list" => dev'[x.dev].live /\ x.dev \notin ToSet(devices')
  BY <1>1 DEF Steady, Fits, FitsAt
<1>4. x.op = "probe" /\ x.drv = "hidkb" => drivers' >= 1
  BY DEF Steady, Fits, FitsAt, TypeOK
<1>5. QED
  BY <1>2, <1>3, <1>4 DEF Steady, Fits, FitsNext, FitsAt

(* Some items always fit. *)
LEMMA PlainFits ==
    ASSUME NEW c \in Contexts, c = "irq" => irqOn', NEW x \in Items, x.op \in Plain
    PROVE  FitsNext(c, x)
BY DEF FitsNext, FitsAt, Plain, BeforeList

(* What is known of the item a context is at. *)
LEMMA HeadFits ==
    ASSUME TypeOK, Jobs, NEW c \in Contexts, job[c] # <<>>
    PROVE  /\ Item(c) \in Items /\ Fits(c, Item(c)) /\ (c = "irq" => irqOn) /\ Ordered(job[c])
<1>1. Item(c) \in Items /\ Item(c) = job[c][1] /\ 1 \in 1 .. Len(job[c])
  BY HeadTyped
<1>2. Fits(c, Item(c))
  BY <1>1 DEF Jobs
<1>3. QED
  BY <1>1, <1>2 DEF Fits, FitsAt, Jobs

(* Moving one job on leaves the other alone. *)
LEMMA JobTyped ==
    ASSUME TypeOK, NEW c \in Contexts, job[c] # <<>>, NEW items \in Seq(Items), Then(c, items)
    PROVE  /\ job' \in [Contexts -> Seq(Items)]
           /\ job'[c] = items \o Tail(job[c])
           /\ \A e \in Contexts : e # c => job'[e] = job[e]
<1>1. job[c] \in Seq(Items) /\ job \in [Contexts -> Seq(Items)]
  BY DEF TypeOK
<1>2. Tail(job[c]) \in Seq(Items)
  BY <1>1
<1>3. items \o Tail(job[c]) \in Seq(Items)
  BY <1>2
<1>4. QED
  BY <1>1, <1>3 DEF Then

(* A job that is moved on stays in order, if the other items still fit. *)
LEMMA JobsAdvance ==
    ASSUME TypeOK, Jobs, NEW c \in Contexts, job[c] # <<>>, Advances(c),
           \A e \in Contexts : \A i \in 1 .. Len(job[e]) :
               (e = c => i # 1) => FitsNext(e, job[e][i])
    PROVE  Jobs'
<1>1. PICK items \in Seq(Items) : /\ Then(c, items) /\ Fresh(items, Item(c))
                                  /\ \A i \in 1 .. Len(items) : FitsNext(c, items[i])
  BY DEF Advances
<1>2. /\ job'[c] = items \o Tail(job[c])
      /\ \A e \in Contexts : e # c => job'[e] = job[e]
  BY <1>1, JobTyped
<1> SUFFICES ASSUME NEW e \in Contexts
             PROVE  Ordered(job'[e]) /\ \A i \in 1 .. Len(job'[e]) : FitsNext(e, job'[e][i])
  BY DEF Jobs, Fits, FitsNext
<1>3. CASE e # c
  BY <1>2, <1>3 DEF Jobs
<1>4. CASE e = c
  <2>1. job[c] \in Seq(Items) /\ Ordered(job[c]) /\ Item(c) = Head(job[c])
    BY DEF TypeOK, Jobs, Item
  <2>2. Ordered(job'[c])
    BY <1>1, <1>2, <2>1, OrderedSplice
  <2>3. /\ \A i \in 1 .. Len(items) : job'[c][i] = items[i]
        /\ \A i \in Len(items) + 1 .. Len(job'[c]) :
              job'[c][i] = job[c][i - Len(items) + 1] /\ i - Len(items) + 1 \in 2 .. Len(job[c])
        /\ Len(job'[c]) \in Nat /\ Len(items) \in Nat /\ Len(job[c]) \in Nat
    BY <1>2, <2>1, Spliced
  <2>4. ASSUME NEW i \in 1 .. Len(job'[c]) PROVE FitsNext(c, job'[c][i])
    <3>1. CASE i <= Len(items)
      <4>1. i \in 1 .. Len(items)
        BY <2>3, <3>1
      <4>2. QED
        BY <1>1, <2>3, <4>1
    <3>2. CASE i > Len(items)
      <4>1. i \in Len(items) + 1 .. Len(job'[c])
        BY <2>3, <3>2
      <4> DEFINE k == i - Len(items) + 1
      <4>2. job'[c][i] = job[c][k] /\ k \in 2 .. Len(job[c])
        BY <2>3, <4>1
      <4> HIDE DEF k
      <4>3. k \in 1 .. Len(job[c]) /\ k # 1
        BY <2>3, <4>2
      <4>4. QED
        BY <4>2, <4>3
    <3>3. QED
      BY <2>3, <3>1, <3>2
  <2>5. QED
    BY <1>4, <2>2, <2>4
<1>5. QED
  BY <1>3, <1>4

(* A job is moved on by a step that disturbs no item. *)
LEMMA JobsSteady ==
    ASSUME TypeOK, TypeOK', Jobs, Steady, NEW c \in Contexts, job[c] # <<>>, Advances(c)
    PROVE  Jobs'
<1>1. \A e \in Contexts : \A i \in 1 .. Len(job[e]) : FitsNext(e, job[e][i])
  <2> SUFFICES ASSUME NEW e \in Contexts, NEW i \in 1 .. Len(job[e]) PROVE FitsNext(e, job[e][i])
    OBVIOUS
  <2>1. job[e][i] \in Items /\ Fits(e, job[e][i])
    BY DEF TypeOK, Jobs
  <2>2. QED
    BY <2>1, SteadyFits
<1>2. QED
  BY <1>1, JobsAdvance

-----------------------------------------------------------------------------
(* The items with few fields are items. *)
LEMMA SmallItems ==
    /\ \A op \in {"poll", "try", "enable irq", "register", "ack"} : [op |-> op] \in Items
    /\ \A tds \in Seq(Tds) : [op |-> "queue", tds |-> tds] \in Items
    /\ \A d \in Devices : [op |-> "found", dev |-> d] \in Items
    /\ \A init \in BOOLEAN, p \in Ports : [op |-> "port", init |-> init, port |-> p] \in Items
    /\ \A drv \in {"hidkb", "storage", "hub"} : [op |-> "probe", drv |-> drv] \in Items
BY DriversAre DEF Items

(* A sequence of one element. *)
LEMMA SeqOfOne == ASSUME NEW S, NEW x \in S PROVE <<x>> \in Seq(S) /\ Len(<<x>>) = 1 /\ <<x>>[1] = x
OBVIOUS

(* An item is done, and nothing takes its place. *)
LEMMA AdvanceDone ==
    ASSUME NEW c \in Contexts, Then(c, <<>>)
    PROVE  Advances(c)
<1>1. <<>> \in Seq(Items) /\ Len(<<>>) = 0
  OBVIOUS
<1>2. Fresh(<<>>, Item(c))
  BY <1>1 DEF Fresh
<1>3. \A i \in 1 .. Len(<<>>) : FitsNext(c, <<>>[i])
  BY <1>1
<1>4. QED
  BY <1>1, <1>2, <1>3 DEF Advances

(* An item is followed by another one of the same work. *)
LEMMA AdvanceOne ==
    ASSUME TypeOK, Jobs, NEW c \in Contexts, job[c] # <<>>, irqOn' = irqOn,
           NEW x \in Items, Then(c, <<x>>), x.op \in Plain \/ FitsNext(c, x),
           x.op \in (Plain \cup {"enable", "reset", "list", "probe", "try"}) \ {"check"},
           Item(c).op \in BeforeList => x.op \in BeforeList,
           x.op \in {"queue", "poll"} => Item(c).op \in {"irp", "queue"},
           x.op \in {"enable", "reset"} => Item(c).op \in {"port", "enable"}
    PROVE  Advances(c)
<1> DEFINE items == <<x>>
<1>1. items \in Seq(Items) /\ Len(items) = 1 /\ items[1] = x
  BY SeqOfOne
<1>t. Then(c, items)
  OBVIOUS
<1>2. FitsNext(c, x)
  BY HeadFits, PlainFits
<1> HIDE DEF items
<1>3. Fresh(items, Item(c))
  BY <1>1 DEF Fresh
<1>4. QED
  BY <1>1, <1>2, <1>3, <1>t DEF Advances

(* hcdi_enqueue: the first TDs give the descriptor its address and *)
(* endpoint; later ones are put behind, whatever theirs are.       *)
LEMMA JoinedTyped ==
    ASSUME TypeOK, NEW tds \in Seq(Tds), tds # <<>>
    PROVE  /\ Joined(tds) \in Endpoints
           /\ ed = None => /\ Joined(tds).tds = tds /\ Joined(tds).addr = tds[1].addr
                           /\ Joined(tds).ep = tds[1].ep
           /\ ed # None => /\ Joined(tds).tds = ed.tds \o tds /\ Joined(tds).addr = ed.addr
                           /\ Joined(tds).ep = ed.ep
<1>1. Head(tds) = tds[1] /\ tds[1] \in Tds
  OBVIOUS
<1>2. CASE ed = None
  BY <1>1, <1>2 DEF Joined, Tds, Endpoints
<1>3. CASE ed # None
  <2>1. ed \in Endpoints
    BY <1>3 DEF TypeOK
  <2>2. Joined(tds) = [ed EXCEPT !.tds = ed.tds \o tds]
    BY <1>3 DEF Joined
  <2>3. ed.tds \o tds \in Seq(Tds)
    BY <2>1 DEF Endpoints
  <2>4. QED
    BY <1>3, <2>1, <2>2, <2>3 DEF Endpoints
<1>4. QED
  BY <1>2, <1>3

(* usb_submit_irp makes at least one TD of every request: hcdi_fire has *)
(* something to fire.                                                   *)
LEMMA SubmitNotEmpty ==
    ASSUME TypeOK, NEW x \in Irps, x.type = "interrupt" => x.len > 0
    PROVE  SubmitIrp(x) # <<>>
<1>0. x.type \in {"control", "bulk", "interrupt"}
  BY DEF Irps
<1>1. CASE x.type = "control"
  <2> DEFINE a == <<Td(x, "SETUP", 0, 8)>>
             b == IF x.dir = "in" THEN DataTds(x, 1) ELSE <<>>
             e == <<Td(x, IF x.dir = "in" THEN "OUT" ELSE "IN", 1, 0)>>
  <2>1. a \in Seq(Tds) /\ b \in Seq(Tds) /\ e \in Seq(Tds) /\ Len(e) = 1
    BY TdTyped, DataTyped
  <2>2. SubmitIrp(x) = (a \o b) \o e
    BY <1>1 DEF SubmitIrp, ControlTds
  <2> HIDE DEF a, b, e
  <2>3. (a \o b) \in Seq(Tds)
    BY <2>1
  <2> DEFINE f == a \o b
  <2> HIDE DEF f
  <2>4. f \in Seq(Tds)
    BY <2>3 DEF f
  <2>5. f \o e # <<>>
    BY <2>1, <2>4
  <2>6. QED
    BY <2>2, <2>5 DEF f
<1>2. CASE x.type = "bulk"
  BY <1>2 DEF SubmitIrp, BulkTds
<1>3. CASE x.type = "interrupt"
  <2> DEFINE t == dev[x.dev].togl[x.ep]
             size == EpSize(x)
  <2>1. SubmitIrp(x) = DataTds(x, t)
    BY <1>3 DEF SubmitIrp
  <2>2. size \in {8, 64} /\ x.len \in Nat /\ x.len > 0
    BY <1>3 DEF TypeOK, Irps, EpSize, Structs
  <2> HIDE DEF size
  <2>3. (x.len + size - 1) \div size >= 1
    BY <2>2
  <2> DEFINE all == Packets(x.len, size)
             lens == IF x.req = "device" /\ dev[x.dev].addr = 0 THEN SubSeq(all, 1, 1) ELSE all
  <2>4. (x.len + size - 1) \div size \in Nat /\ \A i \in Nat : (IF i * size <= x.len THEN size ELSE x.len % size) \in Nat
    BY <2>2
  <2>5. all \in Seq(Nat) /\ all # <<>>
    BY <2>3, <2>4 DEF Packets
  <2> HIDE DEF all
  <2>6. lens \in Seq(Nat) /\ Len(lens) >= 1
    BY <2>5
  <2>7. DataTds(x, t) = [i \in 1 .. Len(lens) |-> Td(x, "IN", t + i - 1, lens[i])]
    BY DEF DataTds, all, size
  <2> HIDE DEF lens
  <2>8. QED
    BY <2>1, <2>6, <2>7
<1>4. QED
  BY <1>0, <1>1, <1>2, <1>3

(* usb_submit_irp keeps the types and moves the job on to the TDs; it *)
(* changes toggles only.                                              *)
LEMMA SubmitStep ==
    ASSUME TypeOK, Jobs, NEW c \in Contexts, Submit(c)
    PROVE  /\ TypeOK' /\ Steady /\ Advances(c)
           /\ UNCHANGED <<port, rhsc, changes, count, devices, data, drivers, irqOn, raced, missed, crashed>>
           /\ \A d \in Devices : dev'[d].live = dev[d].live /\ dev'[d].addr = dev[d].addr
<1> DEFINE x == Item(c)
           tds == SubmitIrp(x)
<1>1. job[c] # <<>> /\ x \in Items /\ x.op = "irp" /\ x \in Irps
  BY HeadFits, ItemTypes DEF Submit, At, Runs, Idle
<1>2. tds \in Seq(Tds)
  BY <1>1, SubmitTyped
<1>3. tds # <<>>
  BY <1>1, SubmitNotEmpty DEF Irps
<1>4. UNCHANGED <<port, rhsc, changes, count, devices, data, drivers, irqOn, raced, missed, crashed>>
  BY DEF Submit
<1>5. Advances(c)
  <2>1. CASE Interruptible(c)
    <3>1. Then(c, <<[op |-> "queue", tds |-> tds]>>)
      BY <2>1 DEF Submit
    <3>2. QED
      BY <1>1, <1>2, <1>4, <3>1, SmallItems, AdvanceOne DEF Plain, BeforeList
  <2>2. CASE ~Interruptible(c)
    <3>1. Then(c, <<[op |-> "poll"]>>)
      BY <2>2 DEF Submit
    <3>2. QED
      BY <1>1, <1>4, <3>1, SmallItems, AdvanceOne DEF Plain, BeforeList
  <2>3. QED
    BY <2>1, <2>2
<1>6. job' \in [Contexts -> Seq(Items)]
  BY <1>1, <1>5, JobTyped DEF Advances
<1>7. ed' = ed \/ ed' = Joined(tds)
  BY DEF Submit
<1>8. dev' \in [Devices -> Structs]
      /\ \A d \in Devices : dev'[d].live = dev[d].live /\ dev'[d].addr = dev[d].addr
  <2>1. CASE x.type # "bulk"
    BY <2>1 DEF Submit, TypeOK
  <2>2. CASE x.type = "bulk"
    <3>1. x.dev \in Devices /\ x.ep \in {1, 2}
      BY <1>1, <2>2 DEF Irps
    <3>2. dev' = [dev EXCEPT ![x.dev].togl[x.ep] = NextTogl(@, Len(tds))]
      BY <2>2 DEF Submit
    <3>3. \A t \in {0, 1} : NextTogl(t, Len(tds)) \in {0, 1}
      BY <1>2 DEF NextTogl
    <3> DEFINE t == NextTogl(dev[x.dev].togl[x.ep], Len(tds))
    <3>4. dev \in [Devices -> Structs]
      BY DEF TypeOK
    <3>5. dev[x.dev].togl[x.ep] \in {0, 1}
      BY <3>1, <3>4 DEF Structs
    <3>6. dev' = [dev EXCEPT ![x.dev] = [dev[x.dev] EXCEPT !.togl = [dev[x.dev].togl EXCEPT ![x.ep] = t]]]
      BY <3>2
    <3> HIDE DEF t
    <3>7. t \in {0, 1}
      BY <3>3, <3>5 DEF t
    <3>8. [dev[x.dev] EXCEPT !.togl = [dev[x.dev].togl EXCEPT ![x.ep] = t]] \in
             Structs
      BY <3>1, <3>4, <3>7 DEF Structs
    <3>9. QED
      BY <3>1, <3>4, <3>6, <3>8 DEF Structs
  <2>3. QED
    BY <2>1, <2>2
<1>9. UNCHANGED <<next, connected, massstorage, errors, reports, ops, halted>>
  BY DEF Submit
<1>10. running' \in BOOLEAN /\ gbuf' \in Ports \cup {None}
  BY DEF Submit, TypeOK
<1>11. TypeOK'
  BY <1>2, <1>3, <1>4, <1>6, <1>7, <1>8, <1>9, <1>10, JoinedTyped DEF TypeOK
<1>12. Steady
  BY <1>4, <1>8, <1>9 DEF Steady, TypeOK
<1>13. QED
  BY <1>4, <1>5, <1>8, <1>11, <1>12

-----------------------------------------------------------------------------
(* hcdi_enqueue keeps the types and moves the job on to hcdi_fire. *)
LEMMA EnqueueStep ==
    ASSUME TypeOK, Jobs, NEW c \in Contexts, Enqueue(c)
    PROVE  TypeOK' /\ Steady /\ Advances(c)
<1> DEFINE tds == Item(c).tds
<1>1. job[c] # <<>> /\ Item(c) \in Items /\ Item(c).op = "queue" /\ tds \in Seq(Tds) /\ tds # <<>>
  BY HeadFits, ItemTypes DEF Enqueue, At, Runs, Idle
<1>2. Tail(tds) \in Seq(Tds) /\ <<Head(tds)>> \in Seq(Tds) /\ <<Head(tds)>> # <<>>
  <2>1. Head(tds) \in Tds
    BY <1>1
  <2>2. QED
    BY <1>1, <2>1, SeqOfOne
<1>3. UNCHANGED <<port, rhsc, running, halted, changes, errors, reports, dev, count, devices, connected,
                  next, drivers, data, massstorage, gbuf, irqOn, crashed, ops, raced, missed>>
  BY DEF Enqueue, core
<1>4. Advances(c)
  <2>1. Then(c, <<[op |-> "queue", tds |-> Tail(tds)]>>)
    BY DEF Enqueue
  <2>2. QED
    BY <1>1, <1>2, <1>3, <2>1, SmallItems, AdvanceOne DEF Plain, BeforeList
<1>5. job' \in [Contexts -> Seq(Items)]
  BY <1>1, <1>4, JobTyped DEF Advances
<1>6. ed' = Joined(<<Head(tds)>>)
  BY DEF Enqueue
<1>7. TypeOK'
  BY <1>2, <1>3, <1>5, <1>6, JoinedTyped DEF TypeOK
<1>8. QED
  BY <1>3, <1>4, <1>7 DEF Steady, TypeOK

(* hcdi_fire hands the list over: types and jobs are kept. *)
LEMMA FireStep ==
    ASSUME TypeOK, Jobs, NEW c \in Contexts, Fire(c)
    PROVE  TypeOK' /\ Steady /\ Advances(c)
<1>1. job[c] # <<>> /\ Item(c) \in Items /\ Item(c).op = "queue"
  BY HeadFits DEF Fire, At, Runs, Idle
<1>2. UNCHANGED <<port, rhsc, ed, halted, changes, errors, reports, dev, count, devices, connected,
                  next, drivers, data, massstorage, gbuf, irqOn, crashed, ops, raced, missed>>
  BY DEF Fire, core
<1>3. Advances(c)
  <2>1. CASE ed = None
    BY <2>1, AdvanceDone DEF Fire
  <2>2. CASE ed # None
    <3>1. Then(c, <<[op |-> "poll"]>>)
      BY <2>2 DEF Fire
    <3>2. QED
      BY <1>1, <1>2, <3>1, SmallItems, AdvanceOne DEF Plain, BeforeList
  <2>3. QED
    BY <2>1, <2>2
<1>4. job' \in [Contexts -> Seq(Items)]
  BY <1>1, <1>3, JobTyped DEF Advances
<1>5. running' \in BOOLEAN
  BY DEF Fire, TypeOK
<1>6. TypeOK'
  BY <1>2, <1>4, <1>5 DEF TypeOK
<1>7. QED
  BY <1>2, <1>3, <1>6 DEF Steady, TypeOK

(* The actions that only take an item from the job and change something    *)
(* that no item depends on.                                                *)
LEMMA DoneStep ==
    ASSUME TypeOK, Jobs, NEW c \in Contexts, job[c] # <<>>, Then(c, <<>>)
    PROVE  Advances(c) /\ job' \in [Contexts -> Seq(Items)]
<1>1. Advances(c)
  BY AdvanceDone
<1>2. QED
  BY <1>1, JobTyped DEF Advances

(* hcdi_fire returns, with or without its list: types and jobs are kept. *)
LEMMA FireEndsStep ==
    ASSUME TypeOK, Jobs, NEW c \in Contexts, FireEnds(c) \/ FireEndsWild(c)
    PROVE  TypeOK' /\ Steady /\ Advances(c)
<1>1. job[c] # <<>> /\ Then(c, <<>>)
  BY DEF FireEnds, FireEndsWild, At, Runs, Idle
<1>2. UNCHANGED <<port, rhsc, changes, errors, reports, dev, count, devices, connected,
                  next, drivers, data, massstorage, gbuf, irqOn, crashed, ops, raced, missed>>
  BY DEF FireEnds, FireEndsWild, core, hc
<1>3. ed' \in {ed, None} /\ running' \in {running, FALSE} /\ halted' \in {halted, FALSE}
  BY DEF FireEnds, FireEndsWild, hc
<1>4. Advances(c) /\ job' \in [Contexts -> Seq(Items)]
  BY <1>1, DoneStep
<1>5. TypeOK'
  BY <1>2, <1>3, <1>4 DEF TypeOK
<1>6. QED
  BY <1>2, <1>4, <1>5 DEF Steady, TypeOK

(* usb_set_address is over: the struct takes the address. *)
LEMMA AddressedStep ==
    ASSUME TypeOK, Jobs, NEW c \in Contexts, Addressed(c)
    PROVE  TypeOK' /\ Steady /\ Advances(c) /\ \A d \in Devices : dev'[d].live = dev[d].live
<1>1. job[c] # <<>> /\ Then(c, <<>>) /\ Item(c).dev \in Devices
  BY HeadFits, ItemTypes DEF Addressed, At, Runs, Idle
<1>2. UNCHANGED <<port, rhsc, ed, running, halted, changes, errors, reports, count, devices, connected,
                  drivers, data, massstorage, gbuf, irqOn, crashed, ops, raced, missed>>
  BY DEF Addressed, hc
<1>3. next' \in Addresses
  <2>1. next \in Nat /\ AddressMod \in Nat /\ AddressMod > 0
    BY UsbAssumption DEF TypeOK, Addresses
  <2>2. (next + 1) % AddressMod \in 0 .. AddressMod - 1
    BY <2>1
  <2>3. QED
    BY <2>2 DEF Addressed, Addresses
<1>4. /\ dev' \in [Devices -> Structs]
      /\ \A d \in Devices : dev'[d].live = dev[d].live
  <2>1. dev' = [dev EXCEPT ![Item(c).dev].addr = next] /\ next \in Addresses
    BY DEF Addressed, TypeOK
  <2> DEFINE d == Item(c).dev
  <2>2. d \in Devices /\ dev' = [dev EXCEPT ![d].addr = next]
    BY <1>1, <2>1
  <2> HIDE DEF d
  <2>4. dev \in [Devices -> Structs] /\ dev[d] \in Structs
    BY <2>2 DEF TypeOK
  <2> DEFINE new == [dev[d] EXCEPT !.addr = next]
  <2>5. new \in Structs /\ new.live = dev[d].live
    BY <2>1, <2>4 DEF Structs
  <2>6. dev' = [dev EXCEPT ![d] = new]
    BY <2>2
  <2> HIDE DEF new
  <2>7. QED
    BY <2>2, <2>4, <2>5, <2>6
<1>5. Advances(c) /\ job' \in [Contexts -> Seq(Items)]
  BY <1>1, DoneStep
<1>6. TypeOK'
  BY <1>2, <1>3, <1>4, <1>5 DEF TypeOK
<1>7. QED
  BY <1>2, <1>4, <1>5, <1>6 DEF Steady, TypeOK

(* usb_get_desc_config_ext has read the class of the device. *)
LEMMA ParseStep ==
    ASSUME TypeOK, Jobs, NEW c \in Contexts, Parse(c)
    PROVE  TypeOK' /\ Steady /\ Advances(c) /\ \A d \in Devices : dev'[d].live = dev[d].live
<1>1. job[c] # <<>> /\ Then(c, <<>>) /\ Item(c).dev \in Devices
  BY HeadFits, ItemTypes DEF Parse, At, Runs, Idle
<1>2. UNCHANGED <<port, rhsc, ed, running, halted, changes, errors, reports, count, devices, connected,
                  next, drivers, data, massstorage, gbuf, irqOn, crashed, ops, raced, missed>>
  BY DEF Parse, hc
<1> DEFINE k == IF gbuf = None THEN None ELSE port[gbuf].dev
<1>3. k \in Kinds \cup {None}
  BY DEF TypeOK, RootPorts
<1>4. /\ dev' \in [Devices -> Structs]
      /\ \A d \in Devices : dev'[d].live = dev[d].live
  <2>1. dev' = [dev EXCEPT ![Item(c).dev].kind = k]
    BY DEF Parse
  <2> DEFINE d == Item(c).dev
  <2>2. d \in Devices /\ dev' = [dev EXCEPT ![d].kind = k]
    BY <1>1, <2>1
  <2> HIDE DEF d, k
  <2>4. dev \in [Devices -> Structs] /\ dev[d] \in Structs
    BY <2>2 DEF TypeOK
  <2> DEFINE new == [dev[d] EXCEPT !.kind = k]
  <2>5. new \in Structs /\ new.live = dev[d].live
    BY <1>3, <2>1, <2>4 DEF Structs
  <2>6. dev' = [dev EXCEPT ![d] = new]
    BY <2>2
  <2> HIDE DEF new
  <2>7. QED
    BY <2>2, <2>4, <2>5, <2>6
<1>5. Advances(c) /\ job' \in [Contexts -> Seq(Items)]
  BY <1>1, DoneStep
<1>6. TypeOK'
  BY <1>2, <1>4, <1>5 DEF TypeOK
<1>7. QED
  BY <1>2, <1>4, <1>5, <1>6 DEF Steady, TypeOK

(* configure_ports takes note of the device it connected. *)
LEMMA ConnectStep ==
    ASSUME TypeOK, Jobs, NEW c \in Contexts, Connect(c)
    PROVE  TypeOK' /\ Steady /\ Advances(c)
<1>1. job[c] # <<>> /\ Then(c, <<>>) /\ Item(c).dev \in Devices /\ Item(c).port \in Ports
  BY HeadFits, ItemTypes DEF Connect, At, Runs, Idle
<1>2. UNCHANGED <<port, rhsc, ed, running, halted, changes, errors, reports, dev, count, devices,
                  next, drivers, data, massstorage, gbuf, irqOn, crashed, ops, raced, missed>>
  BY DEF Connect, hc
<1>3. connected' \in [Ports -> Devices \cup {Bad, None}]
  BY <1>1 DEF Connect, TypeOK
<1>4. Advances(c) /\ job' \in [Contexts -> Seq(Items)]
  BY <1>1, DoneStep
<1>5. TypeOK'
  BY <1>2, <1>3, <1>4 DEF TypeOK
<1>6. QED
  BY <1>2, <1>4, <1>5 DEF Steady, TypeOK

(* hcdi_irq clears the status it has served. *)
LEMMA AcknowledgeStep ==
    ASSUME TypeOK, Jobs, NEW c \in Contexts, Acknowledge(c)
    PROVE  TypeOK' /\ Steady /\ Advances(c)
<1>1. job[c] # <<>> /\ Then(c, <<>>)
  BY DEF Acknowledge, At, Runs, Idle
<1>2. UNCHANGED <<port, ed, running, halted, changes, errors, reports, dev, count, devices, connected,
                  next, drivers, data, massstorage, gbuf, irqOn, crashed, ops, raced, missed>>
  BY DEF Acknowledge, core
<1>3. rhsc' \in BOOLEAN
  BY DEF Acknowledge
<1>4. Advances(c) /\ job' \in [Contexts -> Seq(Items)]
  BY <1>1, DoneStep
<1>5. TypeOK'
  BY <1>2, <1>3, <1>4 DEF TypeOK
<1>6. QED
  BY <1>2, <1>4, <1>5 DEF Steady, TypeOK

(* usb_storage_probe lists a disk. *)
LEMMA FoundStep ==
    ASSUME TypeOK, Jobs, NEW c \in Contexts, Found(c)
    PROVE  TypeOK' /\ Steady /\ Advances(c)
<1>1. job[c] # <<>> /\ Item(c) \in Items /\ Item(c).op = "found" /\ Item(c).dev \in Devices
  BY HeadFits, ItemTypes DEF Found, At, Runs, Idle
<1>2. UNCHANGED <<port, rhsc, ed, running, halted, changes, errors, reports, dev, count, devices, connected,
                  next, drivers, data, gbuf, irqOn, crashed, ops, raced, missed>>
  BY DEF Found, hc
<1>3. massstorage' \in Seq(Devices) /\ (massstorage # <<>> => massstorage' # <<>>)
  <2>1. massstorage \in Seq(Devices)
    BY DEF TypeOK
  <2>2. Append(massstorage, Item(c).dev) \in Seq(Devices) /\ Append(massstorage, Item(c).dev) # <<>>
    BY <1>1, <2>1
  <2>3. QED
    BY <2>1, <2>2 DEF Found
<1>4. Advances(c)
  <2>1. CASE Then(c, <<>>)
    BY <2>1, AdvanceDone
  <2>2. CASE Then(c, <<[op |-> "try"]>>) /\ massstorage' = Append(massstorage, Item(c).dev)
    <3>1. massstorage' # <<>>
      BY <2>2, <1>1 DEF TypeOK
    <3>2. FitsNext(c, [op |-> "try"])
      BY <1>1, <1>2, <3>1, HeadFits DEF FitsNext, FitsAt
    <3>3. QED
      BY <1>1, <1>2, <2>2, <3>2, SmallItems, AdvanceOne DEF BeforeList
  <2>3. QED
    BY <2>1, <2>2 DEF Found
<1>5. job' \in [Contexts -> Seq(Items)]
  BY <1>1, <1>4, JobTyped DEF Advances
<1>6. TypeOK'
  BY <1>2, <1>3, <1>5 DEF TypeOK
<1>7. QED
  BY <1>2, <1>3, <1>4, <1>6 DEF Steady, TypeOK

-----------------------------------------------------------------------------
(* The elements of a sequence. *)
LEMMA SetOfSeq ==
    ASSUME NEW S, NEW s \in Seq(S)
    PROVE  ToSet(s) \subseteq S /\ \A x \in ToSet(s) : \E i \in 1 .. Len(s) : s[i] = x
BY DEF ToSet

(* What is left of a list. *)
LEMMA DeletedFrom ==
    ASSUME TypeOK, NEW d
    PROVE  /\ DeleteElement(devices, d) \in Seq(Devices)
           /\ ToSet(DeleteElement(devices, d)) \subseteq ToSet(devices) \ {d}
<1>1. devices \in Seq(Devices)
  BY DEF TypeOK
<1>2. ToSet(devices) \subseteq Devices
  BY <1>1, SetOfSeq
<1>3. CASE devices # <<>> /\ Head(devices) = d
  <2>1. DeleteElement(devices, d) = <<>>
    BY <1>3 DEF DeleteElement
  <2>2. <<>> \in Seq(Devices) /\ ToSet(<<>>) = {}
    BY DEF ToSet
  <2>3. QED
    BY <2>1, <2>2
<1>4. CASE ~(devices # <<>> /\ Head(devices) = d)
  <2> DEFINE S == ToSet(devices) \cap (Devices \ {d})
             r == Filter(devices, Devices \ {d})
  <2>1. DeleteElement(devices, d) = r
    BY <1>4 DEF DeleteElement
  <2>2. r \in Seq(S)
    BY <1>1, FilterKeeps
  <2>3. S \subseteq Devices /\ S \subseteq ToSet(devices) \ {d}
    OBVIOUS
  <2> HIDE DEF S, r
  <2>4. r \in Seq(Devices) /\ ToSet(r) \subseteq S
    BY <2>2, <2>3, SetOfSeq
  <2>5. QED
    BY <2>1, <2>3, <2>4
<1>5. QED
  BY <1>3, <1>4

(* A struct is alive only once it was made; listed devices are alive;  *)
(* and so is the keyboard that the driver offers, which a driver found *)
(* after it was registered: usb_remove_device asks the first driver    *)
(* first.                                                              *)
Alive ==
    /\ \A d \in Devices : dev[d].live => d <= count
    /\ \A d \in ToSet(devices) : dev[d].live
    /\ data["hidkb"] # None => drivers >= 1 /\ dev[data["hidkb"]].live

(* The first of the registered drivers is the keyboard's. *)
LEMMA FirstDriver ==
    ASSUME NEW S, S \subseteq Nat \ {0}, 1 \in S
    PROVE  (CHOOSE i \in S : \A j \in S : i <= j) = 1
<1>1. \A j \in S : 1 <= j
  OBVIOUS
<1>2. ASSUME NEW i \in S, \A j \in S : i <= j PROVE i = 1
  BY <1>2
<1>3. QED
  BY <1>1, <1>2

(* configure_ports on a port whose device is gone, with               *)
(* usb_remove_device: a struct is freed only when it leaves the list, *)
(* and never the one that the keyboard's driver still offers.         *)
LEMMA ForgetStep ==
    ASSUME TypeOK, NEW p \in Ports, Forget(p)
    PROVE  /\ connected' \in [Ports -> Devices \cup {Bad, None}]
           /\ data' \in [ToSet(Drivers) -> Devices \cup {None}]
           /\ devices' \in Seq(Devices) /\ ToSet(devices') \subseteq ToSet(devices)
           /\ dev' \in [Devices -> Structs] /\ crashed' \in BOOLEAN
           /\ \A d \in Devices : dev[d].live /\ d \notin ToSet(devices) => dev'[d].live
           /\ \A d \in Devices : dev[d].live /\ d \in ToSet(devices') => dev'[d].live
           /\ \A d \in Devices : dev'[d].addr = dev[d].addr /\ (dev'[d].live => dev[d].live)
           /\ Alive /\ data'["hidkb"] # None =>
                 data'["hidkb"] = data["hidkb"] /\ dev'[data["hidkb"]].live
<1>0. /\ connected \in [Ports -> Devices \cup {Bad, None}] /\ dev \in [Devices -> Structs]
      /\ data \in [ToSet(Drivers) -> Devices \cup {None}] /\ devices \in Seq(Devices) /\ crashed \in BOOLEAN
      /\ ToSet(devices) \subseteq Devices /\ drivers \in 0 .. 3 /\ data["hidkb"] \in Devices \cup {None}
  BY DriversAre, SetOfSeq DEF TypeOK
<1>1. CASE connected[p] = None
  BY <1>0, <1>1 DEF Forget, Alive
<1>2. CASE connected[p] # None
  <2> DEFINE d == connected[p]
             drv == Drivers[CHOOSE i \in Bound(d) : \A j \in Bound(d) : i <= j]
  <2>1. /\ connected' = [connected EXCEPT ![p] = None]
        /\ data' = IF d \in Devices /\ Bound(d) # {} THEN [data EXCEPT ![drv] = None] ELSE data
        /\ devices' = DeleteElement(devices, d)
        /\ dev' = IF d \in ToSet(devices) THEN [dev EXCEPT ![d].live = FALSE] ELSE dev
        /\ crashed' \in BOOLEAN
    BY <1>2 DEF Forget, RemoveDevice
  <2> HIDE DEF d
  <2>2. devices' \in Seq(Devices) /\ ToSet(devices') \subseteq ToSet(devices) \ {d}
    BY <2>1, DeletedFrom
  <2>3. /\ dev' \in [Devices -> Structs]
        /\ \A e \in Devices : e # d \/ d \notin ToSet(devices) => dev'[e] = dev[e]
        /\ \A e \in Devices : dev'[e].addr = dev[e].addr /\ (dev'[e].live => dev[e].live)
    <3>1. CASE d \in ToSet(devices)
      <4> DEFINE new == [dev[d] EXCEPT !.live = FALSE]
      <4>1. d \in Devices /\ dev[d] \in Structs
        BY <1>0, <3>1
      <4>2. new \in Structs /\ new.addr = dev[d].addr /\ ~new.live
        BY <4>1 DEF Structs
      <4>3. dev' = [dev EXCEPT ![d] = new]
        BY <2>1, <3>1
      <4> HIDE DEF new
      <4>4. \A e \in Devices : dev'[e] = IF e = d THEN new ELSE dev[e]
        BY <1>0, <4>3
      <4>5. dev' \in [Devices -> Structs]
        BY <1>0, <4>1, <4>2, <4>3
      <4>6. \A e \in Devices : dev'[e].addr = dev[e].addr /\ (dev'[e].live => dev[e].live)
        BY <4>1, <4>2, <4>4
      <4>7. QED
        BY <4>1, <4>4, <4>5, <4>6, <3>1
    <3>2. CASE d \notin ToSet(devices)
      BY <1>0, <2>1, <3>2
    <3>3. QED
      BY <3>1, <3>2
  <2>4. data' \in [ToSet(Drivers) -> Devices \cup {None}] /\ (data'["hidkb"] # None => data'["hidkb"] = data["hidkb"])
    <3> HIDE DEF drv
    <3>1. QED
      BY <1>0, <2>1, DriversAre
  <2>5. ASSUME Alive, data'["hidkb"] # None PROVE dev'[data["hidkb"]].live
    <3>1. data["hidkb"] \in Devices /\ dev[data["hidkb"]].live /\ drivers >= 1
      BY <1>0, <2>4, <2>5 DEF Alive
    <3>2. CASE data["hidkb"] = d
      <4>1. 1 \in Bound(d) /\ Bound(d) \subseteq Nat \ {0}
        BY <1>0, <3>1, <3>2 DEF Bound, Drivers
      <4>2. drv = "hidkb"
        BY <4>1, FirstDriver DEF Drivers
      <4>3. data' = [data EXCEPT !["hidkb"] = None]
        BY <2>1, <3>1, <3>2, <4>1, <4>2
      <4>4. QED
        BY <1>0, <2>5, <4>3, DriversAre
    <3>3. CASE data["hidkb"] # d
      BY <2>3, <3>1, <3>3
    <3>4. QED
      BY <3>2, <3>3
  <2>6. \A e \in Devices : dev[e].live /\ e \notin ToSet(devices) => dev'[e].live
    BY <2>3
  <2>7. \A e \in Devices : dev[e].live /\ e \in ToSet(devices') => dev'[e].live
    BY <2>2, <2>3
  <2>8. connected' \in [Ports -> Devices \cup {Bad, None}]
    BY <1>0, <2>1
  <2>9. QED
    BY <2>1, <2>2, <2>3, <2>4, <2>5, <2>6, <2>7, <2>8
<1>3. QED
  BY <1>1, <1>2

-----------------------------------------------------------------------------
(* Every device that is plugged in is enumerated once: the structs suffice. *)
Pending(p) == IF port[p].csc /\ port[p].dev # None THEN 1 ELSE 0
InHand(c) == IF ~Idle(c) /\ Item(c).op \in {"enable", "reset"} THEN 1 ELSE 0
Counted ==
    /\ count + Pending(1) + Pending(2) + InHand("main") + InHand("irq") <= 1 + changes
    /\ changes <= MaxMishaps

(* What usb_add_device does before it lists the device. *)
Early == {x \in Items : x.op \in {"irp", "check", "addressed", "parse"}}

(* The elements of a concatenation. *)
LEMMA Concat ==
    ASSUME NEW S, NEW s \in Seq(S), NEW t \in Seq(S), NEW r, r = s \o t
    PROVE  /\ r \in Seq(S) /\ Len(r) = Len(s) + Len(t) /\ Len(s) \in Nat /\ Len(t) \in Nat
           /\ \A i \in 1 .. Len(s) : r[i] = s[i]
           /\ \A i \in Len(s) + 1 .. Len(r) : r[i] = t[i - Len(s)]
OBVIOUS

(* usb_add_device lists the device last. *)
LEMMA AddDeviceItems ==
    ASSUME NEW d \in Devices, NEW p \in Ports
    PROVE  /\ AddDevice(d, p) \in Seq(Items) /\ Len(AddDevice(d, p)) >= 1
           /\ \A i \in 1 .. Len(AddDevice(d, p)) - 1 : AddDevice(d, p)[i] \in Early
           /\ AddDevice(d, p)[Len(AddDevice(d, p))] = Step("list", d, p)
<1> DEFINE a == <<Control(d, "device", "in", 8), Step("check", d, p), Control(d, "address", "out", 0),
                  Step("addressed", d, p), Control(d, "device", "in", 8), Step("check", d, p),
                  Control(d, "device", "in", 18)>>
           g == GetConfig(d)
           e == <<Step("list", d, p)>>
<1>1. /\ Control(d, "device", "in", 8) \in Early /\ Control(d, "address", "out", 0) \in Early
      /\ Control(d, "device", "in", 18) \in Early /\ Control(d, "config", "in", 8) \in Early
      /\ Control(d, "config", "in", 9) \in Early /\ Control(d, "config", "in", 34) \in Early
  BY ControlTyped DEF Early, Requests
<1>2. Step("check", d, p) \in Early /\ Step("addressed", d, p) \in Early /\ Step("parse", d, None) \in Early
  BY StepTyped DEF Early
<1>3. a \in Seq(Early)
  BY <1>1, <1>2
<1>4. g \in Seq(Early)
  BY <1>1, <1>2 DEF GetConfig
<1>5. e \in Seq(Items) /\ Len(e) = 1 /\ e[1] = Step("list", d, p)
  BY StepTyped, SeqOfOne
<1>6. AddDevice(d, p) = (a \o g \o g) \o e
  BY DEF AddDevice
<1> HIDE DEF a, g, e
<1>7. (a \o g \o g) \in Seq(Early)
  BY <1>3, <1>4
<1> DEFINE b == a \o g \o g
<1>8. b \in Seq(Early) /\ b \in Seq(Items)
  BY <1>7 DEF Early
<1> HIDE DEF b
<1> DEFINE r == b \o e
<1>9. /\ r \in Seq(Items) /\ Len(r) = Len(b) + 1 /\ Len(b) \in Nat
      /\ \A i \in 1 .. Len(b) : r[i] = b[i]
      /\ r[Len(b) + 1] = e[1]
  <2>1. e \in Seq(Items)
    BY <1>5
  <2>2. /\ r \in Seq(Items) /\ Len(r) = Len(b) + Len(e) /\ Len(b) \in Nat
        /\ \A i \in 1 .. Len(b) : r[i] = b[i]
        /\ \A i \in Len(b) + 1 .. Len(r) : r[i] = e[i - Len(b)]
    BY ONLY <1>8, <2>1, Concat
  <2> HIDE DEF r
  <2>3. Len(r) = Len(b) + 1 /\ Len(b) + 1 \in Len(b) + 1 .. Len(r) /\ (Len(b) + 1) - Len(b) = 1
    BY <1>5, <2>2
  <2>4. QED
    BY <2>2, <2>3
<1>10. QED
  BY <1>5, <1>6, <1>8, <1>9 DEF b, r

(* setup_port after the reset of the port: usb_add_device makes a struct *)
(* that is not in use, and there is one.                                 *)
LEMMA PortResetStep ==
    ASSUME TypeOK, Jobs, Counted, Alive, NEW c \in Contexts, PortReset(c)
    PROVE  /\ TypeOK' /\ Jobs' /\ Advances(c)
           /\ count + 1 \in Devices /\ count' = count + 1
           /\ \A d \in Devices : d # count + 1 => dev'[d] = dev[d]
           /\ dev'[count + 1].live
           /\ \A q \in Ports : port'[q].dev = port[q].dev /\ port'[q].csc = port[q].csc
<1> DEFINE p == Item(c).port
           d == count + 1
           all == AddDevice(d, p)
<1>1. job[c] # <<>> /\ Item(c) \in Items /\ Item(c).op = "reset" /\ p \in Ports /\ Fits(c, Item(c))
  BY HeadFits, ItemTypes DEF PortReset, At, Runs, Idle
<1>2. UNCHANGED <<rhsc, ed, running, halted, changes, errors, reports, devices, connected,
                  next, drivers, data, massstorage, gbuf, irqOn, crashed, ops, raced, missed>>
  BY DEF PortReset
<1>3. d \in Devices
  <2>1. InHand(c) = 1 /\ InHand("main") \in {0, 1} /\ InHand("irq") \in {0, 1}
        /\ Pending(1) \in {0, 1} /\ Pending(2) \in {0, 1}
    BY <1>1 DEF InHand, Idle, Pending
  <2>2. c = "main" \/ c = "irq"
    BY DEF Contexts
  <2>3. count \in Nat /\ changes \in Nat /\ count + 1 <= 1 + changes
    BY <2>1, <2>2 DEF Counted, TypeOK
  <2>4. QED
    BY <2>3, UsbAssumption DEF Counted, Devices
<1>4. port' \in [Ports -> RootPorts] /\ \A q \in Ports : port'[q].dev = port[q].dev /\ port'[q].csc = port[q].csc
  <2>1. port' = [port EXCEPT ![p].addr = 0, ![p].out = 0, ![p].in = 0,
                             ![p].phase = "command", ![p].pes = TRUE]
    BY DEF PortReset
  <2> DEFINE o == port[p]
             new == [o EXCEPT !.addr = 0, !.out = 0, !.in = 0, !.phase = "command", !.pes = TRUE]
  <2>2. port' = [port EXCEPT ![p] = new]
    BY <1>1, <2>1 DEF TypeOK, RootPorts
  <2>3. o \in RootPorts /\ 0 \in Addresses
    BY <1>1, UsbAssumption DEF TypeOK, Addresses
  <2>4. new \in RootPorts /\ new.dev = port[p].dev /\ new.csc = port[p].csc
    <3> HIDE DEF o
    <3>1. new \in RootPorts
      BY <2>3 DEF RootPorts
    <3>2. new.dev = o.dev /\ new.csc = o.csc
      BY <2>3 DEF RootPorts
    <3>3. QED
      BY <3>1, <3>2 DEF o
  <2> HIDE DEF new, p
  <2>5. QED
    BY <1>1, <2>2, <2>4 DEF TypeOK
<1>5. NewDevice(p) \in Structs /\ NewDevice(p).live
  BY UsbAssumption DEF NewDevice, Structs, Addresses
<1>6. dev' = [dev EXCEPT ![d] = NewDevice(p)] /\ count' = d /\ Then(c, all)
  BY DEF PortReset
<1> HIDE DEF p, d
<1>7. /\ dev' \in [Devices -> Structs] /\ dev'[d].live
      /\ \A e \in Devices : e # d => dev'[e] = dev[e]
  BY <1>3, <1>5, <1>6 DEF TypeOK
<1>8. /\ all \in Seq(Items) /\ Len(all) >= 1 /\ Len(all) \in Nat
      /\ \A i \in 1 .. Len(all) - 1 : all[i] \in Early
      /\ all[Len(all)] = Step("list", d, p)
  BY <1>1, <1>3, AddDeviceItems
<1> HIDE DEF all
<1>9. all[Len(all)].op = "list" /\ all[Len(all)].dev = d
  BY <1>8, StepTyped
<1>10. Fresh(all, Item(c))
  <2> SUFFICES ASSUME NEW i \in 1 .. Len(all)
               PROVE  /\ all[i].op \in Plain \cup {"enable", "reset", "list", "probe", "try"}
                      /\ all[i].op \notin {"queue", "poll", "enable", "reset"}
                      /\ all[i].op = "check" => \E j \in i + 1 .. Len(all) : all[j].op = "list"
                      /\ all[i].op = "list" => \A j \in 1 .. i - 1 : all[j].op \in BeforeList
    BY <1>1 DEF Fresh, BeforeList
  <2>1. CASE i = Len(all)
    <3>1. \A j \in 1 .. i - 1 : all[j].op \in BeforeList
      BY <1>8, <2>1 DEF Early, BeforeList
    <3>2. QED
      BY <1>9, <2>1, <3>1
  <2>2. CASE i # Len(all)
    <3>1. i \in 1 .. Len(all) - 1 /\ Len(all) \in i + 1 .. Len(all)
      BY <1>8, <2>2
    <3>2. all[i].op \in {"irp", "check", "addressed", "parse"}
      BY <1>8, <3>1 DEF Early
    <3>3. QED
      BY <1>9, <3>1, <3>2 DEF Plain, BeforeList
  <2>3. QED
    BY <2>1, <2>2
<1>11. irqOn' = irqOn /\ (c = "irq" => irqOn) /\ (c = "main" => ~irqOn)
  BY <1>1, <1>2 DEF Fits, FitsAt
<1>12. devices \in Seq(Devices) /\ d \notin ToSet(devices)
  <2>1. count \in Nat /\ devices \in Seq(Devices) /\ ToSet(devices) \subseteq Devices
    BY SetOfSeq DEF TypeOK
  <2>2. \A e \in ToSet(devices) : e <= count
    BY <2>1 DEF Alive
  <2>3. QED
    BY <2>1, <2>2 DEF d
<1>13. \A i \in 1 .. Len(all) : FitsNext(c, all[i])
  <2> SUFFICES ASSUME NEW i \in 1 .. Len(all) PROVE FitsNext(c, all[i])
    OBVIOUS
  <2>1. CASE i = Len(all)
    <3>1. /\ all[i].op = "list" /\ all[i].dev = d /\ irqOn' = irqOn /\ devices' = devices
          /\ (c = "irq" => irqOn) /\ (c = "main" => ~irqOn) /\ dev'[d].live /\ d \notin ToSet(devices)
      BY <1>2, <1>7, <1>9, <1>11, <1>12, <2>1
    <3>2. QED
      BY <3>1 DEF FitsNext, FitsAt
  <2>2. CASE i # Len(all)
    <3>1. i \in 1 .. Len(all) - 1
      BY <1>8, <2>2
    <3>2. all[i] \in Items /\ all[i].op \in Plain
      BY <1>8, <3>1 DEF Early, Plain, BeforeList
    <3>3. QED
      BY <1>11, <3>2, PlainFits
  <2>3. QED
    BY <2>1, <2>2
<1>14. Advances(c)
  BY <1>6, <1>8, <1>10, <1>13 DEF Advances
<1>15. job' \in [Contexts -> Seq(Items)]
  BY <1>1, <1>6, <1>8, JobTyped
<1>16. TypeOK'
  BY <1>2, <1>3, <1>4, <1>6, <1>7, <1>15 DEF TypeOK, d
<1>17. Steady
  <2>1. drivers \in 0 .. 3
    BY DEF TypeOK
  <2>2. \A e \in Devices : dev[e].live => dev'[e].live
    BY <1>7
  <2>3. QED
    BY <1>2, <1>4, <2>1, <2>2 DEF Steady
<1>18. Jobs'
  BY <1>1, <1>14, <1>16, <1>17, JobsSteady
<1>19. QED
  BY <1>3, <1>4, <1>6, <1>7, <1>14, <1>16, <1>18 DEF d

-----------------------------------------------------------------------------
(* What an item needs of the rest of the state apart from the ports. *)
LEMMA FitsElse ==
    ASSUME NEW c \in Contexts, NEW x, Fits(c, x),
           irqOn' = irqOn, dev' = dev, devices' = devices, drivers' = drivers, massstorage' = massstorage,
           x.op = "port" /\ c # "irq" => (port'[x.port].dev # None => port'[x.port].csc)
    PROVE  FitsNext(c, x)
BY DEF Fits, FitsNext, FitsAt

(* Nobody enumerates beside a context that enumerates. *)
LEMMA Alone ==
    ASSUME TypeOK, Jobs, NEW c \in Contexts, NEW e \in Contexts, e # c, job[c] # <<>>,
           Item(c).op \in {"port", "enable", "reset", "list", "enable irq"}, NEW i \in 1 .. Len(job[e])
    PROVE  c = "irq" /\ e = "main" /\ job[e][i].op \notin {"port", "enable", "reset", "list", "enable irq"}
<1>1. Fits(c, Item(c)) /\ Fits(e, job[e][i])
  BY HeadFits DEF Jobs
<1>2. (c = "main" /\ e = "irq") \/ (c = "irq" /\ e = "main")
  BY DEF Contexts
<1>3. c # "main"
  BY <1>1, <1>2 DEF Fits, FitsAt
<1>4. QED
  BY <1>1, <1>2, <1>3 DEF Fits, FitsAt

(* Forgetting a device disturbs no item of a job. *)
LEMMA ForgetSteady ==
    ASSUME TypeOK, NEW p \in Ports, Forget(p), irqOn' = irqOn, drivers' = drivers, port' = port,
           massstorage' = massstorage
    PROVE  Steady
<1>1. /\ ToSet(devices') \subseteq ToSet(devices)
      /\ \A d \in Devices : dev[d].live /\ d \notin ToSet(devices) => dev'[d].live
  BY ForgetStep
<1>2. drivers \in 0 .. 3
  BY DEF TypeOK
<1>3. QED
  BY <1>1, <1>2 DEF Steady

(* setup_port: types and jobs are kept. *)
LEMMA SetupPortStep ==
    ASSUME TypeOK, Jobs, NEW c \in Contexts, SetupPort(c)
    PROVE  TypeOK' /\ Jobs' /\ Advances(c)
<1> DEFINE p == Item(c).port
<1>1. /\ job[c] # <<>> /\ Item(c) \in Items /\ Item(c).op = "port" /\ p \in Ports
      /\ Item(c) = job[c][1] /\ Fits(c, Item(c)) /\ Ordered(job[c])
  BY HeadFits, HeadTyped, ItemTypes DEF SetupPort, At, Runs, Idle
<1>2. UNCHANGED <<rhsc, ed, running, halted, changes, errors, reports, count, next, drivers,
                  massstorage, gbuf, irqOn, ops, raced, missed>>
  BY DEF SetupPort
<1> DEFINE new == port[p].dev # None /\ (port[p].csc \/ Item(c).init)
<1>3. CASE new
  <2>1. /\ port' = [port EXCEPT ![p].csc = FALSE] /\ Then(c, <<Step("enable", None, p)>>)
        /\ UNCHANGED <<connected, data, devices, dev, crashed>>
    BY <1>3 DEF SetupPort
  <2> DEFINE o == port[p]
             q == [o EXCEPT !.csc = FALSE]
  <2>2. port' = [port EXCEPT ![p] = q]
    BY <2>1
  <2>3. o \in RootPorts
    BY <1>1 DEF TypeOK
  <2>4. q \in RootPorts
    <3> HIDE DEF o
    <3>1. QED
      BY <2>3 DEF RootPorts
  <2> HIDE DEF q
  <2>5. port' \in [Ports -> RootPorts] /\ \A r \in Ports : r # p => port'[r] = port[r]
    BY <2>2, <2>4 DEF TypeOK
  <2> DEFINE x == Step("enable", None, p)
  <2>6. x \in Items /\ x.op = "enable"
    BY <1>1, StepTyped
  <2> HIDE DEF x
  <2>7. FitsNext(c, x)
    BY <1>1, <1>2, <2>6 DEF FitsNext, Fits, FitsAt
  <2>8. Advances(c)
    BY <1>1, <1>2, <2>1, <2>6, <2>7, AdvanceOne DEF BeforeList, x
  <2>9. job' \in [Contexts -> Seq(Items)]
    BY <1>1, <2>8, JobTyped DEF Advances
  <2>10. TypeOK'
    BY <1>2, <2>1, <2>5, <2>9 DEF TypeOK
  <2>11. ASSUME NEW e \in Contexts, NEW i \in 1 .. Len(job[e]), e = c => i # 1
         PROVE  FitsNext(e, job[e][i])
    <3>1. job[e][i] \in Items /\ Fits(e, job[e][i])
      BY DEF TypeOK, Jobs
    <3>2. ASSUME job[e][i].op = "port", e # "irq"
          PROVE  port'[job[e][i].port].dev # None => port'[job[e][i].port].csc
      <4>1. e = c
        BY <1>1, <3>2, Alone DEF Contexts
      <4>2. job[c][i].port # job[c][1].port
        <5>1. 1 \in 1 .. Len(job[c]) /\ i \in 2 .. Len(job[c])
          BY <2>11, <4>1, HeadTyped, <1>1
        <5>2. job[c][1].op = "port"
          BY <1>1
        <5>3. \A j \in 1 + 1 .. Len(job[c]) : job[c][j].op = "port" => job[c][j].port # job[c][1].port
          BY <1>1, <5>1, <5>2 DEF Ordered
        <5>4. QED
          BY <3>2, <4>1, <5>1, <5>3
      <4>3. job[e][i].port \in Ports /\ job[e][i].port # p
        BY <1>1, <3>1, <3>2, <4>1, <4>2, ItemTypes
      <4>4. QED
        BY <2>5, <3>1, <3>2, <4>3 DEF Fits, FitsAt
    <3>3. QED
      BY <1>2, <2>1, <3>1, <3>2, FitsElse
  <2>12. Jobs'
    BY <1>1, <2>8, <2>11, JobsAdvance
  <2>13. QED
    BY <2>8, <2>10, <2>12
<1>4. CASE ~new
  <2>1. port' = port /\ Then(c, <<>>)
    BY <1>4 DEF SetupPort
  <2>2. Forget(p) \/ UNCHANGED <<connected, data, devices, dev, crashed>>
    BY <1>4 DEF SetupPort
  <2> HIDE DEF p, new
  <2>3. Advances(c) /\ job' \in [Contexts -> Seq(Items)]
    BY <1>1, <2>1, DoneStep
  <2>4. TypeOK'
    BY <1>1, <1>2, <2>1, <2>2, <2>3, ForgetStep DEF TypeOK
  <2>5. CASE Forget(p)
    BY <1>1, <1>2, <2>1, <2>3, <2>4, <2>5, ForgetSteady, JobsSteady
  <2>6. CASE UNCHANGED <<connected, data, devices, dev, crashed>>
    <3>1. Steady
      BY <1>2, <2>1, <2>6 DEF Steady, TypeOK
    <3>2. QED
      BY <1>1, <2>3, <2>4, <3>1, JobsSteady
  <2>7. QED
    BY <2>2, <2>4, <2>5, <2>6
<1>5. QED
  BY <1>3, <1>4

(* setup_port enables the port: types and jobs are kept, and at most the *)
(* port's device is forgotten.                                           *)
LEMMA EnablePortStep ==
    ASSUME TypeOK, Jobs, NEW c \in Contexts, EnablePort(c)
    PROVE  /\ TypeOK' /\ Jobs' /\ Advances(c)
           /\ \A q \in Ports : port'[q].dev = port[q].dev /\ port'[q].csc = port[q].csc
           /\ UNCHANGED <<connected, data, devices, dev, crashed>> \/ Forget(Item(c).port)
<1> DEFINE p == Item(c).port
<1>1. /\ job[c] # <<>> /\ Item(c) \in Items /\ Item(c).op = "enable" /\ p \in Ports /\ Fits(c, Item(c))
  BY HeadFits, ItemTypes DEF EnablePort, At, Runs, Idle
<1>2. UNCHANGED <<rhsc, ed, running, halted, changes, errors, reports, count, next, drivers,
                  massstorage, gbuf, irqOn, ops, raced, missed>>
  BY DEF EnablePort
<1>3. CASE port[p].dev # None
  <2>1. /\ port' = [port EXCEPT ![p].pes = TRUE] /\ Then(c, <<Step("reset", None, p)>>)
        /\ UNCHANGED <<connected, data, devices, dev, crashed>>
    BY <1>3 DEF EnablePort
  <2> DEFINE o == port[p]
             q == [o EXCEPT !.pes = TRUE]
  <2>2. port' = [port EXCEPT ![p] = q]
    BY <2>1
  <2>3. o \in RootPorts
    BY <1>1 DEF TypeOK
  <2>4. q \in RootPorts /\ q.dev = port[p].dev /\ q.csc = port[p].csc
    <3>1. q \in RootPorts /\ q.dev = o.dev /\ q.csc = o.csc
      <4> HIDE DEF o
      <4>1. QED
        BY <2>3 DEF RootPorts
    <3>2. QED
      BY <3>1
  <2> HIDE DEF q
  <2>5. port' \in [Ports -> RootPorts] /\ \A r \in Ports : port'[r].dev = port[r].dev /\ port'[r].csc = port[r].csc
    BY <2>2, <2>4 DEF TypeOK
  <2> DEFINE x == Step("reset", None, p)
  <2>6. x \in Items /\ x.op = "reset"
    BY <1>1, StepTyped
  <2> HIDE DEF x
  <2>7. FitsNext(c, x)
    BY <1>1, <1>2, <2>6 DEF FitsNext, Fits, FitsAt
  <2>8. Advances(c)
    BY <1>1, <1>2, <2>1, <2>6, <2>7, AdvanceOne DEF BeforeList, x
  <2>9. job' \in [Contexts -> Seq(Items)]
    BY <1>1, <2>8, JobTyped DEF Advances
  <2>10. TypeOK'
    BY <1>2, <2>1, <2>5, <2>9 DEF TypeOK
  <2>11. Steady
    BY <1>2, <2>1, <2>5 DEF Steady, TypeOK
  <2>12. QED
    BY <1>1, <2>1, <2>5, <2>8, <2>10, <2>11, JobsSteady
<1>4. CASE port[p].dev = None
  <2>1. port' = port /\ Then(c, <<>>) /\ Forget(p)
    BY <1>4 DEF EnablePort
  <2> HIDE DEF p
  <2>3. Advances(c) /\ job' \in [Contexts -> Seq(Items)]
    BY <1>1, <2>1, DoneStep
  <2>4. TypeOK'
    BY <1>1, <1>2, <2>1, <2>3, ForgetStep DEF TypeOK
  <2>5. Steady /\ Jobs'
    BY <1>1, <1>2, <2>1, <2>3, <2>4, ForgetSteady, JobsSteady
  <2>6. QED
    BY <2>1, <2>3, <2>4, <2>5 DEF p
<1>5. QED
  BY <1>3, <1>4

-----------------------------------------------------------------------------
(* usb_add_device gives up: what is dropped of the job ends with the *)
(* listing.                                                          *)
LEMMA RestOfJob ==
    ASSUME TypeOK, Jobs, NEW c \in Contexts, job[c] # <<>>, Item(c).op = "check"
    PROVE  \E n \in 1 .. Len(job[c]) :
              /\ Rest(c) = SubSeq(job[c], n + 1, Len(job[c]))
              /\ \A i \in 1 .. n : job[c][i].op \in BeforeList \cup {"list"}
<1> DEFINE n == CHOOSE j \in 1 .. Len(job[c]) : job[c][j].op = "list"
<1>1. /\ Item(c) = job[c][1] /\ 1 \in 1 .. Len(job[c]) /\ Ordered(job[c])
      /\ Len(job[c]) \in Nat
  BY HeadTyped DEF Jobs
<1>2. \E j \in 1 .. Len(job[c]) : job[c][j].op = "list"
  <2>1. \E j \in 1 + 1 .. Len(job[c]) : job[c][j].op = "list"
    <3>1. job[c][1].op = "check"
      BY <1>1
    <3>2. QED
      BY <1>1, <3>1 DEF Ordered
  <2>2. \A j \in 1 + 1 .. Len(job[c]) : j \in 1 .. Len(job[c])
    BY <1>1
  <2>3. QED
    BY <2>1, <2>2
<1>3. n \in 1 .. Len(job[c]) /\ job[c][n].op = "list"
  BY <1>2
<1>4. Rest(c) = SubSeq(job[c], n + 1, Len(job[c]))
  BY DEF Rest
<1> HIDE DEF n
<1>5. \A i \in 1 .. n - 1 : job[c][i].op \in BeforeList
  BY <1>1, <1>3 DEF Ordered
<1>6. \A i \in 1 .. n : job[c][i].op \in BeforeList \cup {"list"}
  <2> SUFFICES ASSUME NEW i \in 1 .. n PROVE job[c][i].op \in BeforeList \cup {"list"}
    OBVIOUS
  <2>1. i = n \/ i \in 1 .. n - 1
    BY <1>3
  <2>2. QED
    BY <1>3, <1>5, <2>1
<1>7. QED
  BY <1>3, <1>4, <1>6

(* usb_get_desc_dev_simple, with its early return: types and jobs are *)
(* kept.                                                              *)
LEMMA CheckStep ==
    ASSUME TypeOK, Jobs, NEW c \in Contexts, Check(c)
    PROVE  TypeOK' /\ Jobs'
<1>1. /\ job[c] # <<>> /\ Item(c) \in Items /\ Item(c).op = "check" /\ Item(c).port \in Ports
  BY HeadFits, ItemTypes DEF Check, At, Runs, Idle
<1>2. UNCHANGED <<port, rhsc, ed, running, halted, changes, errors, reports, dev, count, devices, next, drivers,
                  data, massstorage, gbuf, irqOn, crashed, ops, raced, missed>>
  BY DEF Check, hc
<1>3. CASE gbuf # None
  <2>1. connected' = connected /\ Then(c, <<>>)
    BY <1>3 DEF Check
  <2>2. Advances(c) /\ job' \in [Contexts -> Seq(Items)]
    BY <1>1, <2>1, DoneStep
  <2>3. TypeOK'
    BY <1>2, <2>1, <2>2 DEF TypeOK
  <2>4. Steady
    BY <1>2 DEF Steady, TypeOK
  <2>5. QED
    BY <1>1, <2>2, <2>3, <2>4, JobsSteady
<1>4. CASE gbuf = None
  <2>1. connected' = [connected EXCEPT ![Item(c).port] = Bad] /\ job' = [job EXCEPT ![c] = Rest(c)]
    BY <1>4 DEF Check
  <2>2. PICK n \in 1 .. Len(job[c]) : Rest(c) = SubSeq(job[c], n + 1, Len(job[c]))
    BY <1>1, RestOfJob
  <2> DEFINE r == Rest(c)
  <2>3. job[c] \in Seq(Items) /\ Ordered(job[c]) /\ job \in [Contexts -> Seq(Items)] /\ Len(job[c]) \in Nat
    BY DEF TypeOK, Jobs
  <2>4. /\ r \in Seq(Items) /\ Len(r) = Len(job[c]) - n /\ Ordered(r)
        /\ \A i \in 1 .. Len(job[c]) - n : r[i] = job[c][i + n]
    BY <2>2, <2>3, OrderedSuffix
  <2> HIDE DEF r
  <2>5. job' \in [Contexts -> Seq(Items)] /\ job'[c] = r /\ \A e \in Contexts : e # c => job'[e] = job[e]
    BY <2>1, <2>3, <2>4 DEF r
  <2>6. TypeOK'
    BY <1>1, <1>2, <2>1, <2>5 DEF TypeOK
  <2>7. ASSUME NEW e \in Contexts, NEW i \in 1 .. Len(job[e]) PROVE FitsNext(e, job[e][i])
    <3>1. Fits(e, job[e][i]) /\ (job[e][i].op = "port" /\ e # "irq" =>
             (port'[job[e][i].port].dev # None => port'[job[e][i].port].csc))
      BY <1>2 DEF Jobs, Fits, FitsAt
    <3>2. QED
      BY <1>2, <3>1, FitsElse
  <2>8. \A i \in 1 .. Len(r) : FitsNext(c, r[i])
    <3> SUFFICES ASSUME NEW i \in 1 .. Len(r) PROVE FitsNext(c, r[i])
      OBVIOUS
    <3>1. i + n \in 1 .. Len(job[c]) /\ r[i] = job[c][i + n]
      BY <2>3, <2>4
    <3>2. QED
      BY <2>7, <3>1
  <2>9. \A e \in Contexts : Ordered(job'[e]) /\ \A i \in 1 .. Len(job'[e]) : FitsNext(e, job'[e][i])
    BY <2>4, <2>5, <2>7, <2>8 DEF Jobs
  <2>10. QED
    BY <2>6, <2>9 DEF Jobs, Fits, FitsNext
<1>5. QED
  BY <1>3, <1>4

(* list_add_tail: types and jobs are kept. *)
LEMMA ListDeviceStep ==
    ASSUME TypeOK, Jobs, NEW c \in Contexts, ListDevice(c)
    PROVE  TypeOK' /\ Jobs' /\ Advances(c)
<1> DEFINE d == Item(c).dev
           a == [i \in 1 .. drivers |-> [op |-> "probe", drv |-> Drivers[i]]]
           b == <<Step("connect", d, Item(c).port)>>
<1>1. /\ job[c] # <<>> /\ Item(c) \in Items /\ Item(c).op = "list" /\ Item(c).port \in Ports
      /\ d \in Devices /\ Fits(c, Item(c)) /\ Ordered(job[c]) /\ Item(c) = job[c][1]
  BY HeadFits, HeadTyped, ItemTypes DEF ListDevice, At, Runs, Idle
<1>2. UNCHANGED <<port, rhsc, ed, running, halted, changes, errors, reports, dev, count, connected, next, drivers,
                  data, massstorage, gbuf, irqOn, crashed, ops, raced, missed>>
  BY DEF ListDevice, hc
<1>3. devices' = Append(devices, d) /\ Then(c, a \o b)
  BY DEF ListDevice
<1>4. devices' \in Seq(Devices) /\ ToSet(devices') = ToSet(devices) \cup {d}
  <2>1. devices \in Seq(Devices)
    BY DEF TypeOK
  <2> HIDE DEF d
  <2>2. devices' \in Seq(Devices)
    BY <1>1, <1>3, <2>1
  <2>3. Len(devices') = Len(devices) + 1 /\ Len(devices) \in Nat /\ devices'[Len(devices) + 1] = d
    BY <1>1, <1>3, <2>1
  <2>4. \A i \in 1 .. Len(devices) : devices'[i] = devices[i]
    BY <1>1, <1>3, <2>1
  <2>5. \A i \in 1 .. Len(devices) + 1 : i = Len(devices) + 1 \/ i \in 1 .. Len(devices)
    BY <2>3
  <2>6. DOMAIN devices' = 1 .. Len(devices) + 1 /\ DOMAIN devices = 1 .. Len(devices)
    BY <2>1, <2>2, <2>3
  <2>7. QED
    BY <2>2, <2>3, <2>4, <2>5, <2>6 DEF ToSet
<1>5. drivers \in 0 .. 3
  BY DEF TypeOK
<1>6. /\ a \in Seq(Items) /\ Len(a) = drivers
      /\ \A i \in 1 .. drivers : a[i].op = "probe"
  <2>1. \A i \in 1 .. drivers : Drivers[i] \in {"hidkb", "storage", "hub"}
    BY <1>5 DEF Drivers
  <2>2. \A i \in 1 .. drivers : [op |-> "probe", drv |-> Drivers[i]] \in Items
    BY <2>1, SmallItems
  <2>3. QED
    BY <1>5, <2>2
<1>7. b \in Seq(Items) /\ b[1].op = "connect" /\ Len(b) = 1
  <2>1. Step("connect", d, Item(c).port) \in Items /\ Step("connect", d, Item(c).port).op = "connect"
    BY <1>1, StepTyped
  <2>2. QED
    BY <2>1, SeqOfOne
<1> DEFINE all == a \o b
<1> HIDE DEF a, b, d
<1>8. /\ all \in Seq(Items) /\ Len(all) = Len(a) + Len(b) /\ Len(a) \in Nat
      /\ \A i \in 1 .. Len(a) : all[i] = a[i]
      /\ \A i \in Len(a) + 1 .. Len(all) : all[i] = b[i - Len(a)]
  <2>1. a \in Seq(Items) /\ b \in Seq(Items)
    BY <1>6, <1>7
  <2>2. QED
    BY ONLY <2>1, Concat
<1> HIDE DEF all
<1>9. \A i \in 1 .. Len(all) : all[i].op \in {"probe", "connect"}
  <2> SUFFICES ASSUME NEW i \in 1 .. Len(all) PROVE all[i].op \in {"probe", "connect"}
    OBVIOUS
  <2>1. CASE i <= Len(a)
    BY <1>6, <1>8, <2>1
  <2>2. CASE i > Len(a)
    <3>1. i \in Len(a) + 1 .. Len(all) /\ i - Len(a) = 1
      BY <1>7, <1>8, <2>2
    <3>2. QED
      BY <1>7, <1>8, <3>1
  <2>3. QED
    BY <1>8, <2>1, <2>2
<1>10. Fresh(all, Item(c))
  BY <1>1, <1>9 DEF Fresh, Plain, BeforeList
<1>11. \A i \in 1 .. Len(all) : FitsNext(c, all[i])
  <2> SUFFICES ASSUME NEW i \in 1 .. Len(all) PROVE FitsNext(c, all[i])
    OBVIOUS
  <2>1. all[i].op \in {"probe", "connect"} /\ (c = "irq" => irqOn')
    BY <1>1, <1>2, <1>9 DEF Fits, FitsAt
  <2>2. all[i].op = "probe" => drivers' >= 1
    <3>1. CASE i <= Len(a)
      BY <1>2, <1>5, <1>6, <1>8, <3>1
    <3>2. CASE i > Len(a)
      <4>1. i \in Len(a) + 1 .. Len(all) /\ i - Len(a) = 1
        BY <1>7, <1>8, <3>2
      <4>2. QED
        BY <1>7, <1>8, <4>1
    <3>3. QED
      BY <1>8, <3>1, <3>2
  <2>3. QED
    BY <2>1, <2>2 DEF FitsNext, FitsAt
<1>12. Then(c, all)
  BY <1>3 DEF all
<1>13. Advances(c)
  BY <1>8, <1>10, <1>11, <1>12 DEF Advances
<1>14. job' \in [Contexts -> Seq(Items)]
  BY <1>1, <1>8, <1>12, JobTyped
<1>15. TypeOK'
  BY <1>2, <1>4, <1>14 DEF TypeOK
<1>16. ASSUME NEW e \in Contexts, NEW i \in 1 .. Len(job[e]), e = c => i # 1
       PROVE  FitsNext(e, job[e][i])
  <2>1. Fits(e, job[e][i])
    BY DEF Jobs
  <2>2. job[e][i].op # "list"
    <3>1. CASE e # c
      <4>1. Item(c).op \in {"port", "enable", "reset", "list", "enable irq"}
        BY <1>1
      <4>2. job[e][i].op \notin {"port", "enable", "reset", "list", "enable irq"}
        BY ONLY TypeOK, Jobs, c \in Contexts, e \in Contexts, i \in 1 .. Len(job[e]), <1>1, <3>1, <4>1, Alone
      <4>3. QED
        BY <4>2
    <3>2. CASE e = c
      <4>1. 1 \in 1 .. i - 1 /\ i \in 1 .. Len(job[c]) /\ job[c][1].op \notin BeforeList
        BY <1>1, <1>16, <3>2 DEF BeforeList
      <4>2. QED
        BY <1>1, <3>2, <4>1 DEF Ordered
    <3>3. QED
      BY <3>1, <3>2
  <2>3. QED
    BY <1>2, <2>1, <2>2 DEF Fits, FitsNext, FitsAt
<1>17. Jobs'
  BY <1>1, <1>13, <1>16, JobsAdvance
<1>18. QED
  BY <1>13, <1>15, <1>17

-----------------------------------------------------------------------------
(* The calls of usb_register_driver that are still to come are those of *)
(* the drivers that are not registered yet.                             *)
Registers ==
    \A i \in 1 .. Len(job["main"]) :
        job["main"][i].op = "register" => drivers + Len(job["main"]) - i < 3

(* Transfers and what was found may take the place of anything but an item *)
(* that stands before the listing of a device.                             *)
LEMMA AdvancePlain ==
    ASSUME TypeOK, Jobs, NEW c \in Contexts, job[c] # <<>>, irqOn' = irqOn,
           Item(c).op \notin BeforeList, NEW items \in Seq(Items), Then(c, items),
           \A i \in 1 .. Len(items) : items[i].op \in {"irp", "found"}
    PROVE  Advances(c)
<1>1. Fresh(items, Item(c))
  BY DEF Fresh, Plain, BeforeList
<1>2. c = "irq" => irqOn'
  BY HeadFits
<1>3. \A i \in 1 .. Len(items) : FitsNext(c, items[i])
  <2> SUFFICES ASSUME NEW i \in 1 .. Len(items) PROVE FitsNext(c, items[i])
    OBVIOUS
  <2>1. items[i] \in Items /\ items[i].op \in Plain
    BY DEF Plain, BeforeList
  <2>2. QED
    BY <1>2, <2>1, PlainFits
<1>4. QED
  BY <1>1, <1>3 DEF Advances

(* What a driver finds is a device of the list. *)
LEMMA FoundIn ==
    ASSUME TypeOK, NEW k
    PROVE  LET found == Filter(devices, {d \in Devices : dev[d].kind = k})
           IN  /\ found \in Seq(Devices) /\ Len(found) \in Nat
               /\ \A i \in 1 .. Len(found) : found[i] \in Devices /\ found[i] \in ToSet(devices)
               /\ found # <<>> => /\ Last(found) \in Devices /\ Last(found) \in ToSet(devices)
                                  /\ Head(found) \in Devices
<1> DEFINE S == ToSet(devices) \cap {d \in Devices : dev[d].kind = k}
           found == Filter(devices, {d \in Devices : dev[d].kind = k})
<1>1. found \in Seq(S)
  BY FilterKeeps DEF TypeOK
<1>2. S \subseteq Devices /\ S \subseteq ToSet(devices)
  OBVIOUS
<1> HIDE DEF S, found
<1>3. found \in Seq(Devices) /\ Len(found) \in Nat
  BY <1>1, <1>2
<1>4. \A i \in 1 .. Len(found) : found[i] \in S
  BY <1>1
<1>5. found # <<>> => Len(found) \in 1 .. Len(found) /\ 1 \in 1 .. Len(found) /\ Head(found) = found[1]
  BY <1>1
<1>6. QED
  BY <1>2, <1>3, <1>4, <1>5 DEF Last, found

(* A driver probes the list; the keyboard's takes a listed device, if *)
(* any.                                                               *)
LEMMA ProbeStep ==
    ASSUME TypeOK, Jobs, NEW c \in Contexts, Probe(c)
    PROVE  /\ TypeOK' /\ Jobs' /\ Advances(c)
           /\ data'["hidkb"] = data["hidkb"] \/ (data'["hidkb"] \in ToSet(devices) /\ drivers >= 1)
<1>1. /\ job[c] # <<>> /\ Item(c) \in Items /\ Item(c).op = "probe" /\ Item(c).op \notin BeforeList
      /\ Item(c).drv \in {"hidkb", "storage", "hub"} /\ Fits(c, Item(c))
  BY HeadFits, ItemTypes DEF Probe, At, Runs, Idle, BeforeList
<1>2. UNCHANGED <<port, rhsc, ed, running, halted, changes, errors, reports, dev, count, devices, connected, next,
                  drivers, massstorage, gbuf, irqOn, crashed, ops, raced, missed>>
  BY DEF Probe, hc
<1>3. data \in [{"hidkb", "storage", "hub"} -> Devices \cup {None}]
  BY DriversAre DEF TypeOK
<1> DEFINE Good == /\ data' \in [{"hidkb", "storage", "hub"} -> Devices \cup {None}]
                   /\ data'["hidkb"] = data["hidkb"] \/ (data'["hidkb"] \in ToSet(devices) /\ drivers >= 1)
                   /\ Advances(c) /\ job' \in [Contexts -> Seq(Items)]
<1>4. ASSUME Item(c).drv = "hidkb" PROVE Good
  <2> DEFINE found == Filter(devices, {d \in Devices : dev[d].kind = "keyboard"})
             items == [i \in 1 .. Len(found) |-> Control(found[i], "idle", "out", 0)]
  <2>1. /\ data' = IF found = <<>> THEN data ELSE [data EXCEPT !["hidkb"] = Last(found)]
        /\ Then(c, items)
    BY <1>4 DEF Probe, ProbeKeyboard
  <2>2. /\ found \in Seq(Devices) /\ Len(found) \in Nat
        /\ \A i \in 1 .. Len(found) : found[i] \in Devices
        /\ found # <<>> => Last(found) \in Devices /\ Last(found) \in ToSet(devices)
    BY FoundIn
  <2> HIDE DEF found
  <2>3. \A i \in 1 .. Len(found) : LET x == Control(found[i], "idle", "out", 0) IN x \in Items /\ x.op = "irp"
    BY <2>2, ControlTyped DEF Requests
  <2>4. items \in Seq(Items) /\ \A i \in 1 .. Len(items) : items[i].op \in {"irp", "found"}
    BY <2>2, <2>3
  <2> HIDE DEF items
  <2>5. Advances(c) /\ job' \in [Contexts -> Seq(Items)]
    BY <1>1, <1>2, <2>1, <2>4, AdvancePlain, JobTyped
  <2>6. drivers >= 1
    BY <1>1, <1>4 DEF Fits, FitsAt
  <2>7. QED
    BY <1>3, <2>1, <2>2, <2>5, <2>6
<1>5. ASSUME Item(c).drv = "storage" PROVE Good
  <2> DEFINE items == [k \in 1 .. 2 * Len(devices) |->
                  IF k % 2 = 1 THEN Control(devices[(k + 1) \div 2], "config", "in", 32)
                  ELSE [op |-> "found", dev |-> devices[k \div 2]]]
  <2>1. Then(c, items) /\ data' = data
    BY <1>1, <1>5 DEF Probe, ProbeStorage
  <2>2. Len(devices) \in Nat /\ \A i \in 1 .. Len(devices) : devices[i] \in Devices
    BY DEF TypeOK
  <2>3. 2 * Len(devices) \in Nat
    BY <2>2
  <2>4. ASSUME NEW k \in 1 .. 2 * Len(devices)
        PROVE  LET x == IF k % 2 = 1 THEN Control(devices[(k + 1) \div 2], "config", "in", 32)
                        ELSE [op |-> "found", dev |-> devices[k \div 2]]
               IN  x \in Items /\ x.op \in {"irp", "found"}
    <3>1. CASE k % 2 = 1
      <4>1. (k + 1) \div 2 \in 1 .. Len(devices)
        BY <2>2, <3>1
      <4>2. QED
        BY <2>2, <3>1, <4>1, ControlTyped DEF Requests
    <3>2. CASE k % 2 # 1
      <4>1. k \div 2 \in 1 .. Len(devices)
        BY <2>2, <3>2
      <4>2. QED
        BY <2>2, <3>2, <4>1, SmallItems
    <3>3. QED
      BY <3>1, <3>2
  <2>5. items \in Seq(Items) /\ \A i \in 1 .. Len(items) : items[i].op \in {"irp", "found"}
    <3>1. \A k \in 1 .. 2 * Len(devices) : items[k] \in Items /\ items[k].op \in {"irp", "found"}
      BY <2>4
    <3>2. items = [k \in 1 .. 2 * Len(devices) |-> items[k]]
      OBVIOUS
    <3> DEFINE n == 2 * Len(devices)
    <3> HIDE DEF items, n
    <3>3. n \in Nat
      BY <2>3 DEF n
    <3>4. items \in [1 .. n -> Items]
      BY <3>1, <3>2 DEF n
    <3>5. items \in Seq(Items) /\ Len(items) = n
      BY <3>3, <3>4
    <3>6. QED
      BY <3>1, <3>5 DEF n
  <2> HIDE DEF items
  <2>6. Advances(c) /\ job' \in [Contexts -> Seq(Items)]
    BY <1>1, <1>2, <2>1, <2>5, AdvancePlain, JobTyped
  <2>7. QED
    BY <1>3, <2>1, <2>6
<1>6. ASSUME Item(c).drv = "hub" PROVE Good
  <2> DEFINE found == Filter(devices, {d \in Devices : dev[d].kind = "hub"})
  <2>1. /\ data' = IF found = <<>> THEN data ELSE [data EXCEPT !["hub"] = Head(found)]
        /\ Then(c, <<>>)
    BY <1>1, <1>6 DEF Probe, ProbeHub
  <2>2. found # <<>> => Head(found) \in Devices
    BY FoundIn
  <2> HIDE DEF found
  <2>3. Advances(c) /\ job' \in [Contexts -> Seq(Items)]
    BY <1>1, <2>1, DoneStep
  <2>4. QED
    BY <1>3, <2>1, <2>2, <2>3
<1>7. Good
  BY <1>1, <1>4, <1>5, <1>6
<1>8. TypeOK'
  BY <1>2, <1>7, DriversAre DEF TypeOK
<1>9. Steady
  BY <1>2 DEF Steady, TypeOK
<1>10. QED
  BY <1>1, <1>7, <1>8, <1>9, JobsSteady

(* The transfers of the storage and keyboard drivers are items. *)
LEMMA CommandItems ==
    ASSUME NEW d \in Devices
    PROVE  /\ \A len \in {31} : BulkWrite(d, 2, len) \in Items /\ BulkWrite(d, 2, len).op = "irp"
           /\ \A len \in {36, 13, 8} : BulkRead(d, 1, len) \in Items /\ BulkRead(d, 1, len).op = "irp"
           /\ InterruptRead(d, 1, 8) \in Items /\ InterruptRead(d, 1, 8).op = "irp"
BY BulkTyped

(* usb_storage_probe tries the first disk. *)
LEMMA TryStep ==
    ASSUME TypeOK, Jobs, NEW c \in Contexts, Try(c)
    PROVE  TypeOK' /\ Jobs' /\ Advances(c)
<1> DEFINE d == massstorage[1]
           S == {x \in Items : x.op = "irp"}
<1>1. /\ job[c] # <<>> /\ Item(c) \in Items /\ Item(c).op = "try" /\ Item(c).op \notin BeforeList
      /\ Fits(c, Item(c))
  BY HeadFits DEF Try, At, Runs, Idle, BeforeList
<1>2. UNCHANGED <<port, rhsc, ed, running, halted, changes, errors, reports, dev, count, devices, connected, next,
                  drivers, data, massstorage, gbuf, irqOn, crashed, ops, raced, missed>>
  BY DEF Try, hc, core
<1>3. d \in Devices
  <2>1. massstorage # <<>> /\ massstorage \in Seq(Devices)
    BY <1>1 DEF Fits, FitsAt, TypeOK
  <2>2. QED
    BY <2>1
<1> HIDE DEF d
<1>4. /\ BulkWrite(d, 2, 31) \in S /\ BulkRead(d, 1, 36) \in S /\ BulkRead(d, 1, 13) \in S
      /\ BulkRead(d, 1, 8) \in S /\ Control(d, "reset", "out", 0) \in S
  BY <1>3, CommandItems, ControlTyped DEF Requests
<1>5. Inquiry \in Seq(S)
  BY <1>4 DEF Inquiry, d
<1>6. Capacity \in Seq(S)
  BY <1>4 DEF Capacity, d
<1> DEFINE items == Inquiry \o Capacity
<1>7. items \in Seq(S)
  BY <1>5, <1>6
<1>8. Then(c, items)
  BY DEF Try
<1> HIDE DEF items
<1>9. items \in Seq(Items) /\ \A i \in 1 .. Len(items) : items[i].op \in {"irp", "found"}
  BY <1>7
<1>10. Advances(c) /\ job' \in [Contexts -> Seq(Items)]
  BY <1>1, <1>2, <1>8, <1>9, AdvancePlain, JobTyped
<1>11. TypeOK'
  BY <1>2, <1>10 DEF TypeOK
<1>12. Steady
  BY <1>2 DEF Steady, TypeOK
<1>13. QED
  BY <1>1, <1>10, <1>11, <1>12, JobsSteady

(* usb_register_driver: the main program registers one more driver. *)
LEMMA RegisterStep ==
    ASSUME TypeOK, Jobs, Registers, NEW c \in Contexts, Register(c)
    PROVE  TypeOK' /\ Jobs' /\ Advances(c) /\ c = "main" /\ drivers' = drivers + 1
<1>1. /\ job[c] # <<>> /\ Item(c) \in Items /\ Item(c).op = "register" /\ Item(c) = job[c][1]
      /\ Fits(c, Item(c)) /\ Len(job[c]) >= 1 /\ Len(job[c]) \in Nat
  BY HeadFits, HeadTyped DEF Register, At, Runs, Idle
<1>2. UNCHANGED <<port, rhsc, ed, running, halted, changes, errors, reports, dev, count, devices, connected, next,
                  data, massstorage, gbuf, irqOn, crashed, ops, raced, missed>>
  BY DEF Register, hc
<1>3. c = "main"
  BY <1>1 DEF Fits, FitsAt, Contexts
<1>4. drivers \in 0 .. 2
  <2>1. drivers + Len(job[c]) - 1 < 3
    BY <1>1, <1>3 DEF Registers
  <2>2. QED
    BY <1>1, <2>1 DEF TypeOK
<1> DEFINE x == [op |-> "probe", drv |-> Drivers[drivers + 1]]
<1>5. drivers' = drivers + 1 /\ Then(c, <<x>>)
  BY DEF Register
<1>6. x \in Items /\ x.op = "probe"
  <2>1. Drivers[drivers + 1] \in {"hidkb", "storage", "hub"}
    BY <1>4 DEF Drivers
  <2>2. QED
    BY <2>1, SmallItems
<1> HIDE DEF x
<1>7. FitsNext(c, x)
  BY <1>3, <1>4, <1>5, <1>6 DEF FitsNext, FitsAt
<1>8. Advances(c)
  BY <1>1, <1>2, <1>5, <1>6, <1>7, AdvanceOne DEF BeforeList
<1>9. job' \in [Contexts -> Seq(Items)]
  BY <1>1, <1>8, JobTyped DEF Advances
<1>10. TypeOK'
  BY <1>2, <1>4, <1>5, <1>9 DEF TypeOK
<1>11. Steady
  BY <1>2, <1>4, <1>5 DEF Steady, TypeOK
<1>12. QED
  BY <1>1, <1>3, <1>5, <1>8, <1>10, <1>11, JobsSteady

(* hcdi_init unmasks the interrupt when its ports are done: nothing but *)
(* the registrations is left.                                           *)
LEMMA EnableStep ==
    ASSUME TypeOK, Jobs, NEW c \in Contexts, Enable(c)
    PROVE  TypeOK' /\ Jobs' /\ Advances(c) /\ c = "main" /\ ~irqOn /\ Idle("irq")
           /\ \A i \in 2 .. Len(job["main"]) : job["main"][i].op = "register"
<1>1. /\ job[c] # <<>> /\ Item(c) \in Items /\ Item(c).op = "enable irq" /\ Item(c) = job[c][1]
      /\ Fits(c, Item(c)) /\ Len(job[c]) >= 1 /\ Len(job[c]) \in Nat /\ Ordered(job[c]) /\ Then(c, <<>>)
  BY HeadFits, HeadTyped DEF Enable, At, Runs, Idle
<1>2. UNCHANGED <<port, rhsc, ed, running, halted, changes, errors, reports, dev, count, devices, connected, next,
                  drivers, data, massstorage, gbuf, crashed, ops, raced, missed>>
  BY DEF Enable, hc, core
<1>3. c = "main" /\ ~irqOn
  BY <1>1 DEF Fits, FitsAt, Contexts
<1>4. job["irq"] = <<>>
  <2>1. \A i \in 1 .. Len(job["irq"]) : FALSE
    BY <1>3 DEF Jobs, Fits, FitsAt, Contexts
  <2>2. job["irq"] \in Seq(Items)
    BY DEF TypeOK, Contexts
  <2>3. QED
    BY <2>1, <2>2
<1>5. Advances(c) /\ job' \in [Contexts -> Seq(Items)]
  BY <1>1, DoneStep
<1>6. irqOn' = TRUE
  BY DEF Enable
<1>7. TypeOK'
  BY <1>2, <1>5, <1>6 DEF TypeOK
<1>a. /\ Item("main") = job["main"][1] /\ Item("main").op = "enable irq"
      /\ Len(job["main"]) >= 1 /\ Len(job["main"]) \in Nat /\ Ordered(job["main"])
  <2>1. job["main"] # <<>> /\ Item("main").op = "enable irq" /\ Ordered(job["main"]) /\ "main" \in Contexts
    BY <1>1, <1>3
  <2>2. QED
    BY <2>1, HeadTyped
<1>b. Len(job["main"]) >= 1 /\ Len(job["main"]) \in Nat
  BY <1>a
<1>c. job["main"][1].op = "enable irq"
  BY <1>a
<1>8. \A i \in 2 .. Len(job["main"]) : job["main"][i].op = "register"
  <2>1. 1 \in 1 .. Len(job["main"])
    BY <1>b
  <2>2. \A i \in 1 + 1 .. Len(job["main"]) : job["main"][i].op = "register"
    BY <1>a, <1>c, <2>1 DEF Ordered
  <2>3. QED
    BY <2>2
<1>9. ASSUME NEW e \in Contexts, NEW i \in 1 .. Len(job[e]), e = c => i # 1
      PROVE  FitsNext(e, job[e][i])
  <2>1. e = "main"
    <3>1. e # "irq"
      BY <1>4
    <3>2. QED
      BY <3>1 DEF Contexts
  <2>a. i \in 2 .. Len(job["main"])
    <3>1. i \in 1 .. Len(job["main"]) /\ i # 1
      BY <1>3, <1>9, <2>1
    <3>2. QED
      BY <1>b, <3>1
  <2>2. job[e][i].op = "register"
    BY <1>8, <2>1, <2>a
  <2>3. QED
    BY <2>1, <2>2 DEF FitsNext, FitsAt
<1>10. Jobs'
  BY <1>1, <1>5, <1>9, JobsAdvance
<1>11. QED
  BY <1>3, <1>4, <1>5, <1>7, <1>8, <1>10 DEF Idle

-----------------------------------------------------------------------------
(* A step of the world that disturbs no item. *)
LEMMA JobsSame ==
    ASSUME TypeOK, TypeOK', Jobs, Steady, job' = job
    PROVE  Jobs'
<1> SUFFICES ASSUME NEW e \in Contexts
             PROVE  Ordered(job[e]) /\ \A i \in 1 .. Len(job[e]) : FitsNext(e, job[e][i])
  BY DEF Jobs, Fits, FitsNext
<1>1. ASSUME NEW i \in 1 .. Len(job[e]) PROVE FitsNext(e, job[e][i])
  <2>1. job[e][i] \in Items /\ Fits(e, job[e][i])
    BY DEF TypeOK, Jobs
  <2>2. QED
    BY <2>1, SteadyFits
<1>2. QED
  BY <1>1 DEF Jobs

(* A job that starts anew. *)
LEMMA JobsFresh ==
    ASSUME TypeOK, TypeOK', Jobs, Steady, NEW c \in Contexts, NEW items \in Seq(Items),
           job' = [job EXCEPT ![c] = items], Ordered(items),
           \A i \in 1 .. Len(items) : FitsNext(c, items[i])
    PROVE  Jobs'
<1>1. job'[c] = items /\ \A e \in Contexts : e # c => job'[e] = job[e]
  BY DEF TypeOK
<1> SUFFICES ASSUME NEW e \in Contexts
             PROVE  Ordered(job'[e]) /\ \A i \in 1 .. Len(job'[e]) : FitsNext(e, job'[e][i])
  BY DEF Jobs, Fits, FitsNext
<1>2. ASSUME NEW i \in 1 .. Len(job[e]) PROVE FitsNext(e, job[e][i])
  <2>1. job[e][i] \in Items /\ Fits(e, job[e][i])
    BY DEF TypeOK, Jobs
  <2>2. QED
    BY <2>1, SteadyFits
<1>3. CASE e = c
  BY <1>1, <1>3
<1>4. CASE e # c
  BY <1>1, <1>2, <1>4 DEF Jobs
<1>5. QED
  BY <1>3, <1>4

(* A call of a driver starts a job of one transfer, when nothing is *)
(* under way.                                                       *)
LEMMA CallStep ==
    ASSUME TypeOK, Jobs, NEW op, Call(op)
    PROVE  TypeOK' /\ Jobs' /\ Idle("main") /\ Idle("irq")
           /\ \E x \in Items : x.op = "irp" /\ job' = [job EXCEPT !["main"] = <<x>>]
<1>1. UNCHANGED <<port, rhsc, ed, running, halted, changes, errors, reports, dev, count, devices, connected, next,
                  drivers, data, massstorage, gbuf, irqOn, crashed, raced, missed>> /\ ops' = ops + 1
  BY DEF Call, hc, core
<1>2. \E x \in Items : x.op = "irp" /\ job' = [job EXCEPT !["main"] = <<x>>]
  <2>1. CASE data["hidkb"] # None /\ job' = [job EXCEPT !["main"] = GetChars]
    <3>1. data["hidkb"] \in Devices
      BY <2>1, DriversAre DEF TypeOK
    <3>2. QED
      BY <2>1, <3>1, CommandItems DEF GetChars
  <2>2. CASE massstorage # <<>> /\ job' = [job EXCEPT !["main"] = ReadSector]
    <3>1. massstorage[1] \in Devices
      BY <2>2 DEF TypeOK
    <3>2. QED
      BY <2>2, <3>1, CommandItems DEF ReadSector
  <2>3. QED
    BY <2>1, <2>2 DEF Call
<1>3. PICK x \in Items : x.op = "irp" /\ job' = [job EXCEPT !["main"] = <<x>>]
  BY <1>2
<1> DEFINE items == <<x>>
<1>4. items \in Seq(Items) /\ Len(items) = 1 /\ items[1] = x
  BY SeqOfOne
<1>5. job' = [job EXCEPT !["main"] = items]
  BY <1>3
<1> HIDE DEF items
<1>6. TypeOK'
  <2>1. job' \in [Contexts -> Seq(Items)]
    BY <1>4, <1>5 DEF TypeOK
  <2>2. QED
    BY <1>1, <2>1 DEF TypeOK
<1>7. Ordered(items)
  <2>1. \A i \in 1 .. Len(items) : i = 1 /\ items[i].op = "irp"
    BY <1>3, <1>4
  <2>2. QED
    BY <2>1 DEF Ordered
<1>8. \A i \in 1 .. Len(items) : FitsNext("main", items[i])
  <2>1. FitsNext("main", x)
    BY <1>3 DEF FitsNext, FitsAt
  <2>2. QED
    BY <1>4, <2>1
<1>9. Steady
  BY <1>1 DEF Steady, TypeOK
<1>10. Jobs'
  BY <1>4, <1>5, <1>6, <1>7, <1>8, <1>9, JobsFresh DEF Contexts
<1>11. QED
  BY <1>2, <1>6, <1>10 DEF Call

(* A sequence of two elements. *)
LEMMA SeqOfTwo ==
    ASSUME NEW S, NEW x \in S, NEW y \in S
    PROVE  <<x, y>> \in Seq(S) /\ Len(<<x, y>>) = 2 /\ <<x, y>>[1] = x /\ <<x, y>>[2] = y
OBVIOUS

(* The job of the handler: both ports, and the acknowledgement. *)
LEMMA HandlerJob ==
    LET items == ConfigurePorts(FALSE) \o <<[op |-> "ack"]>>
    IN  /\ items \in Seq(Items) /\ Len(items) = 3
        /\ items[1] = [op |-> "port", init |-> FALSE, port |-> 1]
        /\ items[2] = [op |-> "port", init |-> FALSE, port |-> 2]
        /\ items[3] = [op |-> "ack"]
<1> DEFINE x == [op |-> "port", init |-> FALSE, port |-> 1]
           y == [op |-> "port", init |-> FALSE, port |-> 2]
           z == [op |-> "ack"]
           a == ConfigurePorts(FALSE)
           b == <<z>>
           r == a \o b
<1>1. x \in Items /\ y \in Items /\ z \in Items
  BY SmallItems DEF Ports
<1>2. a = <<x, y>>
  BY DEF ConfigurePorts
<1> HIDE DEF x, y, z
<1>3. b \in Seq(Items) /\ Len(b) = 1 /\ b[1] = z
  BY <1>1, SeqOfOne
<1>4. a \in Seq(Items) /\ Len(a) = 2 /\ a[1] = x /\ a[2] = y
  <2> HIDE DEF a
  <2>1. <<x, y>> \in Seq(Items) /\ Len(<<x, y>>) = 2 /\ <<x, y>>[1] = x /\ <<x, y>>[2] = y
    BY ONLY <1>1, SeqOfTwo
  <2>2. QED
    BY <1>2, <2>1
<1> HIDE DEF a, b
<1>5. /\ r \in Seq(Items) /\ Len(r) = Len(a) + Len(b)
      /\ \A i \in 1 .. Len(a) : r[i] = a[i]
      /\ \A i \in Len(a) + 1 .. Len(r) : r[i] = b[i - Len(a)]
  <2>1. a \in Seq(Items) /\ b \in Seq(Items)
    BY <1>3, <1>4
  <2>2. QED
    BY ONLY <2>1, Concat
<1> HIDE DEF r
<1>6. Len(r) = 3
  BY <1>3, <1>4, <1>5
<1>7. r[1] = x /\ r[2] = y
  BY <1>4, <1>5
<1>8. r[3] = z
  BY <1>3, <1>4, <1>5, <1>6
<1>9. QED
  BY <1>5, <1>6, <1>7, <1>8 DEF x, y, z, r, a, b

(* The interrupt comes: the handler's job is both ports and the *)
(* acknowledgement.                                             *)
LEMMA HcdiIrqStep ==
    ASSUME TypeOK, Jobs, HcdiIrq
    PROVE  TypeOK' /\ Jobs'
           /\ job' = [job EXCEPT !["irq"] = ConfigurePorts(FALSE) \o <<[op |-> "ack"]>>]
<1>1. UNCHANGED <<port, rhsc, ed, running, halted, changes, errors, reports, dev, count, devices, connected, next,
                  drivers, data, massstorage, gbuf, irqOn, crashed, ops>> /\ irqOn /\ missed' = {}
  BY DEF HcdiIrq, hc, core
<1> DEFINE items == ConfigurePorts(FALSE) \o <<[op |-> "ack"]>>
<1>2. job' = [job EXCEPT !["irq"] = items] /\ raced' \in BOOLEAN
  BY DEF HcdiIrq
<1>3. /\ items \in Seq(Items) /\ Len(items) = 3
      /\ items[1].op = "port" /\ items[1].port = 1 /\ ~items[1].init
      /\ items[2].op = "port" /\ items[2].port = 2 /\ ~items[2].init
      /\ items[3].op = "ack"
  <2> DEFINE x == [op |-> "port", init |-> FALSE, port |-> 1]
             y == [op |-> "port", init |-> FALSE, port |-> 2]
             z == [op |-> "ack"]
  <2>1. items \in Seq(Items) /\ Len(items) = 3 /\ items[1] = x /\ items[2] = y /\ items[3] = z
    BY HandlerJob
  <2>2. x.op = "port" /\ x.port = 1 /\ ~x.init /\ y.op = "port" /\ y.port = 2 /\ ~y.init /\ z.op = "ack"
    OBVIOUS
  <2> HIDE DEF items, x, y, z
  <2>3. QED
    BY <2>1, <2>2
<1> HIDE DEF items
<1>4. \A i \in 1 .. Len(items) : i = 1 \/ i = 2 \/ i = 3
  BY <1>3
<1>5. TypeOK'
  <2>1. job' \in [Contexts -> Seq(Items)]
    BY <1>2, <1>3 DEF TypeOK
  <2>2. QED
    BY <1>1, <1>2, <2>1 DEF TypeOK
<1>6. Ordered(items)
  <2> SUFFICES ASSUME NEW i \in 1 .. Len(items)
             PROVE /\ items[i].op \in {"port", "ack"}
                   /\ items[i].op = "ack" => i = Len(items)
                   /\ items[i].op = "port" =>
                         \A j \in i + 1 .. Len(items) : items[j].op = "port" => items[j].port # items[i].port
    BY DEF Ordered
  <2>1. CASE i = 1
    <3>1. \A j \in i + 1 .. Len(items) : j = 2 \/ j = 3
      BY <1>3, <2>1
    <3>2. QED
      BY <1>3, <2>1, <3>1
  <2>2. CASE i = 2
    <3>1. \A j \in i + 1 .. Len(items) : j = 3
      BY <1>3, <2>2
    <3>2. QED
      BY <1>3, <2>2, <3>1
  <2>3. CASE i = 3
    BY <1>3, <2>3
  <2>4. QED
    BY <1>4, <2>1, <2>2, <2>3
<1>7. \A i \in 1 .. Len(items) : FitsNext("irq", items[i])
  <2>1. \A i \in 1 .. Len(items) : items[i].op \in {"port", "ack"} /\ (items[i].op = "port" => ~items[i].init)
    BY <1>3, <1>4
  <2>2. QED
    BY <1>1, <2>1 DEF FitsNext, FitsAt
<1>8. Steady
  BY <1>1 DEF Steady, TypeOK
<1>9. Jobs'
  BY <1>2, <1>3, <1>5, <1>6, <1>7, <1>8, JobsFresh DEF Contexts
<1>10. QED
  BY <1>2, <1>5, <1>9 DEF items

-----------------------------------------------------------------------------
(* A set of numbers up to n has a greatest one. *)
LEMMA Greatest ==
    ASSUME NEW n \in Nat, NEW S, S \subseteq 1 .. n, S # {}
    PROVE  \E i \in S : \A j \in S : j <= i
<1> DEFINE T == {n - i : i \in S}
<1>1. T \subseteq Nat /\ T # {}
  <2>1. \A i \in S : n - i \in Nat
    OBVIOUS
  <2>2. QED
    BY <2>1
<1>2. PICK m \in T : \A k \in T : m <= k
  <2> HIDE DEF T
  <2>1. QED
    BY <1>1, LeastNat
<1>3. PICK i \in S : m = n - i
  BY <1>2
<1>4. ASSUME NEW j \in S PROVE j <= i
  <2>1. n - j \in T
    OBVIOUS
  <2>2. n - i <= n - j
    BY <1>2, <1>3, <2>1
  <2>3. QED
    BY <2>2
<1>5. QED
  BY <1>4

(* A device that obeys control requests keeps its place on its port. *)
LEMMA ControlledTyped ==
    ASSUME NEW q \in RootPorts, NEW tds \in Seq(Tds)
    PROVE  /\ Controlled(q, tds) \in RootPorts
           /\ Controlled(q, tds).dev = q.dev /\ Controlled(q, tds).csc = q.csc /\ Controlled(q, tds).pes = q.pes
<1> DEFINE told(req) == {i \in DOMAIN tds : tds[i].type = "control" /\ tds[i].len = 0 /\ tds[i].req = req}
           n == Len(tds)
           A == told("address")
           last == CHOOSE i \in A : \A j \in A : j <= i
           a == IF A = {} THEN q.addr ELSE tds[last].arg
           f == IF told("reset") = {} THEN q.phase ELSE "command"
<1>1. n \in Nat /\ DOMAIN tds = 1 .. n /\ A \subseteq 1 .. n
  OBVIOUS
<1>2. a \in Addresses
  <2>1. CASE A = {}
    BY <2>1 DEF RootPorts
  <2>2. CASE A # {}
    <3> HIDE DEF A, n
    <3>1. last \in A
      BY <1>1, <2>2, Greatest
    <3> HIDE DEF last
    <3>2. tds[last] \in Tds
      BY <1>1, <3>1 DEF n
    <3>3. QED
      BY <2>2, <3>2 DEF Tds
  <2>3. QED
    BY <2>1, <2>2
<1>3. f \in {"command", "data", "status", "confused"}
  BY DEF RootPorts
<1> DEFINE r == [q EXCEPT !.addr = a, !.phase = f]
<1>4. Controlled(q, tds) = r
  BY DEF Controlled, RootPorts
<1> HIDE DEF a, f
<1>5. r \in RootPorts /\ r.dev = q.dev /\ r.csc = q.csc /\ r.pes = q.pes
  BY <1>2, <1>3 DEF RootPorts
<1>6. QED
  BY <1>4, <1>5

(* A disk that receives a packet keeps its place and address. *)
LEMMA WrittenTyped ==
    ASSUME NEW q \in RootPorts, NEW td \in Tds
    PROVE  /\ Written(q, td) \in RootPorts
           /\ Written(q, td).dev = q.dev /\ Written(q, td).csc = q.csc /\ Written(q, td).pes = q.pes
           /\ Written(q, td).addr = q.addr
<1> DEFINE r == [q EXCEPT !.out = 1 - @, !.phase = IF @ = "command" THEN "data" ELSE "confused"]
<1>1. 1 - q.out \in {0, 1}
  BY DEF RootPorts
<1>2. r \in RootPorts /\ r.dev = q.dev /\ r.csc = q.csc /\ r.pes = q.pes /\ r.addr = q.addr
  BY <1>1 DEF RootPorts
<1>3. Written(q, td) = q \/ Written(q, td) = r
  BY DEF Written
<1> HIDE DEF r
<1>4. QED
  BY <1>2, <1>3

(* A device that sends a packet keeps its place and address. *)
LEMMA SentTyped ==
    ASSUME NEW q \in RootPorts
    PROVE  /\ Sent(q) \in RootPorts
           /\ Sent(q).dev = q.dev /\ Sent(q).csc = q.csc /\ Sent(q).pes = q.pes /\ Sent(q).addr = q.addr
<1> DEFINE f == IF q.dev = "disk" THEN NextPhase(q.phase) ELSE q.phase
           r == [q EXCEPT !.in = 1 - @, !.report = FALSE, !.phase = f]
<1>1. 1 - q.in \in {0, 1}
  BY DEF RootPorts
<1>2. f \in {"command", "data", "status", "confused"}
  BY DEF RootPorts, NextPhase
<1>3. Sent(q) = r
  BY DEF Sent, RootPorts
<1> HIDE DEF f
<1>4. r \in RootPorts /\ r.dev = q.dev /\ r.csc = q.csc /\ r.pes = q.pes /\ r.addr = q.addr
  BY <1>1, <1>2 DEF RootPorts
<1>5. QED
  BY <1>3, <1>4

(* The controller retires a TD: the descriptor keeps its address, and no *)
(* port changes.                                                         *)
LEMMA ExecutesStep ==
    ASSUME TypeOK, Jobs, Executes
    PROVE  /\ TypeOK' /\ Jobs' /\ job' = job
           /\ ed # None /\ ed.tds # <<>> /\ ed'.addr = ed.addr /\ ed'.ep = ed.ep
           /\ ed'.tds \in {ed.tds, Tail(ed.tds), <<>>}
           /\ \A p \in Ports : port'[p].dev = port[p].dev /\ port'[p].csc = port[p].csc
<1>1. UNCHANGED <<rhsc, running, halted, changes, errors, reports, dev, count, devices, connected, next,
                  drivers, data, massstorage, job, irqOn, crashed, ops, raced, missed>>
  BY DEF Executes, core
<1>2. ed \in Endpoints /\ ed.tds # <<>> /\ Answering # {} /\ ed.tds \in Seq(Tds) /\ ed # None
  BY DEF Executes, TypeOK, Endpoints
<1> DEFINE p == CHOOSE q \in Answering : TRUE
           td == Head(ed.tds)
<1>3. p \in Ports /\ td \in Tds /\ Tail(ed.tds) \in Seq(Tds)
  BY <1>2 DEF Answering
<1>4. port \in [Ports -> RootPorts] /\ port[p] \in RootPorts /\ gbuf \in Ports \cup {None}
  BY <1>3 DEF TypeOK
<1> DEFINE Good == /\ port' \in [Ports -> RootPorts] /\ ed' \in Endpoints /\ gbuf' \in Ports \cup {None}
                   /\ \A q \in Ports : port'[q].dev = port[q].dev /\ port'[q].csc = port[q].csc
                   /\ ed'.addr = ed.addr /\ ed'.ep = ed.ep /\ ed'.tds \in {ed.tds, Tail(ed.tds), <<>>}
<1>5. \A s \in Seq(Tds) :
         LET e == [ed EXCEPT !.tds = s] IN e \in Endpoints /\ e.addr = ed.addr /\ e.ep = ed.ep /\ e.tds = s
  BY <1>2 DEF Endpoints
<1> DEFINE Moved(s) == ed'.addr = ed.addr /\ ed'.ep = ed.ep /\ ed'.tds = s /\ ed' \in Endpoints
<1>a. ed' = [ed EXCEPT !.tds = <<>>] => Moved(<<>>)
  <2>1. <<>> \in Seq(Tds)
    OBVIOUS
  <2>2. QED
    BY <1>5, <2>1
<1>b. ed' = [ed EXCEPT !.tds = Tail(@)] => Moved(Tail(ed.tds))
  <2> DEFINE s == Tail(ed.tds)
  <2>1. s \in Seq(Tds) /\ [ed EXCEPT !.tds = Tail(@)] = [ed EXCEPT !.tds = s]
    BY <1>3
  <2> HIDE DEF s
  <2>2. QED
    BY <1>5, <2>1 DEF s
<1>6. ASSUME /\ ed' = [ed EXCEPT !.tds = <<>>]
             /\ port' = [q \in Ports |-> IF q \in Answering THEN Controlled(port[q], ed.tds) ELSE port[q]]
             /\ gbuf' \in {p, gbuf}
      PROVE  Good
  <2> HIDE DEF p, td
  <2>1. \A q \in Ports : /\ port'[q] \in RootPorts
                         /\ port'[q].dev = port[q].dev /\ port'[q].csc = port[q].csc
    BY <1>2, <1>4, <1>6, ControlledTyped
  <2>2. port' = [q \in Ports |-> port'[q]]
    BY <1>6
  <2>3. port' \in [Ports -> RootPorts]
    BY <2>1, <2>2
  <2>4. QED
    BY <1>3, <1>4, <1>a, <1>6, <2>1, <2>3
<1>7. ASSUME NEW r \in RootPorts, r.dev = port[p].dev, r.csc = port[p].csc, port' = [port EXCEPT ![p] = r],
             ed' = [ed EXCEPT !.tds = Tail(@)] \/ ed' = ed, gbuf' = gbuf
      PROVE  Good
  <2> HIDE DEF p, td
  <2>1. /\ port' \in [Ports -> RootPorts]
        /\ \A q \in Ports : port'[q].dev = port[q].dev /\ port'[q].csc = port[q].csc
    BY <1>3, <1>4, <1>7
  <2>2. ed' \in Endpoints /\ ed'.addr = ed.addr /\ ed'.ep = ed.ep /\ ed'.tds \in {ed.tds, Tail(ed.tds), <<>>}
    BY <1>2, <1>b, <1>7
  <2>3. QED
    BY <1>4, <1>7, <2>1, <2>2
<1>8. Good
  <2>1. CASE port' = [port EXCEPT ![p] = Written(@, td)] /\ ed' = [ed EXCEPT !.tds = Tail(@)] /\ gbuf' = gbuf
    <3> HIDE DEF p, td
    <3>1. /\ Written(port[p], td) \in RootPorts
          /\ Written(port[p], td).dev = port[p].dev /\ Written(port[p], td).csc = port[p].csc
      BY <1>3, <1>4, WrittenTyped
    <3>2. QED
      BY <1>7, <2>1, <3>1
  <2>2. CASE /\ port' = [port EXCEPT ![p] = Sent(@)] /\ gbuf' = gbuf
             /\ ed' = [ed EXCEPT !.tds = Tail(@)] \/ ed' = ed
    <3> HIDE DEF p, td
    <3>1. /\ Sent(port[p]) \in RootPorts
          /\ Sent(port[p]).dev = port[p].dev /\ Sent(port[p]).csc = port[p].csc
      BY <1>3, <1>4, SentTyped
    <3>2. QED
      BY <1>7, <2>2, <3>1
  <2>3. CASE /\ ed' = [ed EXCEPT !.tds = <<>>]
             /\ port' = [q \in Ports |-> IF q \in Answering THEN Controlled(port[q], ed.tds) ELSE port[q]]
             /\ gbuf' \in {p, gbuf}
    BY <1>6, <2>3
  <2>4. QED
    <3> HIDE DEF Good
    <3>1. QED
      BY <2>1, <2>2, <2>3 DEF Executes
<1> HIDE DEF p, td
<1>9. TypeOK'
  BY <1>1, <1>8 DEF TypeOK
<1>10. Steady
  BY <1>1, <1>8 DEF Steady, TypeOK
<1>11. Jobs'
  BY <1>1, <1>9, <1>10, JobsSame
<1>12. QED
  BY <1>1, <1>2, <1>8, <1>9, <1>11

-----------------------------------------------------------------------------
(* A job q has still to look at port p. *)
Awaits(q, p) == \E i \in 1 .. Len(q) : q[i].op = "port" /\ q[i].port = p

(* How a context's step changes its job q into r, which is all that the    *)
(* invariants below depend on.                                             *)
Follows(r, q) ==
    /\ r # <<>> /\ r[1].op \in {"queue", "poll"} => q[1].op \in {"irp", "queue"}
    /\ r # <<>> /\ r[1].op \in {"enable", "reset"} => q[1].op \in {"port", "enable"}
    /\ \A p \in Ports : Awaits(q, p) /\ ~(q[1].op = "port" /\ q[1].port = p) => Awaits(r, p)
    /\ \A i \in 1 .. Len(r) : r[i].op = "register" =>
          \E k \in 2 .. Len(q) : q[k].op = "register" /\ Len(r) - i = Len(q) - k

(* Every action that moves a job on. *)
LEMMA AdvanceFollows ==
    ASSUME TypeOK, Jobs, NEW c \in Contexts, job[c] # <<>>, Advances(c)
    PROVE  Follows(job'[c], job[c]) /\ \A e \in Contexts : e # c => job'[e] = job[e]
<1>1. PICK items \in Seq(Items) : Then(c, items) /\ Fresh(items, Item(c))
  BY DEF Advances
<1>2. job'[c] = items \o Tail(job[c]) /\ \A e \in Contexts : e # c => job'[e] = job[e]
  BY <1>1, JobTyped
<1> DEFINE q == job[c]
           r == job'[c]
           n == Len(items)
<1>3. q \in Seq(Items) /\ q # <<>> /\ Item(c) = q[1] /\ Ordered(q) /\ r = items \o Tail(q)
  BY <1>2, HeadTyped DEF Jobs
<1> HIDE DEF q, r
<1>4. /\ r \in Seq(Items) /\ Len(r) = n + Len(q) - 1 /\ n \in Nat /\ Len(q) \in Nat /\ Len(q) >= 1
      /\ \A i \in 1 .. n : r[i] = items[i]
      /\ \A i \in n + 1 .. Len(r) : r[i] = q[i - n + 1] /\ i - n + 1 \in 2 .. Len(q)
  BY <1>3, Spliced
<1> HIDE DEF n
<1>5. \A i \in 1 .. n : /\ items[i].op \notin {"register", "port"}
                        /\ items[i].op \in {"queue", "poll"} => q[1].op \in {"irp", "queue"}
                        /\ items[i].op \in {"enable", "reset"} => q[1].op \in {"port", "enable"}
  BY <1>1, <1>3 DEF Fresh, Plain, BeforeList, n
<1>6. \A k \in 2 .. Len(q) : q[k].op \notin {"queue", "poll", "enable", "reset"}
  <2>1. \A k \in 2 .. Len(q) : k \in 1 .. Len(q) /\ k # 1
    BY <1>4
  <2>2. \A k \in 1 .. Len(q) : q[k].op \in {"queue", "poll", "enable", "reset"} => k = 1
    BY <1>3 DEF Ordered
  <2>3. QED
    BY <2>1, <2>2
<1>7. /\ r # <<>> /\ r[1].op \in {"queue", "poll"} => q[1].op \in {"irp", "queue"}
      /\ r # <<>> /\ r[1].op \in {"enable", "reset"} => q[1].op \in {"port", "enable"}
  <2>1. r # <<>> => 1 \in 1 .. Len(r)
    BY <1>4
  <2>2. r # <<>> => 1 \in 1 .. n \/ 1 \in n + 1 .. Len(r)
    BY <1>4, <2>1
  <2>3. QED
    BY <1>4, <1>5, <1>6, <2>2
<1>8. ASSUME NEW p \in Ports, Awaits(q, p), ~(q[1].op = "port" /\ q[1].port = p) PROVE Awaits(r, p)
  <2>1. PICK k \in 1 .. Len(q) : q[k].op = "port" /\ q[k].port = p
    BY <1>8 DEF Awaits
  <2>2. k # 1
    BY <1>8, <2>1
  <2>3. k + n - 1 \in n + 1 .. Len(r) /\ k + n - 1 \in 1 .. Len(r) /\ (k + n - 1) - n + 1 = k
    BY <1>4, <2>2
  <2>4. r[k + n - 1] = q[k]
    BY <1>4, <2>3
  <2>5. QED
    BY <2>1, <2>3, <2>4 DEF Awaits
<1>9. ASSUME NEW i \in 1 .. Len(r), r[i].op = "register"
      PROVE  \E k \in 2 .. Len(q) : q[k].op = "register" /\ Len(r) - i = Len(q) - k
  <2>1. i \notin 1 .. n
    BY <1>4, <1>5, <1>9
  <2>2. i \in n + 1 .. Len(r)
    BY <1>4, <2>1
  <2>3. i - n + 1 \in 2 .. Len(q) /\ r[i] = q[i - n + 1]
    BY <1>4, <2>2
  <2>4. Len(r) - i = Len(q) - (i - n + 1)
    BY <1>4
  <2>5. QED
    BY <1>9, <2>3, <2>4
<1>10. QED
  BY <1>2, <1>7, <1>8, <1>9 DEF Follows, q, r

(* The early return of usb_add_device too. *)
LEMMA CheckFollows ==
    ASSUME TypeOK, Jobs, NEW c \in Contexts, Check(c)
    PROVE  Follows(job'[c], job[c]) /\ \A e \in Contexts : e # c => job'[e] = job[e]
<1>1. job[c] # <<>> /\ Item(c).op = "check"
  BY DEF Check, At, Runs, Idle
<1>2. CASE gbuf # None
  <2>1. Advances(c)
    BY <1>1, <1>2, DoneStep DEF Check
  <2>2. QED
    BY <1>1, <2>1, AdvanceFollows
<1>3. CASE gbuf = None
  <2> DEFINE q == job[c]
             r == Rest(c)
  <2>1. job' = [job EXCEPT ![c] = r]
    BY <1>3 DEF Check
  <2>2. PICK n \in 1 .. Len(q) : /\ r = SubSeq(q, n + 1, Len(q))
                                 /\ \A i \in 1 .. n : q[i].op \in BeforeList \cup {"list"}
    BY <1>1, RestOfJob
  <2>3. q \in Seq(Items) /\ Ordered(q) /\ job \in [Contexts -> Seq(Items)] /\ Len(q) \in Nat
    BY DEF TypeOK, Jobs
  <2>4. job'[c] = r /\ \A e \in Contexts : e # c => job'[e] = job[e]
    <3> HIDE DEF r
    <3>1. QED
      BY <2>1, <2>3
  <2> HIDE DEF q, r
  <2>5. /\ r \in Seq(Items) /\ Len(r) = Len(q) - n
        /\ \A i \in 1 .. Len(q) - n : r[i] = q[i + n]
    BY <2>2, <2>3, OrderedSuffix
  <2>6. /\ r # <<>> => r[1].op \notin {"queue", "poll", "enable", "reset"}
    <3>1. ASSUME r # <<>> PROVE r[1] = q[1 + n] /\ 1 + n \in 1 .. Len(q) /\ 1 + n # 1
      BY <2>3, <2>5, <3>1
    <3>2. QED
      BY <2>3, <3>1 DEF Ordered
  <2>7. ASSUME NEW p \in Ports, Awaits(q, p) PROVE Awaits(r, p)
    <3>1. PICK k \in 1 .. Len(q) : q[k].op = "port" /\ q[k].port = p
      BY <2>7 DEF Awaits
    <3>2. k \notin 1 .. n
      BY <2>2, <3>1 DEF BeforeList
    <3>3. k - n \in 1 .. Len(q) - n /\ (k - n) + n = k
      BY <2>3, <3>2
    <3>4. r[k - n] = q[k]
      BY <2>5, <3>3
    <3>5. QED
      BY <2>5, <3>1, <3>3, <3>4 DEF Awaits
  <2>8. ASSUME NEW i \in 1 .. Len(r), r[i].op = "register"
        PROVE  \E k \in 2 .. Len(q) : q[k].op = "register" /\ Len(r) - i = Len(q) - k
    <3>1. i + n \in 2 .. Len(q) /\ r[i] = q[i + n] /\ Len(r) - i = Len(q) - (i + n)
      BY <2>3, <2>5
    <3>2. QED
      BY <2>8, <3>1
  <2>9. QED
    BY <2>4, <2>6, <2>7, <2>8 DEF Follows, q
<1>4. QED
  BY <1>2, <1>3

(* The controller halts the endpoint: types and jobs are kept. *)
LEMMA HaltsStep ==
    ASSUME TypeOK, Jobs, Halts
    PROVE  TypeOK' /\ Jobs'
<1>1. UNCHANGED <<port, rhsc, ed, running, changes, reports, dev, count, devices, connected, next,
                  drivers, data, massstorage, gbuf, job, irqOn, crashed, ops, raced, missed>>
  BY DEF Halts, core
<1>2. halted' \in BOOLEAN /\ errors' \in Nat
  BY DEF Halts, TypeOK
<1>3. TypeOK'
  BY <1>1, <1>2 DEF TypeOK
<1>4. Steady
  BY <1>1 DEF Steady, TypeOK
<1>5. QED
  BY <1>1, <1>3, <1>4, JobsSame

(* A device is plugged in: the port has changed. *)
LEMMA PlugStep ==
    ASSUME TypeOK, Jobs, NEW p \in Ports, NEW k \in Kinds, Plug(p, k)
    PROVE  /\ TypeOK' /\ Jobs' /\ port[p].dev = None
           /\ port'[p].csc /\ \A q \in Ports : q # p => port'[q] = port[q]
<1> DEFINE new == [dev |-> k, csc |-> TRUE, pes |-> FALSE, addr |-> 0,
                   out |-> 0, in |-> 0, phase |-> "command", report |-> FALSE]
<1>1. UNCHANGED <<ed, running, halted, errors, reports, dev, count, devices, connected, next,
                  drivers, data, massstorage, gbuf, job, irqOn, crashed, ops, raced>>
      /\ rhsc' = TRUE /\ changes' = changes + 1 /\ port' = [port EXCEPT ![p] = new]
  BY DEF Plug, core
<1>2. new \in RootPorts /\ new.csc
  BY UsbAssumption DEF RootPorts, Addresses
<1> HIDE DEF new
<1>3. port' \in [Ports -> RootPorts] /\ port'[p].csc /\ \A q \in Ports : q # p => port'[q] = port[q]
  BY <1>1, <1>2 DEF TypeOK
<1>4. missed' \subseteq Ports
  BY DEF Plug, Changed, TypeOK
<1>5. TypeOK'
  BY <1>1, <1>3, <1>4 DEF TypeOK
<1>6. Steady
  BY <1>1, <1>3 DEF Steady, TypeOK
<1>7. QED
  BY <1>1, <1>3, <1>5, <1>6, JobsSame DEF Plug

(* A device is pulled. *)
LEMMA UnplugStep ==
    ASSUME TypeOK, Jobs, NEW p \in Ports, Unplug(p)
    PROVE  /\ TypeOK' /\ Jobs'
           /\ port'[p].dev = None /\ \A q \in Ports : q # p => port'[q] = port[q]
<1> DEFINE o == port[p]
           new == [o EXCEPT !.dev = None, !.csc = TRUE, !.pes = FALSE]
<1>1. UNCHANGED <<ed, running, halted, errors, reports, dev, count, devices, connected, next,
                  drivers, data, massstorage, gbuf, job, irqOn, crashed, ops, raced>>
      /\ rhsc' = TRUE /\ changes' = changes + 1
      /\ port' = [port EXCEPT ![p].dev = None, ![p].csc = TRUE, ![p].pes = FALSE]
  BY DEF Unplug, core
<1>2. port' = [port EXCEPT ![p] = new]
  BY <1>1 DEF TypeOK, RootPorts
<1>3. o \in RootPorts
  BY DEF TypeOK
<1>4. new \in RootPorts /\ new.dev = None
  <2> HIDE DEF o
  <2>1. QED
    BY <1>3 DEF RootPorts
<1> HIDE DEF new
<1>5. port' \in [Ports -> RootPorts] /\ port'[p].dev = None /\ \A q \in Ports : q # p => port'[q] = port[q]
  BY <1>2, <1>4 DEF TypeOK
<1>6. missed' \subseteq Ports
  BY DEF Unplug, Changed, TypeOK
<1>7. TypeOK'
  BY <1>1, <1>5, <1>6 DEF TypeOK
<1>8. Steady
  BY <1>1, <1>5 DEF Steady, TypeOK
<1>9. QED
  BY <1>1, <1>5, <1>7, <1>8, JobsSame

(* A key is pressed: no port changes. *)
LEMMA PressStep ==
    ASSUME TypeOK, Jobs, NEW p \in Ports, Press(p)
    PROVE  /\ TypeOK' /\ Jobs'
           /\ \A q \in Ports : port'[q].dev = port[q].dev /\ port'[q].csc = port[q].csc
<1> DEFINE o == port[p]
           new == [o EXCEPT !.report = TRUE]
<1>1. UNCHANGED <<rhsc, ed, running, halted, changes, errors, dev, count, devices, connected, next,
                  drivers, data, massstorage, gbuf, job, irqOn, crashed, ops, raced, missed>>
      /\ reports' = reports + 1
  BY DEF Press, core
<1>2. port' = [port EXCEPT ![p] = new]
  BY DEF Press
<1>3. o \in RootPorts
  BY DEF TypeOK
<1>4. new \in RootPorts /\ new.dev = port[p].dev /\ new.csc = port[p].csc
  <2>1. new \in RootPorts /\ new.dev = o.dev /\ new.csc = o.csc
    <3> HIDE DEF o
    <3>1. QED
      BY <1>3 DEF RootPorts
  <2>2. QED
    BY <2>1
<1> HIDE DEF new
<1>5. /\ port' \in [Ports -> RootPorts]
      /\ \A q \in Ports : port'[q].dev = port[q].dev /\ port'[q].csc = port[q].csc
  BY <1>2, <1>4 DEF TypeOK
<1>6. TypeOK'
  BY <1>1, <1>5 DEF TypeOK
<1>7. Steady
  BY <1>1, <1>5 DEF Steady, TypeOK
<1>8. QED
  BY <1>1, <1>5, <1>6, <1>7, JobsSame

-----------------------------------------------------------------------------
(* The drivers that are still to be registered are those that are not yet. *)
LEMMA RegistersKept ==
    ASSUME TypeOK, TypeOK', Registers, NEW c \in Contexts, job[c] # <<>>, Follows(job'[c], job[c]),
           \A e \in Contexts : e # c => job'[e] = job[e],
           \/ drivers' = drivers
           \/ c = "main" /\ Item(c).op = "register" /\ drivers' = drivers + 1
    PROVE  Registers'
<1>0. "main" \in Contexts /\ job["main"] \in Seq(Items) /\ Len(job["main"]) \in Nat /\ drivers \in Nat
  BY DEF Contexts, TypeOK
<1>1. CASE c # "main"
  <2>1. job'["main"] = job["main"] /\ drivers' = drivers
    BY <1>0, <1>1
  <2>2. QED
    BY <2>1 DEF Registers
<1>2. CASE c = "main"
  <2> DEFINE q == job["main"]
             r == job'["main"]
  <2>1. Follows(r, q) /\ q # <<>> /\ Item("main") = q[1] /\ Len(q) >= 1
    BY <1>2, HeadTyped
  <2>2. \/ drivers' = drivers
        \/ Item("main").op = "register" /\ drivers' = drivers + 1
    BY <1>2
  <2> SUFFICES ASSUME NEW i \in 1 .. Len(r), r[i].op = "register"
               PROVE  drivers' + Len(r) - i < 3
    BY DEF Registers
  <2>n. Len(r) \in Nat
    BY <1>0 DEF TypeOK
  <2>3. PICK k \in 2 .. Len(q) : q[k].op = "register" /\ Len(r) - i = Len(q) - k
    BY <2>1 DEF Follows
  <2> HIDE DEF r
  <2>4. drivers + Len(q) - k < 3
    <3>1. k \in 1 .. Len(q)
      BY <1>0, <2>3
    <3>2. QED
      BY <2>3, <3>1 DEF Registers
  <2>5. q[1].op = "register" => drivers + Len(q) - 1 < 3
    <3>1. 1 \in 1 .. Len(q)
      BY <1>0, <2>1
    <3>2. QED
      BY <3>1 DEF Registers
  <2> DEFINE a == Len(q)
             b == Len(r) - i
  <2>6. drivers' + b < 3
    <3>1. a \in Nat /\ k \in 2 .. a /\ b = a - k
      BY <1>0, <2>3
    <3>2. drivers + a - k < 3
      BY <2>4
    <3>3. CASE drivers' = drivers
      BY <1>0, <3>1, <3>2, <3>3
    <3>4. CASE q[1].op = "register" /\ drivers' = drivers + 1
      <4>1. drivers + a - 1 < 3
        BY <2>5, <3>4
      <4> HIDE DEF a, b
      <4>2. QED
        BY <1>0, <3>1, <3>4, <4>1
    <3>5. QED
      BY <2>1, <2>2, <3>3, <3>4
  <2>7. drivers' + Len(r) - i = drivers' + b
    <3>1. drivers' \in Nat
      BY <1>0, <2>2
    <3>2. QED
      BY <2>n, <3>1
  <2>8. QED
    BY <2>6, <2>7
<1>3. QED
  BY <1>1, <1>2

-----------------------------------------------------------------------------
(* The count of the structs. *)
LEMMA InHandNext ==
    ASSUME TypeOK, NEW c \in Contexts, job[c] # <<>>, Follows(job'[c], job[c])
    PROVE  /\ InHand(c) \in {0, 1} /\ InHand(c)' \in {0, 1}
           /\ Item(c).op \notin {"port", "enable"} => InHand(c)' = 0
           /\ Item(c).op \in {"enable", "reset"} => InHand(c) = 1
<1>1. Item(c) = job[c][1]
  BY HeadTyped
<1>2. QED
  BY <1>1 DEF InHand, Idle, Item, Follows

(* The count of the structs is kept. *)
LEMMA Balance ==
    ASSUME NEW m \in Nat, NEW n \in Nat, NEW x \in Nat, NEW u \in Nat, NEW y \in Nat, NEW k \in Nat,
           m + x + y <= k, n + u <= m + x
    PROVE  n + u + y <= k /\ n + y + u <= k
OBVIOUS

(* The same in the other order of the contexts. *)
LEMMA Commutes == ASSUME NEW m \in Nat, NEW x \in Nat, NEW y \in Nat PROVE m + x + y = m + y + x
OBVIOUS

(* A step of one context changes nothing in what the other has in hand. *)
LEMMA CountedKept ==
    ASSUME TypeOK, TypeOK', Counted, NEW c \in Contexts, job[c] # <<>>, Follows(job'[c], job[c]),
           \A e \in Contexts : e # c => job'[e] = job[e], changes' = changes,
           count' + Pending(1)' + Pending(2)' + InHand(c)' <= count + Pending(1) + Pending(2) + InHand(c)
    PROVE  Counted'
<1> DEFINE m == count + Pending(1) + Pending(2)
           n == count' + Pending(1)' + Pending(2)'
           k == 1 + changes
<1>1. /\ Pending(1) \in Nat /\ Pending(2) \in Nat /\ Pending(1)' \in Nat /\ Pending(2)' \in Nat
      /\ InHand("main") \in Nat /\ InHand("irq") \in Nat
      /\ InHand("main")' \in Nat /\ InHand("irq")' \in Nat
      /\ count \in Nat /\ count' \in Nat /\ changes \in Nat
  BY DEF Pending, InHand, TypeOK
<1>2. m \in Nat /\ n \in Nat /\ k \in Nat
  BY <1>1
<1>3. ASSUME NEW e \in Contexts, e # c PROVE InHand(e)' = InHand(e)
  BY <1>3 DEF InHand, Idle, Item
<1>4. m + InHand("main") + InHand("irq") <= k /\ k' = k /\ changes' <= MaxMishaps
  BY DEF Counted
<1>5. n + InHand("main")' + InHand("irq")' <= k
  <2>1. CASE c = "main"
    <3>1. InHand("irq")' = InHand("irq")
      BY <1>3, <2>1 DEF Contexts
    <3>2. InHand(c)' = InHand("main")' /\ InHand(c) = InHand("main")
      BY <2>1 DEF InHand, Idle, Item
    <3>3. n + InHand("main")' <= m + InHand("main")
      BY <3>2
    <3> HIDE DEF m, n, k
    <3>4. n + InHand("main")' + InHand("irq") <= k
      BY <1>1, <1>2, <1>4, <3>3, Balance
    <3>5. QED
      BY <3>1, <3>4
  <2>2. CASE c = "irq"
    <3>1. InHand("main")' = InHand("main")
      BY <1>3, <2>2 DEF Contexts
    <3>2. InHand(c)' = InHand("irq")' /\ InHand(c) = InHand("irq")
      BY <2>2 DEF InHand, Idle, Item
    <3>3. n + InHand("irq")' <= m + InHand("irq")
      BY <3>2
    <3> HIDE DEF m, n, k
    <3>4. m + InHand("irq") + InHand("main") <= k
      BY <1>1, <1>2, <1>4, Commutes
    <3>5. n + InHand("main") + InHand("irq")' <= k
      BY <1>1, <1>2, <3>3, <3>4, Balance
    <3>6. QED
      BY <3>1, <3>5
  <2>3. QED
    BY <2>1, <2>2 DEF Contexts
<1>6. QED
  BY <1>4, <1>5 DEF Counted

(* Where no device comes or goes no port starts to wait. *)
LEMMA PortsSame ==
    ASSUME \A p \in Ports : port'[p].dev = port[p].dev /\ port'[p].csc = port[p].csc
    PROVE  Pending(1)' = Pending(1) /\ Pending(2)' = Pending(2)
BY DEF Ports, Pending

(* Steps that leave the ports and the structs alone. *)
LEMMA CountedSteady ==
    ASSUME TypeOK, TypeOK', Counted, NEW c \in Contexts, job[c] # <<>>, Follows(job'[c], job[c]),
           \A e \in Contexts : e # c => job'[e] = job[e], changes' = changes, count' = count,
           \A p \in Ports : port'[p].dev = port[p].dev /\ port'[p].csc = port[p].csc,
           Item(c).op # "port"
    PROVE  Counted'
<1>1. Pending(1)' = Pending(1) /\ Pending(2)' = Pending(2)
  BY PortsSame
<1>2. /\ Pending(1) \in {0, 1} /\ Pending(2) \in {0, 1} /\ count \in Nat
      /\ InHand(c) \in {0, 1} /\ InHand(c)' \in {0, 1}
      /\ Item(c).op \notin {"port", "enable"} => InHand(c)' = 0
      /\ Item(c).op \in {"enable", "reset"} => InHand(c) = 1
  BY InHandNext DEF Pending, TypeOK
<1>3. InHand(c)' <= InHand(c)
  BY <1>2
<1> DEFINE m == count + Pending(1) + Pending(2)
<1>4. count' + Pending(1)' + Pending(2)' + InHand(c)' <= count + Pending(1) + Pending(2) + InHand(c)
  BY <1>1, <1>2, <1>3
<1>5. QED
  BY <1>4, CountedKept
(* setup_port clears the change of a port that has a device, or there is *)
(* nothing to do.                                                        *)
LEMMA SetupPortEffect ==
    ASSUME TypeOK, Jobs, NEW c \in Contexts, SetupPort(c)
    PROVE  LET p == Item(c).port
           IN  /\ job[c] # <<>> /\ Item(c).op = "port" /\ p \in Ports
               /\ \A q \in Ports : q # p => port'[q] = port[q]
               /\ \/ port[p].dev # None /\ port[p].csc /\ ~port'[p].csc
                  \/ port' = port /\ Then(c, <<>>) /\ (port[p].dev = None \/ ~port[p].csc)
<1> DEFINE p == Item(c).port
<1>1. /\ job[c] # <<>> /\ Item(c) \in Items /\ Item(c).op = "port" /\ p \in Ports /\ Fits(c, Item(c))
  BY HeadFits, ItemTypes DEF SetupPort, At, Runs, Idle
<1> DEFINE new == port[p].dev # None /\ (port[p].csc \/ Item(c).init)
<1>2. CASE new
  <2>1. port[p].csc
    BY <1>1, <1>2 DEF Fits, FitsAt
  <2>2. port' = [port EXCEPT ![p].csc = FALSE]
    BY <1>2 DEF SetupPort
  <2>3. ~port'[p].csc /\ \A q \in Ports : q # p => port'[q] = port[q]
    BY <1>1, <2>2 DEF TypeOK, RootPorts
  <2>4. QED
    BY <1>1, <1>2, <2>1, <2>3
<1>3. CASE ~new
  <2>1. port' = port /\ Then(c, <<>>)
    BY <1>3 DEF SetupPort
  <2>2. QED
    BY <1>1, <1>3, <2>1
<1>4. QED
  BY <1>2, <1>3

(* A context that is done with an item has no device in hand. *)
LEMMA NothingInHand ==
    ASSUME TypeOK, Jobs, NEW c \in Contexts, job[c] # <<>>, Then(c, <<>>)
    PROVE  InHand(c)' = 0
<1> DEFINE q == job[c]
           r == job'[c]
<1>1. <<>> \in Seq(Items) /\ Len(<<>>) = 0
  OBVIOUS
<1>2. q \in Seq(Items) /\ q # <<>> /\ Ordered(q) /\ r = <<>> \o Tail(q)
  BY <1>1, JobTyped DEF TypeOK, Jobs
<1>3. Len(q) \in Nat /\ r # <<>> => 2 \in 1 .. Len(q) /\ r[1] = q[2]
  <2> HIDE DEF q, r
  <2>1. r = Tail(q)
    BY <1>2
  <2>2. QED
    BY <1>2, <2>1
<1>4. r # <<>> => r[1].op \notin {"enable", "reset"}
  <2> HIDE DEF q, r
  <2>1. \A i \in 1 .. Len(q) : q[i].op \in {"enable", "reset"} => i = 1
    BY <1>2 DEF Ordered
  <2>2. q \in Seq(Items) /\ Len(q) \in Nat
    BY <1>2
  <2>3. QED
    BY <1>3, <2>1, <2>2
<1>5. QED
  BY <1>4 DEF InHand, Idle, Item

(* Whatever a step of a context does, the structs suffice. *)
LEMMA CountedContext ==
    ASSUME TypeOK, TypeOK', Jobs, Counted, NEW c \in Contexts, job[c] # <<>>, Follows(job'[c], job[c]),
           \A e \in Contexts : e # c => job'[e] = job[e], changes' = changes,
           \/ /\ Item(c).op = "reset" /\ count' = count + 1
              /\ \A q \in Ports : port'[q].dev = port[q].dev /\ port'[q].csc = port[q].csc
           \/ /\ Item(c).op # "port" /\ count' = count
              /\ \A q \in Ports : port'[q].dev = port[q].dev /\ port'[q].csc = port[q].csc
           \/ SetupPort(c)
    PROVE  Counted'
<1>1. /\ InHand(c) \in {0, 1} /\ InHand(c)' \in {0, 1}
      /\ Item(c).op \notin {"port", "enable"} => InHand(c)' = 0
      /\ Item(c).op \in {"enable", "reset"} => InHand(c) = 1
      /\ \A p \in Ports : Pending(p) \in {0, 1} /\ Pending(p)' \in {0, 1}
      /\ count \in Nat
  BY InHandNext DEF Pending, TypeOK
<1>2. CASE /\ Item(c).op = "reset" /\ count' = count + 1
           /\ \A q \in Ports : port'[q].dev = port[q].dev /\ port'[q].csc = port[q].csc
  <2>1. Pending(1)' = Pending(1) /\ Pending(2)' = Pending(2) /\ InHand(c)' = 0 /\ InHand(c) = 1
    BY <1>1, <1>2, PortsSame
  <2>2. Pending(1) \in Nat /\ Pending(2) \in Nat
    BY <1>1 DEF Ports
  <2>3. count' + Pending(1)' + Pending(2)' + InHand(c)' <= count + Pending(1) + Pending(2) + InHand(c)
    BY <1>1, <1>2, <2>1, <2>2
  <2>4. QED
    BY <2>3, CountedKept
<1>3. CASE /\ Item(c).op # "port" /\ count' = count
           /\ \A q \in Ports : port'[q].dev = port[q].dev /\ port'[q].csc = port[q].csc
  BY <1>3, CountedSteady
<1>4. CASE SetupPort(c)
  <2> PICK p \in Ports : p = Item(c).port
    BY <1>4, SetupPortEffect
  <2>e. /\ \A q \in Ports : q # p => port'[q] = port[q]
        /\ \/ port[p].dev # None /\ port[p].csc /\ ~port'[p].csc
           \/ port' = port /\ Then(c, <<>>) /\ (port[p].dev = None \/ ~port[p].csc)
    BY <1>4, SetupPortEffect
  <2>1. count' = count /\ \A q \in Ports : q # p => Pending(q)' = Pending(q)
    BY <1>4, <2>e DEF SetupPort, Pending
  <2>2. Pending(p)' + InHand(c)' <= Pending(p)
    <3>1. CASE port[p].dev # None /\ port[p].csc /\ ~port'[p].csc
      BY <1>1, <3>1 DEF Pending
    <3>2. CASE port' = port /\ Then(c, <<>>)
      <4>1. Pending(p)' = Pending(p) /\ InHand(c)' = 0
        BY <3>2, NothingInHand DEF Pending
      <4>2. QED
        BY <1>1, <2>1, <4>1
    <3>3. QED
      BY <2>e, <3>1, <3>2
  <2>3. count' + Pending(1)' + Pending(2)' + InHand(c)' <= count + Pending(1) + Pending(2) + InHand(c)
    <3>1. CASE p = 1
      <4>1. Pending(1)' + InHand(c)' <= Pending(1) /\ Pending(2)' = Pending(2)
        BY <2>1, <2>2, <3>1 DEF Ports, Pending
      <4>2. QED
        BY <1>1, <2>1, <4>1 DEF Ports
    <3>2. CASE p = 2
      <4>1. Pending(2)' + InHand(c)' <= Pending(2) /\ Pending(1)' = Pending(1)
        BY <2>1, <2>2, <3>2 DEF Ports, Pending
      <4>2. QED
        BY <1>1, <2>1, <4>1 DEF Ports
    <3>3. QED
      BY <2>1, <3>1, <3>2 DEF Ports
  <2>4. QED
    BY <1>4, <2>3, CountedKept
<1>5. QED
  BY <1>2, <1>3, <1>4

(* Plugging in and pulling out. *)
LEMMA CountedWorld ==
    ASSUME TypeOK, TypeOK', Counted, NEW p \in Ports, job' = job, count' = count,
           changes' = changes + 1, changes + errors < MaxMishaps,
           \A q \in Ports : q # p => port'[q] = port[q],
           Pending(p)' <= Pending(p) + 1
    PROVE  Counted'
<1> DEFINE x == InHand("main")
           y == InHand("irq")
           a == Pending(1)
           b == Pending(2)
<1>1. /\ Pending(1) \in Nat /\ Pending(2) \in Nat /\ Pending(1)' \in Nat /\ Pending(2)' \in Nat
      /\ x \in Nat /\ y \in Nat /\ x' = x /\ y' = y
      /\ count \in Nat /\ changes \in Nat /\ errors \in Nat /\ MaxMishaps \in Nat
  BY UsbAssumption DEF Pending, InHand, Idle, Item, TypeOK
<1>2. a' + b' <= a + b + 1
  <2>1. CASE p = 1
    <3>1. Pending(2)' = Pending(2) /\ Pending(1)' <= Pending(1) + 1
      BY <2>1 DEF Pending, Ports
    <3>2. QED
      BY <1>1, <3>1
  <2>2. CASE p = 2
    <3>1. Pending(1)' = Pending(1) /\ Pending(2)' <= Pending(2) + 1
      BY <2>2 DEF Pending, Ports
    <3>2. QED
      BY <1>1, <3>1
  <2>3. QED
    BY <2>1, <2>2 DEF Ports
<1>3. count + a + b + x + y <= 1 + changes
  BY DEF Counted
<1>4. a \in Nat /\ b \in Nat /\ a' \in Nat /\ b' \in Nat
  BY <1>1
<1> HIDE DEF a, b, x, y
<1>5. count + a' + b' + x + y <= 1 + (changes + 1)
  BY <1>1, <1>2, <1>3, <1>4
<1>6. count' + a' + b' + x' + y' <= 1 + changes' /\ changes' <= MaxMishaps
  BY <1>1, <1>5
<1>7. QED
  BY <1>6 DEF Counted, a, b, x, y

-----------------------------------------------------------------------------
(* Steps that touch neither structs nor the list. *)
LEMMA AliveSame ==
    ASSUME TypeOK, Alive, \A d \in Devices : dev'[d].live = dev[d].live,
           count' = count, devices' = devices, data'["hidkb"] = data["hidkb"],
           drivers' \in Nat, drivers' >= drivers
    PROVE  Alive'
<1>1. ToSet(devices) \subseteq Devices /\ data["hidkb"] \in Devices \cup {None} /\ drivers \in Nat
  BY SetOfSeq, DriversAre DEF TypeOK
<1>2. QED
  BY <1>1 DEF Alive

(* A device is forgotten: the keyboard's driver gives it up before the *)
(* struct is freed.                                                    *)
LEMMA AliveForget ==
    ASSUME TypeOK, Alive, NEW p \in Ports,
           Forget(p) \/ UNCHANGED <<connected, data, devices, dev, crashed>>,
           count' = count, drivers' = drivers
    PROVE  Alive'
<1>1. CASE Forget(p)
  <2>1. /\ devices \in Seq(Devices) /\ ToSet(devices) \subseteq Devices
        /\ ToSet(devices') \subseteq ToSet(devices)
    BY <1>1, SetOfSeq, ForgetStep DEF TypeOK
  <2>2. /\ \A d \in Devices : dev[d].live /\ d \in ToSet(devices') => dev'[d].live
        /\ \A d \in Devices : dev'[d].live => dev[d].live
        /\ data'["hidkb"] # None => data'["hidkb"] = data["hidkb"] /\ dev'[data["hidkb"]].live
    BY <1>1, ForgetStep
  <2>3. QED
    BY <2>1, <2>2 DEF Alive
<1>2. CASE UNCHANGED <<connected, data, devices, dev, crashed>>
  BY <1>2 DEF Alive
<1>3. QED
  BY <1>1, <1>2

(* A struct is made. *)
LEMMA AliveReset ==
    ASSUME TypeOK, Alive, count + 1 \in Devices, count' = count + 1,
           \A d \in Devices : d # count + 1 => dev'[d] = dev[d],
           UNCHANGED <<devices, data, drivers>>
    PROVE  Alive'
<1>1. /\ count \in Nat /\ ToSet(devices) \subseteq Devices /\ data["hidkb"] \in Devices \cup {None}
      /\ Devices \subseteq Nat
  BY SetOfSeq, DriversAre, UsbAssumption DEF TypeOK, Devices
<1>2. \A d \in Devices : dev[d].live => d # count + 1
  BY <1>1 DEF Alive
<1>3. ASSUME NEW d \in Devices, dev'[d].live PROVE d <= count'
  <2>1. CASE d = count + 1
    BY <1>1, <2>1
  <2>2. CASE d # count + 1
    <3>1. d <= count
      BY <1>3, <2>2 DEF Alive
    <3>2. d \in Nat
      BY <1>1
    <3>3. QED
      BY <1>1, <3>1, <3>2
  <2>3. QED
    BY <2>1, <2>2
<1>4. \A d \in ToSet(devices) : dev'[d].live
  BY <1>1, <1>2 DEF Alive
<1>5. data["hidkb"] # None => dev'[data["hidkb"]].live
  BY <1>1, <1>2 DEF Alive
<1>6. QED
  BY <1>3, <1>4, <1>5 DEF Alive

(* A device is listed. *)
LEMMA AliveList ==
    ASSUME TypeOK, Jobs, Alive, NEW c \in Contexts, ListDevice(c)
    PROVE  Alive'
<1> PICK d \in Devices : d = Item(c).dev /\ dev[d].live
  BY HeadFits, ItemTypes DEF ListDevice, At, Runs, Idle, Fits, FitsAt
<1>1. UNCHANGED <<dev, count, data, drivers>> /\ devices' = Append(devices, d)
  BY DEF ListDevice
<1>2. devices \in Seq(Devices)
  BY DEF TypeOK
<1>3. ToSet(devices') \subseteq ToSet(devices) \cup {d}
  <2>1. devices' \in Seq(Devices) /\ Len(devices') = Len(devices) + 1 /\ Len(devices) \in Nat
    BY <1>1, <1>2
  <2>2. \A i \in 1 .. Len(devices) : devices'[i] = devices[i]
    BY <1>1, <1>2
  <2>3. devices'[Len(devices) + 1] = d
    BY <1>1, <1>2
  <2>4. \A i \in 1 .. Len(devices) + 1 : i = Len(devices) + 1 \/ i \in 1 .. Len(devices)
    BY <2>1
  <2>5. DOMAIN devices' = 1 .. Len(devices) + 1 /\ DOMAIN devices = 1 .. Len(devices)
    BY <1>2, <2>1
  <2>6. QED
    BY <2>2, <2>3, <2>4, <2>5 DEF ToSet
<1>4. QED
  BY <1>1, <1>3 DEF Alive

(* A driver is probed. *)
LEMMA AliveProbe ==
    ASSUME TypeOK, Jobs, Alive, NEW c \in Contexts, Probe(c)
    PROVE  Alive'
<1>1. UNCHANGED <<dev, count, devices, drivers>>
  BY DEF Probe
<1>2. data'["hidkb"] = data["hidkb"] \/ (data'["hidkb"] \in ToSet(devices) /\ drivers >= 1)
  BY ProbeStep
<1>3. QED
  BY <1>1, <1>2 DEF Alive

-----------------------------------------------------------------------------
(* Who notices what changed. *)
Noticed ==
    /\ ~Idle("irq") => rhsc
    /\ \A p \in Ports : port[p].csc /\ port[p].dev # None =>
          /\ ~irqOn => rhsc \/ Awaits(job["main"], p)
          /\ irqOn /\ Idle("irq") => rhsc \/ p \in missed
          /\ ~Idle("irq") => p \in missed \/ Awaits(job["irq"], p)

(* Steps of a context other than the acknowledgement and the end of hcdi_init. *)
LEMMA NoticedKept ==
    ASSUME TypeOK, TypeOK', Jobs, Noticed, NEW c \in Contexts, Runs(c), Follows(job'[c], job[c]),
           \A e \in Contexts : e # c => job'[e] = job[e],
           UNCHANGED <<rhsc, irqOn, missed>>,
           \/ SetupPort(c)
           \/ /\ Item(c).op # "port"
              /\ \A q \in Ports : port'[q].dev = port[q].dev /\ port'[q].csc = port[q].csc
    PROVE  Noticed'
<1>1. job[c] # <<>> /\ Item(c) = job[c][1] /\ (c = "main" => Idle("irq"))
  BY HeadTyped DEF Runs, Idle
<1>2. ASSUME NEW p \in Ports, port'[p].csc, port'[p].dev # None
      PROVE  /\ port[p].csc /\ port[p].dev # None
             /\ ~(job[c][1].op = "port" /\ job[c][1].port = p)
  <2>1. CASE SetupPort(c)
    <3> PICK r \in Ports : r = Item(c).port
      BY <2>1, SetupPortEffect
    <3>1. /\ \A q \in Ports : q # r => port'[q] = port[q]
          /\ \/ port[r].dev # None /\ port[r].csc /\ ~port'[r].csc
             \/ port' = port /\ (port[r].dev = None \/ ~port[r].csc)
      BY <2>1, SetupPortEffect
    <3>2. QED
      BY <1>1, <1>2, <3>1
  <2>2. CASE /\ Item(c).op # "port"
             /\ \A q \in Ports : port'[q].dev = port[q].dev /\ port'[q].csc = port[q].csc
    BY <1>1, <1>2, <2>2
  <2>3. QED
    BY <2>1, <2>2
<1>3. ASSUME NEW p \in Ports, NEW e \in Contexts, port'[p].csc, port'[p].dev # None, Awaits(job[e], p)
      PROVE  Awaits(job'[e], p)
  BY <1>2, <1>3 DEF Follows
<1>4. CASE c = "main"
  <2>1. job["irq"] = <<>> /\ job'["irq"] = <<>>
    BY <1>1, <1>4 DEF Idle, Contexts
  <2>2. ASSUME NEW p \in Ports, port'[p].csc, port'[p].dev # None
        PROVE  /\ ~irqOn => rhsc \/ Awaits(job'["main"], p)
               /\ irqOn => rhsc \/ p \in missed
    BY <1>2, <1>3, <2>1, <2>2 DEF Noticed, Idle, Contexts
  <2>3. QED
    BY <2>1, <2>2 DEF Noticed, Idle
<1>5. CASE c = "irq"
  <2>1. rhsc /\ job["irq"] # <<>>
    BY <1>1, <1>5 DEF Noticed, Idle
  <2>2. ASSUME NEW p \in Ports, port'[p].csc, port'[p].dev # None
        PROVE  p \in missed \/ Awaits(job'["irq"], p)
    BY <1>2, <1>3, <2>1, <2>2 DEF Noticed, Idle, Contexts
  <2>3. QED
    BY <2>1, <2>2 DEF Noticed
<1>6. QED
  BY <1>4, <1>5 DEF Contexts

(* hcdi_init is over: what changed since raises the interrupt. *)
LEMMA NoticedEnable ==
    ASSUME TypeOK, Jobs, Noticed, NEW c \in Contexts, Enable(c)
    PROVE  Noticed'
<1>1. /\ c = "main" /\ ~irqOn /\ Idle("irq")
      /\ \A i \in 2 .. Len(job["main"]) : job["main"][i].op = "register"
      /\ job'["irq"] = job["irq"]
  <2>1. job[c] # <<>>
    BY DEF Enable, At, Runs, Idle
  <2>2. QED
    BY <2>1, EnableStep, AdvanceFollows DEF Contexts
<1>2. UNCHANGED <<rhsc, port, missed>> /\ irqOn'
  BY DEF Enable, hc
<1>3. \A p \in Ports : ~Awaits(job["main"], p)
  <2>1. Item("main").op = "enable irq" /\ Item("main") = job["main"][1] /\ Len(job["main"]) \in Nat
    BY <1>1, HeadTyped DEF Enable, At, Runs, Idle, Contexts
  <2>2. \A i \in 1 .. Len(job["main"]) : job["main"][i].op # "port"
    <3> SUFFICES ASSUME NEW i \in 1 .. Len(job["main"]) PROVE job["main"][i].op # "port"
      OBVIOUS
    <3> DEFINE n == Len(job["main"])
    <3>1. i = 1 \/ i \in 2 .. Len(job["main"])
      <4>1. n \in Nat /\ i \in 1 .. n
        BY <2>1
      <4> HIDE DEF n
      <4>2. i = 1 \/ i \in 2 .. n
        BY <4>1
      <4>3. QED
        BY <4>2 DEF n
    <3>2. QED
      BY <1>1, <2>1, <3>1
  <2>3. QED
    BY <2>2 DEF Awaits
<1>4. QED
  BY <1>1, <1>2, <1>3 DEF Noticed, Idle

(* hcdi_irq is over: a change since it looked at the port is missed. *)
LEMMA NoticedAcknowledge ==
    ASSUME TypeOK, Jobs, Noticed, NEW c \in Contexts, Acknowledge(c)
    PROVE  Noticed'
<1>1. /\ job[c] # <<>> /\ Item(c).op = "ack" /\ Item(c) = job[c][1] /\ Fits(c, Item(c)) /\ Then(c, <<>>)
      /\ Ordered(job[c]) /\ Len(job[c]) >= 1 /\ Len(job[c]) \in Nat /\ job[c] \in Seq(Items)
  BY HeadFits, HeadTyped DEF Acknowledge, At, Runs, Idle
<1>2. c = "irq"
  BY <1>1 DEF Fits, FitsAt, Contexts
<1>3. Len(job[c]) = 1
  <2>1. 1 \in 1 .. Len(job[c]) /\ job[c][1].op = "ack"
    BY <1>1
  <2>2. QED
    BY <1>1, <2>1 DEF Ordered
<1>4. UNCHANGED <<port, irqOn, missed>>
  BY DEF Acknowledge
<1>5. job'["irq"] = <<>> /\ irqOn
  <2>1. <<>> \in Seq(Items)
    OBVIOUS
  <2>2. job'[c] = <<>> \o Tail(job[c])
    BY <1>1, <2>1, JobTyped
  <2> DEFINE q == job[c]
  <2>3. <<>> \o Tail(job[c]) = <<>>
    <3>1. q \in Seq(Items) /\ Len(q) = 1
      BY <1>1, <1>3
    <3> HIDE DEF q
    <3>2. Tail(q) = <<>>
      <4> DEFINE t == Tail(q)
      <4>1. t \in Seq(Items) /\ Len(t) = 0
        BY <3>1
      <4> HIDE DEF t
      <4>2. t = <<>>
        BY <4>1
      <4>3. QED
        BY <4>2 DEF t
    <3>3. <<>> \o <<>> = <<>>
      OBVIOUS
    <3>4. QED
      BY <3>2, <3>3 DEF q
  <2>4. irqOn
    BY <1>1, <1>2, HeadFits
  <2>5. QED
    BY <1>2, <2>2, <2>3, <2>4
<1>6. \A p \in Ports : ~Awaits(job["irq"], p)
  <2>1. \A i \in 1 .. Len(job[c]) : job[c][i].op # "port"
    BY <1>1, <1>3
  <2>2. QED
    BY <1>2, <2>1 DEF Awaits
<1>7. job["irq"] # <<>>
  BY <1>1, <1>2
<1>8. QED
  BY <1>4, <1>5, <1>6, <1>7 DEF Noticed, Idle

(* The handler starts: it looks at both ports. *)
LEMMA NoticedHandler ==
    ASSUME TypeOK, Jobs, Noticed, HcdiIrq
    PROVE  Noticed'
<1> DEFINE items == ConfigurePorts(FALSE) \o <<[op |-> "ack"]>>
<1>1. UNCHANGED <<port, rhsc, irqOn>> /\ rhsc /\ irqOn
  BY DEF HcdiIrq, hc
<1>2. job'["irq"] = items /\ job'["main"] = job["main"]
  <2>1. job' = [job EXCEPT !["irq"] = items]
    BY HcdiIrqStep
  <2> HIDE DEF items
  <2>2. QED
    BY <2>1 DEF TypeOK, Contexts
<1>3. \A p \in Ports : Awaits(items, p)
  <2> DEFINE x == [op |-> "port", init |-> FALSE, port |-> 1]
             y == [op |-> "port", init |-> FALSE, port |-> 2]
  <2>1. Len(items) = 3 /\ items[1] = x /\ items[2] = y
    BY HandlerJob
  <2>2. x.op = "port" /\ x.port = 1 /\ y.op = "port" /\ y.port = 2
    OBVIOUS
  <2> HIDE DEF items, x, y
  <2>3. QED
    BY <2>1, <2>2 DEF Awaits, Ports
<1> HIDE DEF items
<1>4. QED
  BY <1>1, <1>2, <1>3 DEF Noticed

(* Steps that change no port. *)
LEMMA NoticedSame ==
    ASSUME Noticed, UNCHANGED <<rhsc, irqOn, missed, job>>,
           \A q \in Ports : port'[q].dev = port[q].dev /\ port'[q].csc = port[q].csc
    PROVE  Noticed'
BY DEF Noticed, Idle

(* A port changes: the root hub says so. *)
LEMMA NoticedWorld ==
    ASSUME TypeOK, Noticed, NEW p \in Ports, rhsc', irqOn' = irqOn, job' = job, Changed(p),
           \A q \in Ports : q # p => port'[q] = port[q]
    PROVE  Noticed'
<1>1. ASSUME ~Idle("irq") PROVE p \in missed' \/ Awaits(job["irq"], p)
  <2>1. CASE Past(p)
    BY <2>1 DEF Changed
  <2>2. CASE ~Past(p)
    <3>1. \E k \in DOMAIN job["irq"] : job["irq"][k].op = "port" /\ job["irq"][k].port = p
      BY <1>1, <2>2 DEF Past
    <3>2. DOMAIN job["irq"] = 1 .. Len(job["irq"])
      BY DEF TypeOK, Contexts
    <3>3. QED
      BY <3>1, <3>2 DEF Awaits
  <2>3. QED
    BY <2>1, <2>2
<1>2. missed \subseteq missed'
  BY DEF Changed
<1>3. QED
  BY <1>1, <1>2 DEF Noticed, Idle

(* A call of the program: interrupts are on, or there was nothing to await. *)
LEMMA NoticedCall ==
    ASSUME TypeOK, Jobs, Noticed, NEW op, Call(op)
    PROVE  Noticed'
<1>1. /\ Idle("main") /\ Idle("irq") /\ UNCHANGED <<port, rhsc, irqOn, missed>>
  BY CallStep DEF Call, hc
<1>2. job'["irq"] = job["irq"]
  <2>1. PICK x \in Items : job' = [job EXCEPT !["main"] = <<x>>]
    BY CallStep
  <2>2. QED
    BY <2>1 DEF TypeOK, Contexts
<1>3. \A p \in Ports : ~Awaits(job["main"], p)
  BY <1>1 DEF Idle, Awaits
<1>4. QED
  BY <1>1, <1>2, <1>3 DEF Noticed, Idle

-----------------------------------------------------------------------------
(* All TDs go to one endpoint of one address. *)
Together(tds) == \E addr \in Addresses, ep \in 0 .. 2 : Uniform(tds, addr, ep)

(* A context is between usb_submit_irp and the end of hcdi_fire. *)
InTransfer(c) == ~Idle(c) /\ Item(c).op \in {"queue", "poll"}

(* Whose transfer it is: as long as the handler does not start one in the  *)
(* middle of the program's, the endpoint descriptor belongs to the context *)
(* that is in a transfer, and so do the TDs that are still to be enqueued. *)
Unshared ==
    ~raced =>
        /\ ~(InTransfer("main") /\ ~Idle("irq"))
        /\ ed # None => /\ Uniform(ed.tds, ed.addr, ed.ep)
                        /\ InTransfer("main") \/ InTransfer("irq")
        /\ \A c \in Contexts : ~Idle(c) /\ Item(c).op = "queue" =>
              IF ed = None THEN Together(Item(c).tds) ELSE Uniform(Item(c).tds, ed.addr, ed.ep)

(* Whether it does or not: the handler hands a transfer over in one step,  *)
(* and but for the time it waits for the end of it, the endpoint           *)
(* descriptor is the program's, with the program's TDs only.               *)
Apart ==
    /\ ~Idle("irq") => Item("irq").op # "queue"
    /\ ed # None => InTransfer("main") \/ Appending
    /\ ed # None /\ ~Appending => Uniform(ed.tds, ed.addr, ed.ep)
    /\ ~Idle("main") /\ Item("main").op = "queue" =>
          /\ Together(Item("main").tds)
          /\ ed # None /\ ~Appending => Uniform(Item("main").tds, ed.addr, ed.ep)

Owned == Unshared /\ Apart

(* A context that the handler does not disturb: the program always, for it *)
(* does not run while the handler has work.                                *)
Undisturbed(c) == ~raced \/ c = "main"

(* What is left to show of a step: what it makes of the descriptor and of  *)
(* the head of its own job.                                                *)
LEMMA OwnedStep ==
    ASSUME TypeOK, Owned, raced' = raced, NEW c \in Contexts, Runs(c),
           \A e \in Contexts : e # c => job'[e] = job[e],
           Undisturbed(c) =>
             /\ ed' # None => /\ Uniform(ed'.tds, ed'.addr, ed'.ep)
                              /\ job'[c] # <<>> /\ job'[c][1].op \in {"queue", "poll"}
             /\ job'[c] # <<>> /\ job'[c][1].op = "queue" =>
                  Together(job'[c][1].tds) /\ (ed' # None => Uniform(job'[c][1].tds, ed'.addr, ed'.ep)),
           c = "irq" => /\ job'[c] # <<>> => job'[c][1].op # "queue"
                        /\ \/ job'[c] # <<>> /\ job'[c][1].op = "poll"
                           \/ ed' = None
                           \/ ed' = ed /\ ~Appending
    PROVE  Owned'
<1>1. Unshared'
  <2> SUFFICES ASSUME ~raced PROVE Unshared'
    BY DEF Unshared
  <2>1. \A e \in Contexts : e # c => ~InTransfer(e)
    BY DEF Owned, Unshared, Runs, InTransfer, Contexts
  <2>2. \A e \in Contexts : e # c => (Idle(e)' <=> Idle(e)) /\ (InTransfer(e)' <=> InTransfer(e))
    BY DEF Idle, InTransfer, Item
  <2>3. ~(InTransfer("main")' /\ ~Idle("irq")')
    <3>1. CASE c = "main"
      <4>1. Idle("irq")
        BY <3>1 DEF Runs
      <4>2. QED
        BY <2>2, <3>1, <4>1 DEF Contexts
    <3>2. CASE c = "irq"
      BY <2>1, <2>2, <3>2 DEF Contexts
    <3>3. QED
      BY <3>1, <3>2 DEF Contexts
  <2>4. ed' # None => Uniform(ed'.tds, ed'.addr, ed'.ep) /\ (InTransfer("main")' \/ InTransfer("irq")')
    <3>1. ed' # None => InTransfer(c)'
      BY DEF Undisturbed, InTransfer, Idle, Item
    <3>2. CASE c = "main"
      BY <3>1, <3>2 DEF Undisturbed, InTransfer, Idle, Item
    <3>3. CASE c = "irq"
      BY <3>1, <3>3 DEF Undisturbed, InTransfer, Idle, Item
    <3>4. QED
      BY <3>2, <3>3 DEF Contexts
  <2>5. ASSUME NEW e \in Contexts, job'[e] # <<>>, job'[e][1].op = "queue"
        PROVE  IF ed' = None THEN Together(job'[e][1].tds) ELSE Uniform(job'[e][1].tds, ed'.addr, ed'.ep)
    <3>1. e = c
      BY <2>1, <2>5 DEF InTransfer, Idle, Item
    <3>2. QED
      BY <2>5, <3>1 DEF Undisturbed
  <2>6. \A e \in Contexts : ~Idle(e)' /\ Item(e)'.op = "queue" =>
           IF ed' = None THEN Together(Item(e)'.tds) ELSE Uniform(Item(e)'.tds, ed'.addr, ed'.ep)
    BY <2>5 DEF Idle, Item
  <2>7. QED
    BY <2>3, <2>4, <2>6 DEF Unshared
<1>2. Apart'
  <2>1. CASE c = "main"
    <3>1. Idle("irq") /\ Idle("irq")'
      BY <2>1 DEF Runs, Contexts, Idle
    <3>2. ed' # None => Uniform(ed'.tds, ed'.addr, ed'.ep) /\ InTransfer("main")'
      BY <2>1 DEF Undisturbed, InTransfer, Idle, Item
    <3>3. ~Idle("main")' /\ Item("main")'.op = "queue" =>
             /\ Together(Item("main")'.tds)
             /\ ed' # None => Uniform(Item("main")'.tds, ed'.addr, ed'.ep)
      BY <2>1 DEF Undisturbed, Idle, Item
    <3>4. QED
      BY <3>1, <3>2, <3>3 DEF Apart, Appending
  <2>2. CASE c = "irq"
    <3>1. job'["main"] = job["main"]
      BY <2>2 DEF Contexts
    <3>2. /\ Idle("main")' <=> Idle("main")
          /\ InTransfer("main")' <=> InTransfer("main")
          /\ Item("main")' = Item("main")
      BY <3>1 DEF Idle, InTransfer, Item
    <3>3. ~Idle("irq")' => Item("irq")'.op # "queue"
      BY <2>2 DEF Idle, Item
    <3>4. Appending' \/ ed' = None \/ (ed' = ed /\ ~Appending)
      BY <2>2 DEF Appending, Idle, Item
    <3>5. QED
      BY <3>2, <3>3, <3>4 DEF Owned, Apart
  <2>3. QED
    BY <2>1, <2>2 DEF Contexts
<1>3. QED
  BY <1>1, <1>2 DEF Owned

(* One item takes the place of the head. *)
LEMMA HeadNext ==
    ASSUME TypeOK, NEW c \in Contexts, job[c] # <<>>, NEW x \in Items, Then(c, <<x>>)
    PROVE  job'[c] # <<>> /\ job'[c][1] = x /\ \A e \in Contexts : e # c => job'[e] = job[e]
<1> DEFINE items == <<x>>
           q == job[c]
           r == job'[c]
<1>1. items \in Seq(Items) /\ Len(items) = 1 /\ items[1] = x
  BY SeqOfOne
<1>2. Then(c, items)
  OBVIOUS
<1> HIDE DEF items
<1>3. r = items \o Tail(q) /\ q \in Seq(Items) /\ q # <<>> /\ \A e \in Contexts : e # c => job'[e] = job[e]
  BY <1>1, <1>2, JobTyped DEF TypeOK
<1> HIDE DEF q, r
<1>4. r \in Seq(Items) /\ Len(r) = Len(items) + Len(q) - 1 /\ \A i \in 1 .. Len(items) : r[i] = items[i]
  <2>1. items \in Seq(Items) /\ q \in Seq(Items) /\ q # <<>> /\ r = items \o Tail(q)
    BY <1>1, <1>3
  <2>2. QED
    BY ONLY <2>1, Spliced
<1>5. r[1] = x /\ r # <<>>
  <2>1. Len(q) \in Nat /\ Len(q) >= 1
    BY <1>3
  <2>2. Len(r) >= 1
    BY <1>1, <1>4, <2>1
  <2>3. QED
    BY <1>1, <1>4, <2>2
<1>6. QED
  BY <1>3, <1>5 DEF r

(* After an item that is done, no transfer is under way in this context. *)
LEMMA HeadDone ==
    ASSUME TypeOK, Jobs, NEW c \in Contexts, job[c] # <<>>, Then(c, <<>>)
    PROVE  /\ job'[c] # <<>> => job'[c][1].op \notin {"queue", "poll"}
           /\ \A e \in Contexts : e # c => job'[e] = job[e]
<1> DEFINE q == job[c]
           r == job'[c]
<1>1. <<>> \in Seq(Items)
  OBVIOUS
<1>2. q \in Seq(Items) /\ q # <<>> /\ Ordered(q) /\ r = <<>> \o Tail(q) /\ \A e \in Contexts : e # c => job'[e] = job[e]
  BY <1>1, JobTyped DEF TypeOK, Jobs
<1> HIDE DEF q, r
<1>3. Len(q) \in Nat /\ r # <<>> => 2 \in 1 .. Len(q) /\ r[1] = q[2]
  <2>1. r = Tail(q)
    BY <1>2
  <2>2. QED
    BY <1>2, <2>1
<1>4. \A i \in 1 .. Len(q) : q[i].op \in {"queue", "poll"} => i = 1
  BY <1>2 DEF Ordered
<1>5. Len(q) \in Nat
  BY <1>2
<1>6. r # <<>> => r[1].op \notin {"queue", "poll"}
  BY <1>3, <1>4, <1>5
<1>7. QED
  BY <1>2, <1>6 DEF r

(* usb_submit_irp: the TDs are of one endpoint; nobody else is in a *)
(* transfer.                                                        *)
LEMMA OwnedSubmit ==
    ASSUME TypeOK, Jobs, Owned, NEW c \in Contexts, Submit(c)
    PROVE  Owned'
<1> DEFINE x == Item(c)
           tds == SubmitIrp(x)
<1>1. job[c] # <<>> /\ x \in Items /\ x \in Irps /\ x.op = "irp" /\ Runs(c)
  BY HeadFits, ItemTypes DEF Submit, At, Runs, Idle
<1>2. /\ tds \in Seq(Tds) /\ tds # <<>> /\ Uniform(tds, dev[x.dev].addr, x.ep)
      /\ dev[x.dev].addr \in Addresses /\ x.ep \in 0 .. 2
  <2>1. x.dev \in Devices /\ x.ep \in 0 .. 2 /\ (x.type = "interrupt" => x.len > 0)
    BY <1>1 DEF Irps
  <2>2. dev[x.dev] \in Structs
    BY <2>1 DEF TypeOK
  <2> HIDE DEF x
  <2>3. QED
    BY <1>1, <2>1, <2>2, SubmitTyped, SubmitNotEmpty DEF Structs
<1>3. raced' = raced
  BY DEF Submit
<1>4. Undisturbed(c) => ed = None
  <2>1. CASE ~raced
    BY <1>1, <2>1 DEF Owned, Unshared, InTransfer, Runs, Idle, Contexts
  <2>2. CASE c = "main"
    BY <1>1, <2>2 DEF Owned, Apart, Appending, InTransfer, Runs, Idle
  <2>3. QED
    BY <2>1, <2>2 DEF Undisturbed
<1>5. CASE Interruptible(c)
  <2>0. c = "main"
    BY <1>5 DEF Interruptible
  <2>1. Then(c, <<[op |-> "queue", tds |-> tds]>>) /\ ed' = ed
    BY <1>5 DEF Submit
  <2> DEFINE y == [op |-> "queue", tds |-> tds]
  <2>2. y \in Items /\ y.op = "queue" /\ y.tds = tds
    BY <1>2, SmallItems
  <2> HIDE DEF tds, y, x
  <2>3. job'[c] # <<>> /\ job'[c][1] = y /\ \A e \in Contexts : e # c => job'[e] = job[e]
    BY <1>1, <2>1, <2>2, HeadNext DEF y
  <2>4. Together(tds)
    BY <1>2 DEF Together
  <2>5. QED
    BY <1>1, <1>3, <1>4, <2>0, <2>1, <2>2, <2>3, <2>4, OwnedStep DEF Undisturbed
<1>6. CASE ~Interruptible(c)
  <2>1. Then(c, <<[op |-> "poll"]>>) /\ ed' = Joined(tds)
    BY <1>6 DEF Submit
  <2> DEFINE y == [op |-> "poll"]
  <2>2. y \in Items /\ y.op = "poll"
    BY SmallItems
  <2> HIDE DEF tds, y, x
  <2>3. job'[c] # <<>> /\ job'[c][1] = y /\ \A e \in Contexts : e # c => job'[e] = job[e]
    BY <1>1, <2>1, <2>2, HeadNext DEF y
  <2>4. Undisturbed(c) => Uniform(ed'.tds, ed'.addr, ed'.ep)
    <3>1. 1 \in 1 .. Len(tds)
      BY <1>2
    <3>2. QED
      BY <1>2, <1>4, <2>1, <3>1, JoinedTyped DEF Uniform
  <2>5. QED
    BY <1>1, <1>3, <2>2, <2>3, <2>4, OwnedStep
<1>7. QED
  BY <1>5, <1>6

(* hcdi_enqueue: the TDs join those of their own transfer. *)
LEMMA OwnedEnqueue ==
    ASSUME TypeOK, Jobs, Owned, NEW c \in Contexts, Enqueue(c)
    PROVE  Owned'
<1> DEFINE x == Item(c)
           t == x.tds
           y == [op |-> "queue", tds |-> Tail(t)]
           one == <<Head(t)>>
<1>1. /\ job[c] # <<>> /\ x \in Items /\ x.op = "queue" /\ t \in Seq(Tds) /\ t # <<>> /\ Runs(c)
  BY HeadFits, ItemTypes DEF Enqueue, At, Runs, Idle
<1>2. raced' = raced /\ ed' = Joined(one) /\ Then(c, <<y>>)
  BY DEF Enqueue
<1>3. /\ Tail(t) \in Seq(Tds) /\ Head(t) = t[1] /\ t[1] \in Tds /\ 1 \in 1 .. Len(t)
      /\ \A i \in 1 .. Len(Tail(t)) : i + 1 \in 1 .. Len(t) /\ Tail(t)[i] = t[i + 1]
  BY <1>1
<1>4. one \in Seq(Tds) /\ Len(one) = 1 /\ one[1] = t[1] /\ one # <<>>
  BY <1>3, SeqOfOne
<1>5. y \in Items /\ y.op = "queue" /\ y.tds = Tail(t)
  BY <1>3, SmallItems
<1> HIDE DEF y, one, t
<1>6. job'[c] # <<>> /\ job'[c][1] = y /\ \A e \in Contexts : e # c => job'[e] = job[e]
  BY <1>1, <1>2, <1>5, HeadNext
<1>7. /\ c = "main"
      /\ IF ed = None THEN Together(t) ELSE Uniform(t, ed.addr, ed.ep) /\ Uniform(ed.tds, ed.addr, ed.ep)
  <2>1. c = "main"
    BY <1>1 DEF Owned, Apart, Idle, Contexts
  <2>2. Idle("irq")
    BY <1>1, <2>1 DEF Runs
  <2>3. QED
    BY <1>1, <2>1, <2>2 DEF Owned, Apart, Appending, Idle, t
<1>8. ed' \in Endpoints
  BY <1>2, <1>4, JoinedTyped
<1>9. Uniform(ed'.tds, ed'.addr, ed'.ep) /\ Uniform(Tail(t), ed'.addr, ed'.ep)
  <2>1. CASE ed = None
    <3>1. PICK a \in Addresses, n \in 0 .. 2 : Uniform(t, a, n)
      BY <1>7, <2>1 DEF Together
    <3>2. t[1].addr = a /\ t[1].ep = n
      BY <1>3, <3>1 DEF Uniform
    <3>3. ed'.tds = one /\ ed'.addr = a /\ ed'.ep = n
      BY <1>2, <1>4, <2>1, <3>2, JoinedTyped
    <3>4. Uniform(one, a, n)
      BY <1>4, <3>2 DEF Uniform
    <3>5. Uniform(Tail(t), a, n)
      BY <1>3, <3>1 DEF Uniform
    <3>6. QED
      BY <3>3, <3>4, <3>5
  <2>2. CASE ed # None
    <3> DEFINE a == ed.addr
               n == ed.ep
               s == ed.tds
               r == s \o one
    <3>1. Uniform(t, a, n) /\ Uniform(s, a, n) /\ s \in Seq(Tds)
      BY <1>7, <2>2 DEF TypeOK, Endpoints
    <3>2. t[1].addr = a /\ t[1].ep = n
      BY <1>3, <3>1 DEF Uniform
    <3>3. ed'.tds = r /\ ed'.addr = a /\ ed'.ep = n
      BY <1>2, <1>4, <2>2, JoinedTyped
    <3>4. Uniform(Tail(t), a, n)
      BY <1>3, <3>1 DEF Uniform
    <3> HIDE DEF a, n, s
    <3>5. /\ Len(r) = Len(s) + Len(one) /\ Len(s) \in Nat
          /\ \A i \in 1 .. Len(s) : r[i] = s[i]
          /\ \A i \in Len(s) + 1 .. Len(r) : r[i] = one[i - Len(s)]
      <4>1. s \in Seq(Tds) /\ one \in Seq(Tds)
        BY <1>4, <3>1
      <4>2. QED
        BY ONLY <4>1, Concat
    <3> HIDE DEF r
    <3>6. Uniform(r, a, n)
      <4> SUFFICES ASSUME NEW i \in 1 .. Len(r) PROVE r[i].addr = a /\ r[i].ep = n
        BY DEF Uniform
      <4>1. CASE i <= Len(s)
        BY <3>1, <3>5, <4>1 DEF Uniform
      <4>2. CASE i > Len(s)
        <5>1. i \in Len(s) + 1 .. Len(r) /\ i - Len(s) = 1
          BY <1>4, <3>5, <4>2
        <5>2. QED
          BY <1>4, <3>2, <3>5, <5>1
      <4>3. QED
        BY <3>5, <4>1, <4>2
    <3>7. QED
      BY <3>3, <3>4, <3>6
  <2>3. QED
    BY <2>1, <2>2
<1>10. Together(Tail(t))
  BY <1>8, <1>9 DEF Endpoints, Together
<1>11. QED
  BY <1>1, <1>2, <1>5, <1>6, <1>7, <1>9, <1>10, OwnedStep

(* hcdi_fire: the descriptor is given up when the transfer is over. *)
LEMMA OwnedFire ==
    ASSUME TypeOK, Jobs, Owned, NEW c \in Contexts, Fire(c) \/ FireEnds(c) \/ FireEndsWild(c)
    PROVE  Owned'
<1>1. job[c] # <<>> /\ Runs(c) /\ raced' = raced
  BY DEF Fire, FireEnds, FireEndsWild, At, Runs, Idle
<1>2. CASE ed' = None /\ Then(c, <<>>)
  BY <1>1, <1>2, HeadDone, OwnedStep
<1>3. CASE ed' = ed /\ ed # None /\ Then(c, <<[op |-> "poll"]>>)
  <2> DEFINE y == [op |-> "poll"]
  <2>1. y \in Items /\ y.op = "poll"
    BY SmallItems
  <2> HIDE DEF y
  <2>2. job'[c] # <<>> /\ job'[c][1] = y /\ \A e \in Contexts : e # c => job'[e] = job[e]
    BY <1>1, <1>3, <2>1, HeadNext DEF y
  <2>3. Undisturbed(c) => Uniform(ed.tds, ed.addr, ed.ep)
    BY <1>1, <1>3 DEF Undisturbed, Owned, Unshared, Apart, Appending, Runs
  <2>4. QED
    BY <1>1, <1>3, <2>1, <2>2, <2>3, OwnedStep
<1>4. QED
  BY <1>2, <1>3 DEF Fire, FireEnds, FireEndsWild, hc

(* Steps outside a transfer. *)
LEMMA OwnedKept ==
    ASSUME TypeOK, Owned, NEW c \in Contexts, Runs(c), Follows(job'[c], job[c]),
           \A e \in Contexts : e # c => job'[e] = job[e],
           Item(c).op \notin {"irp", "queue", "poll"}, ed' = ed, raced' = raced
    PROVE  Owned'
<1>1. Item(c) = job[c][1]
  BY HeadTyped DEF Runs, Idle
<1>2. Undisturbed(c) => ed = None
  <2>1. CASE ~raced
    BY <2>1 DEF Owned, Unshared, InTransfer, Runs, Idle, Contexts
  <2>2. CASE c = "main"
    BY <2>2 DEF Owned, Apart, Appending, InTransfer, Runs, Idle
  <2>3. QED
    BY <2>1, <2>2 DEF Undisturbed
<1>3. job'[c] # <<>> => job'[c][1].op \notin {"queue", "poll"}
  BY <1>1 DEF Follows
<1>4. c = "irq" => ~Appending
  BY DEF Appending
<1>5. QED
  BY <1>2, <1>3, <1>4, OwnedStep

(* The handler starts in the middle of a transfer of the program: that *)
(* is a race.                                                          *)
LEMMA OwnedHandler ==
    ASSUME TypeOK, Jobs, Owned, HcdiIrq
    PROVE  Owned'
<1> DEFINE items == ConfigurePorts(FALSE) \o <<[op |-> "ack"]>>
<1>1. /\ Idle("irq") /\ ed' = ed
      /\ ~raced' => ~raced /\ ~InTransfer("main")
  BY DEF HcdiIrq, Conversing, InTransfer, hc
<1>2. ~raced' => ed = None
  BY <1>1 DEF Owned, Unshared, InTransfer
<1>3. job'["irq"] = items /\ job'["main"] = job["main"]
  <2>1. job' = [job EXCEPT !["irq"] = items]
    BY HcdiIrqStep
  <2> HIDE DEF items
  <2>2. QED
    BY <2>1 DEF TypeOK, Contexts
<1>4. items # <<>> /\ Head(items) = items[1] /\ items[1].op = "port"
  <2> DEFINE x == [op |-> "port", init |-> FALSE, port |-> 1]
  <2>1. items \in Seq(Items) /\ Len(items) = 3 /\ items[1] = x
    BY HandlerJob
  <2>2. x.op = "port"
    OBVIOUS
  <2> HIDE DEF items, x
  <2>3. items \in Seq(Items) /\ Len(items) = 3
    BY <2>1
  <2>4. items # <<>>
    BY ONLY <2>3
  <2>5. Head(items) = items[1]
    BY ONLY <2>3, <2>4
  <2>6. QED
    BY <2>1, <2>2, <2>4, <2>5
<1> HIDE DEF items
<1>5. ~InTransfer("irq")' /\ ~Appending' /\ ~Appending
  BY <1>1, <1>3, <1>4 DEF InTransfer, Appending, Idle, Item
<1>6. /\ Idle("main")' <=> Idle("main")
      /\ InTransfer("main")' <=> InTransfer("main")
      /\ Item("main")' = Item("main")
  BY <1>3 DEF InTransfer, Idle, Item
<1>7. Unshared'
  <2> SUFFICES ASSUME ~raced' PROVE Unshared'
    BY DEF Unshared
  <2>1. ~InTransfer("main")' /\ ~InTransfer("irq")' /\ ed' = None
    BY <1>1, <1>2, <1>5, <1>6
  <2>2. \A e \in Contexts : ~(~Idle(e)' /\ Item(e)'.op = "queue")
    BY <2>1 DEF InTransfer, Contexts
  <2>3. QED
    BY <2>1, <2>2 DEF Unshared
<1>8. Apart'
  BY <1>1, <1>5, <1>6 DEF Owned, Apart, InTransfer
<1>9. QED
  BY <1>7, <1>8 DEF Owned

(* A call of the program starts when no transfer is under way. *)
LEMMA OwnedCall ==
    ASSUME TypeOK, Jobs, Owned, NEW op, Call(op)
    PROVE  Owned'
<1>1. Idle("main") /\ Idle("irq") /\ ed' = ed /\ raced' = raced
  BY CallStep DEF Call, hc
<1>2. ed = None
  BY <1>1 DEF Owned, Apart, Appending, InTransfer
<1>3. PICK x \in Items : x.op = "irp" /\ job' = [job EXCEPT !["main"] = <<x>>]
  BY CallStep
<1>4. job'["main"] = <<x>> /\ job'["irq"] = <<>>
  BY <1>1, <1>3 DEF TypeOK, Contexts, Idle
<1>5. \A e \in Contexts : ~InTransfer(e)'
  BY <1>3, <1>4 DEF InTransfer, Idle, Item, Contexts
<1>6. \A e \in Contexts : ~(~Idle(e)' /\ Item(e)'.op = "queue")
  BY <1>5 DEF InTransfer
<1>7. Idle("irq")' /\ ed' = None
  BY <1>1, <1>2, <1>4 DEF Idle
<1>8. QED
  BY <1>5, <1>6, <1>7 DEF Owned, Unshared, Apart, InTransfer, Contexts

(* The controller only takes TDs away. *)
LEMMA OwnedSame ==
    ASSUME TypeOK, Owned, job' = job, raced' = raced,
           \/ ed' = ed
           \/ /\ ed # None /\ ed'.addr = ed.addr /\ ed'.ep = ed.ep
              /\ ed'.tds \in {ed.tds, Tail(ed.tds), <<>>} /\ ed.tds # <<>>
    PROVE  Owned'
<1>1. CASE ed' = ed
  BY <1>1 DEF Owned, Unshared, Apart, Appending, InTransfer, Idle, Item
<1>2. CASE /\ ed # None /\ ed'.addr = ed.addr /\ ed'.ep = ed.ep
           /\ ed'.tds \in {ed.tds, Tail(ed.tds), <<>>} /\ ed.tds # <<>>
  <2> DEFINE s == ed.tds
             a == ed.addr
             n == ed.ep
  <2>1. s \in Seq(Tds) /\ s # <<>> /\ a \in Addresses /\ n \in 0 .. 2
    BY <1>2 DEF TypeOK, Endpoints
  <2>2. Uniform(s, a, n) => Uniform(Tail(s), a, n) /\ Uniform(<<>>, a, n)
    <3> HIDE DEF s, a, n
    <3>1. \A i \in 1 .. Len(Tail(s)) : i + 1 \in 1 .. Len(s) /\ Tail(s)[i] = s[i + 1]
      BY <2>1
    <3>2. Len(<<>>) = 0
      OBVIOUS
    <3>3. QED
      BY <2>1, <3>1, <3>2 DEF Uniform
  <2>3. Uniform(s, a, n) => Uniform(ed'.tds, ed'.addr, ed'.ep)
    BY <1>2, <2>2
  <2>4. /\ \A e \in Contexts : (Idle(e)' <=> Idle(e)) /\ (InTransfer(e)' <=> InTransfer(e)) /\ Item(e)' = Item(e)
        /\ Appending' <=> Appending
    BY DEF InTransfer, Appending, Idle, Item
  <2>5. Unshared'
    <3> SUFFICES ASSUME ~raced PROVE Unshared'
      BY DEF Unshared
    <3>1. Uniform(s, a, n)
      BY <1>2 DEF Owned, Unshared
    <3>2. \A e \in Contexts : ~Idle(e) /\ Item(e).op = "queue" =>
             Together(Item(e).tds) /\ Uniform(Item(e).tds, ed'.addr, ed'.ep)
      BY <1>2, <2>1 DEF Owned, Unshared, Together
    <3>3. QED
      BY <1>2, <2>3, <2>4, <3>1, <3>2 DEF Owned, Unshared, Contexts
  <2>6. Apart'
    BY <1>2, <2>3, <2>4 DEF Owned, Apart, Contexts
  <2>7. QED
    BY <2>5, <2>6 DEF Owned
<1>3. QED
  BY <1>1, <1>2

-----------------------------------------------------------------------------
(* The inductive invariant. *)
Inv == TypeOK /\ Jobs /\ Registers /\ Counted /\ Alive /\ Noticed /\ Owned

-----------------------------------------------------------------------------
(* usb_init *)
LEMMA SeqOfFour ==
    ASSUME NEW S, NEW x \in S, NEW y \in S
    PROVE  LET q == <<x, y, y, y>>
           IN  q \in Seq(S) /\ Len(q) = 4 /\ q[1] = x /\ q[2] = y /\ q[3] = y /\ q[4] = y
OBVIOUS

(* The job usb_init starts with: hcdi_init and the three drivers. *)
LEMMA StartJob ==
    LET items == ConfigurePorts(TRUE) \o <<[op |-> "enable irq"], [op |-> "register"], [op |-> "register"],
                                           [op |-> "register"]>>
    IN  /\ items \in Seq(Items) /\ Len(items) = 6
        /\ items[1] = [op |-> "port", init |-> TRUE, port |-> 1]
        /\ items[2] = [op |-> "port", init |-> TRUE, port |-> 2]
        /\ items[3] = [op |-> "enable irq"]
        /\ \A i \in 4 .. 6 : items[i] = [op |-> "register"]
<1> DEFINE x == [op |-> "port", init |-> TRUE, port |-> 1]
           y == [op |-> "port", init |-> TRUE, port |-> 2]
           z == [op |-> "enable irq"]
           w == [op |-> "register"]
           a == ConfigurePorts(TRUE)
           b == <<z, w, w, w>>
           r == a \o b
<1>1. x \in Items /\ y \in Items /\ z \in Items /\ w \in Items
  BY SmallItems DEF Ports
<1>2. a = <<x, y>>
  BY DEF ConfigurePorts
<1> HIDE DEF x, y, z, w
<1>3. b \in Seq(Items) /\ Len(b) = 4 /\ b[1] = z /\ b[2] = w /\ b[3] = w /\ b[4] = w
  BY ONLY <1>1, SeqOfFour
<1>4. a \in Seq(Items) /\ Len(a) = 2 /\ a[1] = x /\ a[2] = y
  <2> HIDE DEF a
  <2>1. <<x, y>> \in Seq(Items) /\ Len(<<x, y>>) = 2 /\ <<x, y>>[1] = x /\ <<x, y>>[2] = y
    BY ONLY <1>1, SeqOfTwo
  <2>2. QED
    BY <1>2, <2>1
<1> HIDE DEF a, b
<1>5. /\ r \in Seq(Items) /\ Len(r) = Len(a) + Len(b)
      /\ \A i \in 1 .. Len(a) : r[i] = a[i]
      /\ \A i \in Len(a) + 1 .. Len(r) : r[i] = b[i - Len(a)]
  <2>1. a \in Seq(Items) /\ b \in Seq(Items)
    BY <1>3, <1>4
  <2>2. QED
    BY ONLY <2>1, Concat
<1> HIDE DEF r
<1>6. Len(r) = 6
  BY <1>3, <1>4, <1>5
<1>7. r[1] = x /\ r[2] = y
  BY <1>4, <1>5
<1>8. r[3] = z
  BY <1>3, <1>4, <1>5, <1>6
<1>9. ASSUME NEW i \in 4 .. 6 PROVE r[i] = w
  <2>1. i \in Len(a) + 1 .. Len(r) /\ i - Len(a) \in {2, 3, 4}
    BY <1>4, <1>6
  <2>2. r[i] = b[i - Len(a)]
    BY <1>5, <2>1
  <2>3. QED
    BY <1>3, <2>1, <2>2
<1>10. QED
  BY <1>5, <1>6, <1>7, <1>8, <1>9 DEF x, y, z, w, r, a, b

(* Initially the invariant holds. *)
LEMMA InitInv == Init => Inv
<1> SUFFICES ASSUME Init PROVE Inv
  OBVIOUS
<1> DEFINE q == job["main"]
<1>0. /\ rhsc = FALSE /\ ed = None /\ running = FALSE /\ halted = FALSE
      /\ dev = [d \in Devices |-> NoDevice] /\ count = 0
      /\ devices = <<>> /\ connected = [p \in Ports |-> None] /\ next = 1
      /\ drivers = 0 /\ data = [d \in ToSet(Drivers) |-> None] /\ massstorage = <<>>
      /\ gbuf = None /\ irqOn = FALSE /\ crashed = FALSE
      /\ changes = 0 /\ errors = 0 /\ reports = 0 /\ ops = 0 /\ raced = FALSE /\ missed = {}
  BY DEF Init
<1>1. /\ q \in Seq(Items) /\ Len(q) = 6 /\ job["irq"] = <<>> /\ job \in [Contexts -> Seq(Items)]
      /\ q[1].op = "port" /\ q[1].port = 1 /\ q[2].op = "port" /\ q[2].port = 2
      /\ q[3].op = "enable irq" /\ \A i \in 4 .. 6 : q[i].op = "register"
  <2> DEFINE x == [op |-> "port", init |-> TRUE, port |-> 1]
             y == [op |-> "port", init |-> TRUE, port |-> 2]
             z == [op |-> "enable irq"]
             w == [op |-> "register"]
             s == ConfigurePorts(TRUE) \o <<[op |-> "enable irq"], [op |-> "register"], [op |-> "register"],
                                            [op |-> "register"]>>
  <2>1. s \in Seq(Items) /\ Len(s) = 6 /\ s[1] = x /\ s[2] = y /\ s[3] = z /\ \A i \in 4 .. 6 : s[i] = w
    BY StartJob
  <2>2. job = [c \in Contexts |-> IF c = "irq" THEN <<>> ELSE s]
    BY DEF Init
  <2>3. /\ x.op = "port" /\ x.port = 1 /\ y.op = "port" /\ y.port = 2 /\ z.op = "enable irq" /\ w.op = "register"
    OBVIOUS
  <2> HIDE DEF s, x, y, z, w
  <2>4. job["main"] = s /\ job["irq"] = <<>>
    BY <2>2 DEF Contexts
  <2>5. <<>> \in Seq(Items)
    OBVIOUS
  <2>6. job \in [Contexts -> Seq(Items)]
    BY <2>1, <2>2, <2>5
  <2>7. QED
    BY <2>1, <2>3, <2>4, <2>6
<1> HIDE DEF q
<1>2. \A i \in 1 .. Len(q) : i = 1 \/ i = 2 \/ i = 3 \/ i \in 4 .. 6
  <2>1. Len(q) = 6
    BY <1>1
  <2>2. QED
    BY ONLY <2>1
<1>n. Len(q) = 6
  BY <1>1
<1>3. /\ port \in [Ports -> RootPorts]
      /\ port[1].dev # None => port[1].csc
      /\ port[2].dev = None
  <2>1. EmptyPort \in RootPorts
    BY UsbAssumption DEF EmptyPort, RootPorts, Addresses
  <2>2. PICK k \in Kinds \cup {None} :
           port = [p \in Ports |-> IF p = 1 /\ k # None THEN [EmptyPort EXCEPT !.dev = k, !.csc = TRUE]
                                   ELSE EmptyPort]
    BY DEF Init
  <2> DEFINE new == [EmptyPort EXCEPT !.dev = k, !.csc = TRUE]
  <2>3. new \in RootPorts /\ new.csc
    BY <2>1 DEF RootPorts
  <2>4. EmptyPort.dev = None
    BY DEF EmptyPort
  <2> HIDE DEF new
  <2>5. port[1] \in {new, EmptyPort} /\ port[2] = EmptyPort /\ port \in [Ports -> RootPorts]
    BY <2>1, <2>2, <2>3 DEF Ports, new
  <2>6. QED
    BY <2>3, <2>4, <2>5
<1>4. TypeOK
  <2>1. NoDevice \in Structs
    BY UsbAssumption DEF NoDevice, Structs, Addresses
  <2>2. dev \in [Devices -> Structs]
    BY <1>0, <2>1
  <2>3. next \in Addresses
    BY <1>0, UsbAssumption DEF Addresses
  <2>4. devices \in Seq(Devices) /\ massstorage \in Seq(Devices)
    BY <1>0
  <2>5. count \in Nat /\ drivers \in 0 .. 3 /\ changes \in Nat /\ errors \in Nat /\ reports \in Nat /\ ops \in Nat
    BY <1>0
  <2>6. /\ connected \in [Ports -> Devices \cup {Bad, None}]
        /\ data \in [ToSet(Drivers) -> Devices \cup {None}]
    BY <1>0
  <2>7. QED
    BY <1>0, <1>1, <1>3, <2>2, <2>3, <2>4, <2>5, <2>6 DEF TypeOK
<1>5. Ordered(q)
  <2> SUFFICES ASSUME NEW i \in 1 .. Len(q)
               PROVE  /\ q[i].op \in {"port", "enable irq", "register"}
                      /\ q[i].op \in {"enable irq", "register"} => \A j \in i + 1 .. Len(q) : q[j].op = "register"
                      /\ q[i].op = "port" => \A j \in i + 1 .. Len(q) : q[j].op = "port" => q[j].port # q[i].port
    BY DEF Ordered
  <2>1. CASE i = 1
    <3>1. \A j \in i + 1 .. Len(q) : j = 2 \/ j = 3 \/ j \in 4 .. 6
      BY <1>n, <2>1
    <3>2. QED
      BY <1>1, <2>1, <3>1
  <2>2. CASE i = 2
    <3>1. \A j \in i + 1 .. Len(q) : j = 3 \/ j \in 4 .. 6
      BY <1>n, <2>2
    <3>2. QED
      BY <1>1, <2>2, <3>1
  <2>3. CASE i = 3
    <3>1. \A j \in i + 1 .. Len(q) : j \in 4 .. 6
      BY <1>n, <2>3
    <3>2. QED
      BY <1>1, <2>3, <3>1
  <2>4. CASE i \in 4 .. 6
    <3>1. \A j \in i + 1 .. Len(q) : j \in 4 .. 6
      BY <1>n, <2>4
    <3>2. QED
      BY <1>1, <2>4, <3>1
  <2>5. QED
    BY <1>2, <2>1, <2>2, <2>3, <2>4
<1>6. Jobs
  <2>1. \A i \in 1 .. Len(q) : /\ q[i].op \in {"port", "enable irq", "register"}
                               /\ q[i].op = "port" => q[i].port \in {1, 2}
    BY <1>1, <1>2
  <2>2. \A i \in 1 .. Len(q) : Fits("main", q[i])
    BY <1>0, <1>3, <2>1 DEF Fits, FitsAt
  <2>3. Ordered(<<>>) /\ \A i \in 1 .. Len(<<>>) : FALSE
    BY DEF Ordered
  <2>4. QED
    BY <1>1, <1>5, <2>2, <2>3 DEF Jobs, Contexts, q
<1>7. Registers
  <2> SUFFICES ASSUME NEW i \in 1 .. Len(q), q[i].op = "register" PROVE drivers + Len(q) - i < 3
    BY DEF Registers, q
  <2>1. i \in 4 .. 6
    BY <1>1, <1>2
  <2>2. QED
    BY <1>0, <1>n, <2>1
<1>8. ~Idle("main") /\ Idle("irq") /\ Item("main").op = "port"
  <2>1. q # <<>> /\ Head(q) = q[1]
    <3>1. q \in Seq(Items) /\ Len(q) = 6
      BY <1>1
    <3>2. QED
      BY ONLY <3>1
  <2>2. QED
    BY <1>1, <2>1 DEF Idle, Item, q
<1>9. Counted
  <2>1. Pending(1) \in {0, 1} /\ Pending(2) = 0 /\ InHand("main") = 0 /\ InHand("irq") = 0
    BY <1>3, <1>8 DEF Pending, InHand
  <2>2. QED
    BY <1>0, <2>1, UsbAssumption DEF Counted
<1>10. Alive
  <2>1. ToSet(<<>>) = {} /\ \A d \in Devices : ~dev[d].live
    BY <1>0 DEF ToSet, NoDevice
  <2>2. data["hidkb"] = None
    BY <1>0, DriversAre
  <2>3. QED
    BY <1>0, <2>1, <2>2 DEF Alive
<1>11. Noticed
  <2>1. \A p \in Ports : Awaits(q, p)
    <3>1. 1 \in 1 .. Len(q) /\ 2 \in 1 .. Len(q)
      BY <1>n
    <3>2. QED
      BY <1>1, <3>1 DEF Awaits, Ports
  <2>2. QED
    BY <1>0, <1>8, <2>1 DEF Noticed, q
<1>12. Owned
  BY <1>0, <1>8 DEF Owned, Unshared, Apart, InTransfer, Contexts
<1>13. QED
  BY <1>4, <1>6, <1>7, <1>9, <1>10, <1>11, <1>12 DEF Inv

-----------------------------------------------------------------------------
(* The steps of a context that look at no port. *)
LEMMA QuietStep ==
    ASSUME Inv, TypeOK', Jobs', NEW c \in Contexts, Runs(c), Follows(job'[c], job[c]),
           \A e \in Contexts : e # c => job'[e] = job[e],
           Item(c).op # "port", UNCHANGED <<rhsc, irqOn, missed, changes>>,
           \A q \in Ports : port'[q].dev = port[q].dev /\ port'[q].csc = port[q].csc,
           count' = count \/ (Item(c).op = "reset" /\ count' = count + 1),
           drivers' = drivers \/ (c = "main" /\ Item(c).op = "register" /\ drivers' = drivers + 1),
           Alive', Owned'
    PROVE  Inv'
<1>1. TypeOK /\ Jobs /\ Registers /\ Counted /\ Noticed /\ job[c] # <<>>
  BY DEF Inv, Runs, Idle
<1>2. Registers'
  BY <1>1, RegistersKept
<1>3. Counted'
  BY <1>1, CountedContext
<1>4. Noticed'
  BY <1>1, NoticedKept
<1>5. QED
  BY <1>2, <1>3, <1>4 DEF Inv

(* usb_submit_irp preserves the invariant. *)
LEMMA SubmitInv ==
    ASSUME Inv, NEW c \in Contexts, Submit(c)
    PROVE  Inv'
<1>1. TypeOK /\ Jobs /\ Registers /\ Counted /\ Alive /\ Owned
  BY DEF Inv
<1>2. Runs(c) /\ Item(c).op = "irp" /\ job[c] # <<>>
  BY DEF Submit, At, Runs, Idle
<1>3. UNCHANGED <<rhsc, irqOn, missed, changes, raced>>
  BY DEF Submit, core
<1>4. TypeOK' /\ Jobs' /\ Advances(c)
  BY <1>1, <1>2, SubmitStep, JobsSteady
<1>5. Follows(job'[c], job[c]) /\ \A e \in Contexts : e # c => job'[e] = job[e]
  BY <1>1, <1>2, <1>4, AdvanceFollows
<1>6. port' = port /\ count' = count /\ drivers' = drivers
  BY DEF Submit, core
<1>7. Alive'
  <2>1. \A d \in Devices : dev'[d].live = dev[d].live
    BY <1>1, SubmitStep
  <2>2. devices' = devices /\ data' = data
    BY DEF Submit, core
  <2>3. drivers' \in Nat /\ drivers' >= drivers
    BY <1>1, <1>6 DEF TypeOK
  <2>4. QED
    BY <1>1, <1>6, <2>1, <2>2, <2>3, AliveSame
<1>8. Owned'
  BY <1>1, OwnedSubmit
<1>9. QED
  BY <1>2, <1>3, <1>4, <1>5, <1>6, <1>7, <1>8, QuietStep

(* hcdi_enqueue preserves the invariant. *)
LEMMA EnqueueInv ==
    ASSUME Inv, NEW c \in Contexts, Enqueue(c)
    PROVE  Inv'
<1>1. TypeOK /\ Jobs /\ Registers /\ Counted /\ Alive /\ Owned
  BY DEF Inv
<1>2. Runs(c) /\ Item(c).op = "queue" /\ job[c] # <<>>
  BY DEF Enqueue, At, Runs, Idle
<1>3. UNCHANGED <<rhsc, irqOn, missed, changes, raced>>
  BY DEF Enqueue, core
<1>4. TypeOK' /\ Jobs' /\ Advances(c)
  BY <1>1, <1>2, EnqueueStep, JobsSteady
<1>5. Follows(job'[c], job[c]) /\ \A e \in Contexts : e # c => job'[e] = job[e]
  BY <1>1, <1>2, <1>4, AdvanceFollows
<1>6. port' = port /\ count' = count /\ drivers' = drivers
  BY DEF Enqueue, core
<1>7. Alive'
  <2>1. \A d \in Devices : dev'[d].live = dev[d].live
    BY DEF Enqueue, core
  <2>2. devices' = devices /\ data' = data
    BY DEF Enqueue, core
  <2>3. drivers' \in Nat /\ drivers' >= drivers
    BY <1>1, <1>6 DEF TypeOK
  <2>4. QED
    BY <1>1, <1>6, <2>1, <2>2, <2>3, AliveSame
<1>8. Owned'
  BY <1>1, OwnedEnqueue
<1>9. QED
  BY <1>2, <1>3, <1>4, <1>5, <1>6, <1>7, <1>8, QuietStep

(* Handing the list to the controller preserves the invariant. *)
LEMMA FireInv ==
    ASSUME Inv, NEW c \in Contexts, Fire(c)
    PROVE  Inv'
<1>1. TypeOK /\ Jobs /\ Registers /\ Counted /\ Alive /\ Owned
  BY DEF Inv
<1>2. Runs(c) /\ Item(c).op = "queue" /\ job[c] # <<>>
  BY DEF Fire, At, Runs, Idle
<1>3. UNCHANGED <<rhsc, irqOn, missed, changes, raced>>
  BY DEF Fire, core
<1>4. TypeOK' /\ Jobs' /\ Advances(c)
  BY <1>1, <1>2, FireStep, JobsSteady
<1>5. Follows(job'[c], job[c]) /\ \A e \in Contexts : e # c => job'[e] = job[e]
  BY <1>1, <1>2, <1>4, AdvanceFollows
<1>6. port' = port /\ count' = count /\ drivers' = drivers
  BY DEF Fire, core
<1>7. Alive'
  <2>1. \A d \in Devices : dev'[d].live = dev[d].live
    BY DEF Fire, core
  <2>2. devices' = devices /\ data' = data
    BY DEF Fire, core
  <2>3. drivers' \in Nat /\ drivers' >= drivers
    BY <1>1, <1>6 DEF TypeOK
  <2>4. QED
    BY <1>1, <1>6, <2>1, <2>2, <2>3, AliveSame
<1>8. Owned'
  BY <1>1, OwnedFire
<1>9. QED
  BY <1>2, <1>3, <1>4, <1>5, <1>6, <1>7, <1>8, QuietStep

(* The end of hcdi_fire preserves the invariant. *)
LEMMA FireEndsInv ==
    ASSUME Inv, NEW c \in Contexts, FireEnds(c)
    PROVE  Inv'
<1>1. TypeOK /\ Jobs /\ Registers /\ Counted /\ Alive /\ Owned
  BY DEF Inv
<1>2. Runs(c) /\ Item(c).op = "poll" /\ job[c] # <<>>
  BY DEF FireEnds, At, Runs, Idle
<1>3. UNCHANGED <<rhsc, irqOn, missed, changes, raced>>
  BY DEF FireEnds, core
<1>4. TypeOK' /\ Jobs' /\ Advances(c)
  BY <1>1, <1>2, FireEndsStep, JobsSteady
<1>5. Follows(job'[c], job[c]) /\ \A e \in Contexts : e # c => job'[e] = job[e]
  BY <1>1, <1>2, <1>4, AdvanceFollows
<1>6. port' = port /\ count' = count /\ drivers' = drivers
  BY DEF FireEnds, core
<1>7. Alive'
  <2>1. \A d \in Devices : dev'[d].live = dev[d].live
    BY DEF FireEnds, core
  <2>2. devices' = devices /\ data' = data
    BY DEF FireEnds, core
  <2>3. drivers' \in Nat /\ drivers' >= drivers
    BY <1>1, <1>6 DEF TypeOK
  <2>4. QED
    BY <1>1, <1>6, <2>1, <2>2, <2>3, AliveSame
<1>8. Owned'
  BY <1>1, OwnedFire
<1>9. QED
  BY <1>2, <1>3, <1>4, <1>5, <1>6, <1>7, <1>8, QuietStep

(* So does its end when the list it polls is not its own. *)
LEMMA FireEndsWildInv ==
    ASSUME Inv, NEW c \in Contexts, FireEndsWild(c)
    PROVE  Inv'
<1>1. TypeOK /\ Jobs /\ Registers /\ Counted /\ Alive /\ Owned
  BY DEF Inv
<1>2. Runs(c) /\ Item(c).op = "poll" /\ job[c] # <<>>
  BY DEF FireEndsWild, At, Runs, Idle
<1>3. UNCHANGED <<rhsc, irqOn, missed, changes, raced>>
  BY DEF FireEndsWild, core, hc
<1>4. TypeOK' /\ Jobs' /\ Advances(c)
  BY <1>1, <1>2, FireEndsStep, JobsSteady
<1>5. Follows(job'[c], job[c]) /\ \A e \in Contexts : e # c => job'[e] = job[e]
  BY <1>1, <1>2, <1>4, AdvanceFollows
<1>6. port' = port /\ count' = count /\ drivers' = drivers
  BY DEF FireEndsWild, core, hc
<1>7. Alive'
  <2>1. \A d \in Devices : dev'[d].live = dev[d].live
    BY DEF FireEndsWild, core, hc
  <2>2. devices' = devices /\ data' = data
    BY DEF FireEndsWild, core, hc
  <2>3. drivers' \in Nat /\ drivers' >= drivers
    BY <1>1, <1>6 DEF TypeOK
  <2>4. QED
    BY <1>1, <1>6, <2>1, <2>2, <2>3, AliveSame
<1>8. Owned'
  BY <1>1, OwnedFire
<1>9. QED
  BY <1>2, <1>3, <1>4, <1>5, <1>6, <1>7, <1>8, QuietStep

(* setup_port: enabling the port. *)
LEMMA EnablePortInv ==
    ASSUME Inv, NEW c \in Contexts, EnablePort(c)
    PROVE  Inv'
<1>1. TypeOK /\ Jobs /\ Registers /\ Counted /\ Alive /\ Owned
  BY DEF Inv
<1>2. Runs(c) /\ Item(c).op = "enable" /\ job[c] # <<>>
  BY DEF EnablePort, At, Runs, Idle
<1>3. UNCHANGED <<rhsc, irqOn, missed, changes, raced>>
  BY DEF EnablePort
<1>4. TypeOK' /\ Jobs' /\ Advances(c)
  BY <1>1, EnablePortStep
<1>5. Follows(job'[c], job[c]) /\ \A e \in Contexts : e # c => job'[e] = job[e]
  BY <1>1, <1>2, <1>4, AdvanceFollows
<1>6. /\ \A q \in Ports : port'[q].dev = port[q].dev /\ port'[q].csc = port[q].csc
      /\ count' = count /\ drivers' = drivers /\ ed' = ed
  BY <1>1, EnablePortStep DEF EnablePort
<1>7. Alive'
  <2>1. Item(c).port \in Ports
    BY <1>1, <1>2, HeadFits, ItemTypes
  <2>2. UNCHANGED <<connected, data, devices, dev, crashed>> \/ Forget(Item(c).port)
    BY <1>1, EnablePortStep
  <2>3. QED
    BY <1>1, <1>6, <2>1, <2>2, AliveForget
<1>8. Owned'
  BY <1>1, <1>2, <1>3, <1>5, <1>6, OwnedKept
<1>9. QED
  BY <1>2, <1>3, <1>4, <1>5, <1>6, <1>7, <1>8, QuietStep

(* setup_port: the port is reset, usb_add_device starts. *)
LEMMA PortResetInv ==
    ASSUME Inv, NEW c \in Contexts, PortReset(c)
    PROVE  Inv'
<1>1. TypeOK /\ Jobs /\ Registers /\ Counted /\ Alive /\ Owned
  BY DEF Inv
<1>2. Runs(c) /\ Item(c).op = "reset" /\ job[c] # <<>>
  BY DEF PortReset, At, Runs, Idle
<1>3. UNCHANGED <<rhsc, irqOn, missed, changes, raced>>
  BY DEF PortReset
<1>4. TypeOK' /\ Jobs' /\ Advances(c)
  BY <1>1, PortResetStep
<1>5. Follows(job'[c], job[c]) /\ \A e \in Contexts : e # c => job'[e] = job[e]
  BY <1>1, <1>2, <1>4, AdvanceFollows
<1>6. /\ \A q \in Ports : port'[q].dev = port[q].dev /\ port'[q].csc = port[q].csc
      /\ count' = count + 1 /\ drivers' = drivers /\ ed' = ed
  BY <1>1, PortResetStep DEF PortReset
<1>7. Alive'
  <2>1. count + 1 \in Devices /\ \A d \in Devices : d # count + 1 => dev'[d] = dev[d]
    BY <1>1, PortResetStep
  <2>2. UNCHANGED <<devices, data, drivers>>
    BY DEF PortReset
  <2>3. QED
    BY <1>1, <1>6, <2>1, <2>2, AliveReset
<1>8. Owned'
  BY <1>1, <1>2, <1>3, <1>5, <1>6, OwnedKept
<1>9. QED
  BY <1>2, <1>3, <1>4, <1>5, <1>6, <1>7, <1>8, QuietStep

(* usb_set_address. *)
LEMMA AddressedInv ==
    ASSUME Inv, NEW c \in Contexts, Addressed(c)
    PROVE  Inv'
<1>1. TypeOK /\ Jobs /\ Registers /\ Counted /\ Alive /\ Owned
  BY DEF Inv
<1>2. Runs(c) /\ Item(c).op = "addressed" /\ job[c] # <<>>
  BY DEF Addressed, At, Runs, Idle
<1>3. UNCHANGED <<rhsc, irqOn, missed, changes, raced>>
  BY DEF Addressed, hc
<1>4. TypeOK' /\ Jobs' /\ Advances(c)
  BY <1>1, <1>2, AddressedStep, JobsSteady
<1>5. Follows(job'[c], job[c]) /\ \A e \in Contexts : e # c => job'[e] = job[e]
  BY <1>1, <1>2, <1>4, AdvanceFollows
<1>6. port' = port /\ count' = count /\ drivers' = drivers /\ ed' = ed
  BY DEF Addressed, hc
<1>7. Alive'
  <2>1. \A d \in Devices : dev'[d].live = dev[d].live
    BY <1>1, AddressedStep
  <2>2. devices' = devices /\ data' = data
    BY DEF Addressed, hc
  <2>3. drivers' \in Nat /\ drivers' >= drivers
    BY <1>1, <1>6 DEF TypeOK
  <2>4. QED
    BY <1>1, <1>6, <2>1, <2>2, <2>3, AliveSame
<1>8. Owned'
  BY <1>1, <1>2, <1>3, <1>5, <1>6, OwnedKept
<1>9. QED
  BY <1>2, <1>3, <1>4, <1>5, <1>6, <1>7, <1>8, QuietStep

(* usb_get_desc_config_ext. *)
LEMMA ParseInv ==
    ASSUME Inv, NEW c \in Contexts, Parse(c)
    PROVE  Inv'
<1>1. TypeOK /\ Jobs /\ Registers /\ Counted /\ Alive /\ Owned
  BY DEF Inv
<1>2. Runs(c) /\ Item(c).op = "parse" /\ job[c] # <<>>
  BY DEF Parse, At, Runs, Idle
<1>3. UNCHANGED <<rhsc, irqOn, missed, changes, raced>>
  BY DEF Parse, hc
<1>4. TypeOK' /\ Jobs' /\ Advances(c)
  BY <1>1, <1>2, ParseStep, JobsSteady
<1>5. Follows(job'[c], job[c]) /\ \A e \in Contexts : e # c => job'[e] = job[e]
  BY <1>1, <1>2, <1>4, AdvanceFollows
<1>6. port' = port /\ count' = count /\ drivers' = drivers /\ ed' = ed
  BY DEF Parse, hc
<1>7. Alive'
  <2>1. \A d \in Devices : dev'[d].live = dev[d].live
    BY <1>1, ParseStep
  <2>2. devices' = devices /\ data' = data
    BY DEF Parse, hc
  <2>3. drivers' \in Nat /\ drivers' >= drivers
    BY <1>1, <1>6 DEF TypeOK
  <2>4. QED
    BY <1>1, <1>6, <2>1, <2>2, <2>3, AliveSame
<1>8. Owned'
  BY <1>1, <1>2, <1>3, <1>5, <1>6, OwnedKept
<1>9. QED
  BY <1>2, <1>3, <1>4, <1>5, <1>6, <1>7, <1>8, QuietStep

(* list_add_tail. *)
LEMMA ListDeviceInv ==
    ASSUME Inv, NEW c \in Contexts, ListDevice(c)
    PROVE  Inv'
<1>1. TypeOK /\ Jobs /\ Registers /\ Counted /\ Alive /\ Owned
  BY DEF Inv
<1>2. Runs(c) /\ Item(c).op = "list" /\ job[c] # <<>>
  BY DEF ListDevice, At, Runs, Idle
<1>3. UNCHANGED <<rhsc, irqOn, missed, changes, raced>>
  BY DEF ListDevice, hc
<1>4. TypeOK' /\ Jobs' /\ Advances(c)
  BY <1>1, ListDeviceStep
<1>5. Follows(job'[c], job[c]) /\ \A e \in Contexts : e # c => job'[e] = job[e]
  BY <1>1, <1>2, <1>4, AdvanceFollows
<1>6. port' = port /\ count' = count /\ drivers' = drivers /\ ed' = ed
  BY DEF ListDevice, hc
<1>7. Alive'
  BY <1>1, AliveList
<1>8. Owned'
  BY <1>1, <1>2, <1>3, <1>5, <1>6, OwnedKept
<1>9. QED
  BY <1>2, <1>3, <1>4, <1>5, <1>6, <1>7, <1>8, QuietStep

(* configure_ports: the device is connected. *)
LEMMA ConnectInv ==
    ASSUME Inv, NEW c \in Contexts, Connect(c)
    PROVE  Inv'
<1>1. TypeOK /\ Jobs /\ Registers /\ Counted /\ Alive /\ Owned
  BY DEF Inv
<1>2. Runs(c) /\ Item(c).op = "connect" /\ job[c] # <<>>
  BY DEF Connect, At, Runs, Idle
<1>3. UNCHANGED <<rhsc, irqOn, missed, changes, raced>>
  BY DEF Connect, hc
<1>4. TypeOK' /\ Jobs' /\ Advances(c)
  BY <1>1, <1>2, ConnectStep, JobsSteady
<1>5. Follows(job'[c], job[c]) /\ \A e \in Contexts : e # c => job'[e] = job[e]
  BY <1>1, <1>2, <1>4, AdvanceFollows
<1>6. port' = port /\ count' = count /\ drivers' = drivers /\ ed' = ed
  BY DEF Connect, hc
<1>7. Alive'
  <2>1. \A d \in Devices : dev'[d].live = dev[d].live
    BY DEF Connect, hc
  <2>2. devices' = devices /\ data' = data
    BY DEF Connect, hc
  <2>3. drivers' \in Nat /\ drivers' >= drivers
    BY <1>1, <1>6 DEF TypeOK
  <2>4. QED
    BY <1>1, <1>6, <2>1, <2>2, <2>3, AliveSame
<1>8. Owned'
  BY <1>1, <1>2, <1>3, <1>5, <1>6, OwnedKept
<1>9. QED
  BY <1>2, <1>3, <1>4, <1>5, <1>6, <1>7, <1>8, QuietStep

(* usb_probe_driver. *)
LEMMA ProbeInv ==
    ASSUME Inv, NEW c \in Contexts, Probe(c)
    PROVE  Inv'
<1>1. TypeOK /\ Jobs /\ Registers /\ Counted /\ Alive /\ Owned
  BY DEF Inv
<1>2. Runs(c) /\ Item(c).op = "probe" /\ job[c] # <<>>
  BY DEF Probe, At, Runs, Idle
<1>3. UNCHANGED <<rhsc, irqOn, missed, changes, raced>>
  BY DEF Probe, hc
<1>4. TypeOK' /\ Jobs' /\ Advances(c)
  BY <1>1, ProbeStep
<1>5. Follows(job'[c], job[c]) /\ \A e \in Contexts : e # c => job'[e] = job[e]
  BY <1>1, <1>2, <1>4, AdvanceFollows
<1>6. port' = port /\ count' = count /\ drivers' = drivers /\ ed' = ed
  BY DEF Probe, hc
<1>7. Alive'
  BY <1>1, AliveProbe
<1>8. Owned'
  BY <1>1, <1>2, <1>3, <1>5, <1>6, OwnedKept
<1>9. QED
  BY <1>2, <1>3, <1>4, <1>5, <1>6, <1>7, <1>8, QuietStep

(* usb_storage_probe: a disk is found. *)
LEMMA FoundInv ==
    ASSUME Inv, NEW c \in Contexts, Found(c)
    PROVE  Inv'
<1>1. TypeOK /\ Jobs /\ Registers /\ Counted /\ Alive /\ Owned
  BY DEF Inv
<1>2. Runs(c) /\ Item(c).op = "found" /\ job[c] # <<>>
  BY DEF Found, At, Runs, Idle
<1>3. UNCHANGED <<rhsc, irqOn, missed, changes, raced>>
  BY DEF Found, hc
<1>4. TypeOK' /\ Jobs' /\ Advances(c)
  BY <1>1, <1>2, FoundStep, JobsSteady
<1>5. Follows(job'[c], job[c]) /\ \A e \in Contexts : e # c => job'[e] = job[e]
  BY <1>1, <1>2, <1>4, AdvanceFollows
<1>6. port' = port /\ count' = count /\ drivers' = drivers /\ ed' = ed
  BY DEF Found, hc
<1>7. Alive'
  <2>1. \A d \in Devices : dev'[d].live = dev[d].live
    BY DEF Found, hc
  <2>2. devices' = devices /\ data' = data
    BY DEF Found, hc
  <2>3. drivers' \in Nat /\ drivers' >= drivers
    BY <1>1, <1>6 DEF TypeOK
  <2>4. QED
    BY <1>1, <1>6, <2>1, <2>2, <2>3, AliveSame
<1>8. Owned'
  BY <1>1, <1>2, <1>3, <1>5, <1>6, OwnedKept
<1>9. QED
  BY <1>2, <1>3, <1>4, <1>5, <1>6, <1>7, <1>8, QuietStep

(* usb_storage_probe: the first disk is read. *)
LEMMA TryInv ==
    ASSUME Inv, NEW c \in Contexts, Try(c)
    PROVE  Inv'
<1>1. TypeOK /\ Jobs /\ Registers /\ Counted /\ Alive /\ Owned
  BY DEF Inv
<1>2. Runs(c) /\ Item(c).op = "try" /\ job[c] # <<>>
  BY DEF Try, At, Runs, Idle
<1>3. UNCHANGED <<rhsc, irqOn, missed, changes, raced>>
  BY DEF Try, hc, core
<1>4. TypeOK' /\ Jobs' /\ Advances(c)
  BY <1>1, TryStep
<1>5. Follows(job'[c], job[c]) /\ \A e \in Contexts : e # c => job'[e] = job[e]
  BY <1>1, <1>2, <1>4, AdvanceFollows
<1>6. port' = port /\ count' = count /\ drivers' = drivers /\ ed' = ed
  BY DEF Try, hc, core
<1>7. Alive'
  <2>1. \A d \in Devices : dev'[d].live = dev[d].live
    BY DEF Try, hc, core
  <2>2. devices' = devices /\ data' = data
    BY DEF Try, hc, core
  <2>3. drivers' \in Nat /\ drivers' >= drivers
    BY <1>1, <1>6 DEF TypeOK
  <2>4. QED
    BY <1>1, <1>6, <2>1, <2>2, <2>3, AliveSame
<1>8. Owned'
  BY <1>1, <1>2, <1>3, <1>5, <1>6, OwnedKept
<1>9. QED
  BY <1>2, <1>3, <1>4, <1>5, <1>6, <1>7, <1>8, QuietStep

(* usb_register_driver. *)
LEMMA RegisterInv ==
    ASSUME Inv, NEW c \in Contexts, Register(c)
    PROVE  Inv'
<1>1. TypeOK /\ Jobs /\ Registers /\ Counted /\ Alive /\ Owned
  BY DEF Inv
<1>2. Runs(c) /\ Item(c).op = "register" /\ job[c] # <<>>
  BY DEF Register, At, Runs, Idle
<1>3. UNCHANGED <<rhsc, irqOn, missed, changes, raced>>
  BY DEF Register, hc
<1>4. TypeOK' /\ Jobs' /\ Advances(c)
  BY <1>1, RegisterStep
<1>5. Follows(job'[c], job[c]) /\ \A e \in Contexts : e # c => job'[e] = job[e]
  BY <1>1, <1>2, <1>4, AdvanceFollows
<1>6. port' = port /\ count' = count /\ c = "main" /\ drivers' = drivers + 1 /\ ed' = ed
  BY <1>1, RegisterStep DEF Register, hc
<1>7. Alive'
  <2>1. \A d \in Devices : dev'[d].live = dev[d].live
    BY DEF Register, hc
  <2>2. devices' = devices /\ data' = data
    BY DEF Register, hc
  <2>3. drivers' \in Nat /\ drivers' >= drivers
    BY <1>1, <1>6 DEF TypeOK
  <2>4. QED
    BY <1>1, <1>6, <2>1, <2>2, <2>3, AliveSame
<1>8. Owned'
  BY <1>1, <1>2, <1>3, <1>5, <1>6, OwnedKept
<1>9. QED
  BY <1>2, <1>3, <1>4, <1>5, <1>6, <1>7, <1>8, QuietStep

(* usb_get_desc_dev_simple, with the early return of usb_add_device. *)
LEMMA CheckInv ==
    ASSUME Inv, NEW c \in Contexts, Check(c)
    PROVE  Inv'
<1>1. TypeOK /\ Jobs /\ Registers /\ Counted /\ Alive /\ Owned
  BY DEF Inv
<1>2. Runs(c) /\ Item(c).op = "check" /\ job[c] # <<>>
  BY DEF Check, At, Runs, Idle
<1>3. UNCHANGED <<rhsc, irqOn, missed, changes, raced>>
  BY DEF Check, hc
<1>4. TypeOK' /\ Jobs'
  BY <1>1, CheckStep
<1>5. Follows(job'[c], job[c]) /\ \A e \in Contexts : e # c => job'[e] = job[e]
  BY <1>1, CheckFollows
<1>6. port' = port /\ count' = count /\ drivers' = drivers /\ ed' = ed
  BY DEF Check, hc
<1>7. Alive'
  <2>1. \A d \in Devices : dev'[d].live = dev[d].live
    BY DEF Check, hc
  <2>2. devices' = devices /\ data' = data
    BY DEF Check, hc
  <2>3. drivers' \in Nat /\ drivers' >= drivers
    BY <1>1, <1>6 DEF TypeOK
  <2>4. QED
    BY <1>1, <1>6, <2>1, <2>2, <2>3, AliveSame
<1>8. Owned'
  BY <1>1, <1>2, <1>3, <1>5, <1>6, OwnedKept
<1>9. QED
  BY <1>2, <1>3, <1>4, <1>5, <1>6, <1>7, <1>8, QuietStep

(* configure_ports and setup_port. *)
LEMMA SetupPortInv ==
    ASSUME Inv, NEW c \in Contexts, SetupPort(c)
    PROVE  Inv'
<1>1. TypeOK /\ Jobs /\ Registers /\ Counted /\ Alive /\ Noticed /\ Owned
  BY DEF Inv
<1>2. Runs(c) /\ Item(c).op = "port" /\ job[c] # <<>>
  BY DEF SetupPort, At, Runs, Idle
<1>3. UNCHANGED <<rhsc, irqOn, missed, changes, raced, count, drivers, ed>>
  BY DEF SetupPort
<1>4. TypeOK' /\ Jobs' /\ Advances(c)
  BY <1>1, SetupPortStep
<1>5. Follows(job'[c], job[c]) /\ \A e \in Contexts : e # c => job'[e] = job[e]
  BY <1>1, <1>2, <1>4, AdvanceFollows
<1>6. Alive'
  <2>1. Item(c).port \in Ports
    BY <1>1, <1>2, HeadFits, ItemTypes
  <2>2. UNCHANGED <<connected, data, devices, dev, crashed>> \/ Forget(Item(c).port)
    BY DEF SetupPort
  <2>3. QED
    BY <1>1, <1>3, <2>1, <2>2, AliveForget
<1>7. Owned'
  BY <1>1, <1>2, <1>3, <1>5, OwnedKept
<1>8. Registers'
  BY <1>1, <1>2, <1>3, <1>4, <1>5, RegistersKept
<1>9. Counted'
  BY <1>1, <1>2, <1>3, <1>4, <1>5, CountedContext
<1>10. Noticed'
  BY <1>1, <1>2, <1>3, <1>4, <1>5, NoticedKept
<1>11. QED
  BY <1>4, <1>6, <1>7, <1>8, <1>9, <1>10 DEF Inv

(* The end of hcdi_init and that of hcdi_irq. *)
LEMMA EnableInv ==
    ASSUME Inv, NEW c \in Contexts, Enable(c) \/ Acknowledge(c)
    PROVE  Inv'
<1>1. TypeOK /\ Jobs /\ Registers /\ Counted /\ Alive /\ Noticed /\ Owned
  BY DEF Inv
<1>2. Runs(c) /\ Item(c).op \in {"enable irq", "ack"} /\ job[c] # <<>>
  BY DEF Enable, Acknowledge, At, Runs, Idle
<1>3. UNCHANGED <<port, missed, changes, raced, count, drivers, dev, devices, data, ed>>
  BY DEF Enable, Acknowledge, hc, core
<1>4. TypeOK' /\ Jobs' /\ Advances(c)
  BY <1>1, <1>2, EnableStep, AcknowledgeStep, JobsSteady
<1>5. Follows(job'[c], job[c]) /\ \A e \in Contexts : e # c => job'[e] = job[e]
  BY <1>1, <1>2, <1>4, AdvanceFollows
<1>6. Alive'
  BY <1>1, <1>3 DEF Alive
<1>7. Owned'
  BY <1>1, <1>2, <1>3, <1>5, OwnedKept
<1>8. Registers'
  BY <1>1, <1>2, <1>3, <1>4, <1>5, RegistersKept
<1>9. Counted'
  BY <1>1, <1>2, <1>3, <1>4, <1>5, CountedContext
<1>10. Noticed'
  BY <1>1, NoticedEnable, NoticedAcknowledge
<1>11. QED
  BY <1>4, <1>6, <1>7, <1>8, <1>9, <1>10 DEF Inv

(* A call of the program: a key or a sector is read. *)
LEMMA CallInv ==
    ASSUME Inv, NEW op, Call(op)
    PROVE  Inv'
<1>1. TypeOK /\ Jobs /\ Registers /\ Counted /\ Alive /\ Noticed /\ Owned
  BY DEF Inv
<1>2. UNCHANGED <<port, changes, count, drivers, dev, devices, data>>
  BY DEF Call, hc, core
<1>3. Idle("main") /\ Idle("irq") /\ TypeOK' /\ Jobs'
  BY <1>1, CallStep
<1>4. PICK x \in Items : x.op = "irp" /\ job' = [job EXCEPT !["main"] = <<x>>]
  BY <1>1, CallStep
<1>5. job'["main"] = <<x>> /\ job'["irq"] = <<>>
  BY <1>1, <1>3, <1>4 DEF TypeOK, Contexts, Idle
<1>6. Registers'
  <2>1. \A i \in 1 .. Len(<<x>>) : <<x>>[i].op # "register"
    BY <1>4, SeqOfOne
  <2>2. QED
    BY <1>5, <2>1 DEF Registers
<1>7. Counted'
  <2>1. InHand("main")' = 0 /\ InHand("irq")' = 0 /\ InHand("main") = 0 /\ InHand("irq") = 0
    BY <1>3, <1>4, <1>5 DEF InHand, Idle, Item
  <2>2. Pending(1)' = Pending(1) /\ Pending(2)' = Pending(2)
    BY <1>2 DEF Pending
  <2>3. QED
    BY <1>1, <1>2, <2>1, <2>2 DEF Counted
<1>8. Alive'
  BY <1>1, <1>2 DEF Alive
<1>9. Noticed' /\ Owned'
  BY <1>1, NoticedCall, OwnedCall
<1>10. QED
  BY <1>3, <1>6, <1>7, <1>8, <1>9 DEF Inv

(* The interrupt of the root hub. *)
LEMMA HandlerInv ==
    ASSUME Inv, HcdiIrq
    PROVE  Inv'
<1>1. TypeOK /\ Jobs /\ Registers /\ Counted /\ Alive /\ Noticed /\ Owned
  BY DEF Inv
<1>2. UNCHANGED <<port, changes, count, drivers, dev, devices, data>> /\ Idle("irq")
  BY DEF HcdiIrq, hc, core
<1>3. TypeOK' /\ Jobs'
  BY <1>1, HcdiIrqStep
<1> DEFINE items == ConfigurePorts(FALSE) \o <<[op |-> "ack"]>>
<1>4. job'["irq"] = items /\ job'["main"] = job["main"]
  <2>1. job' = [job EXCEPT !["irq"] = items]
    BY <1>1, HcdiIrqStep
  <2> HIDE DEF items
  <2>2. QED
    BY <1>1, <2>1 DEF TypeOK, Contexts
<1>5. Head(items).op = "port"
  <2> DEFINE x == [op |-> "port", init |-> FALSE, port |-> 1]
  <2>1. items \in Seq(Items) /\ Len(items) = 3 /\ items[1] = x
    BY HandlerJob
  <2>2. x.op = "port"
    OBVIOUS
  <2> HIDE DEF items, x
  <2>3. Head(items) = items[1]
    BY <2>1
  <2>4. QED
    BY <2>1, <2>2, <2>3
<1> HIDE DEF items
<1>6. Registers'
  BY <1>1, <1>2, <1>4 DEF Registers
<1>7. Counted'
  <2>1. InHand("irq")' = 0 /\ InHand("irq") = 0 /\ InHand("main")' = InHand("main")
    BY <1>2, <1>4, <1>5 DEF InHand, Idle, Item
  <2>2. Pending(1)' = Pending(1) /\ Pending(2)' = Pending(2)
    BY <1>2 DEF Pending
  <2>3. QED
    BY <1>1, <1>2, <2>1, <2>2 DEF Counted
<1>8. Alive'
  BY <1>1, <1>2 DEF Alive
<1>9. Noticed' /\ Owned'
  BY <1>1, NoticedHandler, OwnedHandler
<1>10. QED
  BY <1>3, <1>6, <1>7, <1>8, <1>9 DEF Inv

(* The controller and the keys. *)
LEMMA ControllerInv ==
    ASSUME Inv, Executes \/ Halts \/ \E p \in Ports : Press(p)
    PROVE  Inv'
<1>1. TypeOK /\ Jobs /\ Registers /\ Counted /\ Alive /\ Noticed /\ Owned
  BY DEF Inv
<1>2. UNCHANGED <<rhsc, irqOn, missed, raced, changes, count, drivers, dev, devices, data, job>>
  BY DEF Executes, Halts, Press, core
<1>3. TypeOK' /\ Jobs' /\ \A q \in Ports : port'[q].dev = port[q].dev /\ port'[q].csc = port[q].csc
  <2>1. CASE Executes
    BY <1>1, <2>1, ExecutesStep
  <2>2. CASE Halts
    BY <1>1, <2>2, HaltsStep DEF Halts
  <2>3. CASE \E p \in Ports : Press(p)
    BY <1>1, <2>3, PressStep
  <2>4. QED
    BY <2>1, <2>2, <2>3
<1>4. Registers'
  BY <1>1, <1>2 DEF Registers
<1>5. Counted'
  <2>1. InHand("irq")' = InHand("irq") /\ InHand("main")' = InHand("main")
    BY <1>2 DEF InHand, Idle, Item
  <2>2. Pending(1)' = Pending(1) /\ Pending(2)' = Pending(2)
    BY <1>3, PortsSame
  <2>3. QED
    BY <1>1, <1>2, <2>1, <2>2 DEF Counted
<1>6. Alive'
  BY <1>1, <1>2 DEF Alive
<1>7. Noticed'
  BY <1>1, <1>2, <1>3, NoticedSame
<1>8. Owned'
  <2>1. CASE Executes
    <3>1. /\ ed # None /\ ed.tds # <<>> /\ ed'.addr = ed.addr /\ ed'.ep = ed.ep
          /\ ed'.tds \in {ed.tds, Tail(ed.tds), <<>>}
      BY <1>1, <2>1, ExecutesStep
    <3>2. QED
      BY <1>1, <1>2, <3>1, OwnedSame
  <2>2. CASE Halts \/ \E p \in Ports : Press(p)
    BY <1>1, <1>2, <2>2, OwnedSame DEF Halts, Press
  <2>3. QED
    BY <2>1, <2>2
<1>9. QED
  BY <1>3, <1>4, <1>5, <1>6, <1>7, <1>8 DEF Inv

(* Devices come and go. *)
LEMMA ChangeInv ==
    ASSUME Inv, NEW p \in Ports, (\E k \in Kinds : Plug(p, k)) \/ Unplug(p)
    PROVE  Inv'
<1>1. TypeOK /\ Jobs /\ Registers /\ Counted /\ Alive /\ Noticed /\ Owned
  BY DEF Inv
<1>2. UNCHANGED <<irqOn, raced, count, drivers, dev, devices, data, job, ed>> /\ rhsc'
      /\ changes' = changes + 1 /\ changes + errors < MaxMishaps /\ Changed(p)
  BY DEF Plug, Unplug, core
<1>3. TypeOK' /\ Jobs' /\ \A q \in Ports : q # p => port'[q] = port[q]
  BY <1>1, PlugStep, UnplugStep
<1>4. Registers'
  BY <1>1, <1>2 DEF Registers
<1>5. Counted'
  <2>1. Pending(p) \in {0, 1} /\ Pending(p)' \in {0, 1}
    BY DEF Pending
  <2>2. Pending(p)' <= Pending(p) + 1
    BY <2>1
  <2>3. QED
    BY <1>1, <1>2, <1>3, <2>2, CountedWorld
<1>6. Alive'
  BY <1>1, <1>2 DEF Alive
<1>7. Noticed'
  BY <1>1, <1>2, <1>3, NoticedWorld
<1>8. Owned'
  BY <1>1, <1>2, OwnedSame
<1>9. QED
  BY <1>3, <1>4, <1>5, <1>6, <1>7, <1>8 DEF Inv

(* Every step of a context preserves the invariant. *)
LEMMA ContextInv ==
    ASSUME Inv, NEW c \in Contexts, Context(c) \/ FireEndsWild(c)
    PROVE  Inv'
<1>1. CASE Submit(c) \/ Enqueue(c) \/ Fire(c) \/ FireEnds(c) \/ FireEndsWild(c)
  BY <1>1, SubmitInv, EnqueueInv, FireInv, FireEndsInv, FireEndsWildInv
<1>2. CASE SetupPort(c) \/ EnablePort(c) \/ PortReset(c) \/ Check(c) \/ Addressed(c) \/ Parse(c)
  BY <1>2, SetupPortInv, EnablePortInv, PortResetInv, CheckInv, AddressedInv, ParseInv
<1>3. CASE ListDevice(c) \/ Connect(c) \/ Probe(c) \/ Found(c) \/ Try(c)
  BY <1>3, ListDeviceInv, ConnectInv, ProbeInv, FoundInv, TryInv
<1>4. CASE Register(c) \/ Enable(c) \/ Acknowledge(c)
  BY <1>4, RegisterInv, EnableInv
<1>5. QED
  BY <1>1, <1>2, <1>3, <1>4 DEF Context

(* So does a step that changes nothing. *)
LEMMA StutterInv ==
    ASSUME Inv, UNCHANGED vars
    PROVE  Inv'
<1>1. UNCHANGED <<port, rhsc, ed, running, halted, dev, count, devices, connected, next, drivers,
          data, massstorage, gbuf, job, irqOn, crashed, changes, errors, reports, ops,
          raced, missed>>
  BY DEF vars
<1>2. TypeOK'
  BY <1>1 DEF Inv, TypeOK
<1>3. Jobs'
  BY <1>1 DEF Inv, Jobs, Fits
<1>4. Registers' /\ Alive'
  BY <1>1 DEF Inv, Registers, Alive
<1>5. Counted'
  BY <1>1 DEF Inv, Counted, Pending, InHand, Idle, Item
<1>6. Noticed'
  BY <1>1 DEF Inv, Noticed, Idle
<1>7. Owned'
  BY <1>1 DEF Inv, Owned, Unshared, Apart, Appending, InTransfer, Idle, Item
<1>8. QED
  BY <1>2, <1>3, <1>4, <1>5, <1>6, <1>7 DEF Inv

(* With any kinds of devices, any number of mishaps and any calls of the *)
(* program, the stack never leaves the invariant.                        *)
THEOREM Invariance == Spec => []Inv
<1>1. Init => Inv
  BY InitInv
<1>2. Inv /\ [Next]_vars => Inv'
  <2> SUFFICES ASSUME Inv, [Next]_vars PROVE Inv'
    OBVIOUS
  <2>1. CASE \E c \in Contexts : Context(c) \/ FireEndsWild(c)
    BY <2>1, ContextInv
  <2>2. CASE Main
    BY <2>2, CallInv DEF Main
  <2>3. CASE HcdiIrq
    BY <2>3, HandlerInv
  <2>4. CASE Executes \/ Halts
    BY <2>4, ControllerInv
  <2>5. CASE World
    BY <2>5, ChangeInv, ControllerInv DEF World
  <2>6. CASE UNCHANGED vars
    BY <2>6, StutterInv
  <2>7. QED
    BY <2>1, <2>2, <2>3, <2>4, <2>5, <2>6 DEF Next
<1>3. QED
  BY <1>1, <1>2, PTL DEF Spec

(* The variables have their types in every reachable state: in           *)
(* particular usb_add_device has a struct to use, and the numbers of the *)
(* heads of jobs are as the actions expect.                              *)
THEOREM Typed == Spec => []TypeOK
<1>1. Inv => TypeOK
  BY DEF Inv
<1>2. QED
  BY <1>1, Invariance, PTL

(* A packet goes to the device it is meant for (usb_submit_irp,         *)
(* hcdi_enqueue, hcdi_fire).  The handler that starts in the middle of a *)
(* transfer of the program is the exception, and only until its transfer *)
(* is over: hcdi_enqueue puts its TDs behind those of another device.    *)
THEOREM Owners == Spec => []PacketsToOwner
<1>1. Inv => PacketsToOwner
  <2> SUFFICES ASSUME Owned, ed # None, ~(raced /\ Appending)
               PROVE  Uniform(ed.tds, ed.addr, ed.ep)
    BY DEF Inv, PacketsToOwner, Uniform
  <2>1. QED
    BY DEF Owned, Unshared, Apart
<1>2. QED
  BY <1>1, Invariance, PTL

(* The keyboard's driver never offers a struct that usb_remove_device  *)
(* has freed: whatever is plugged in and pulled, Bound finds it first. *)
THEOREM AliveKeyboard == Spec => []KeyboardAlive
<1>1. Inv => KeyboardAlive
  BY DEF Inv, Alive, KeyboardAlive
<1>2. QED
  BY <1>1, Invariance, PTL

(* A device that is plugged in is noticed: the port is in the status of *)
(* the root hub, or a context has still to look at it, or it changed    *)
(* while hcdi_irq was past it, which clears the status of the whole hub *)
(* afterwards.                                                          *)
THEOREM NoticedChanges == Spec => []ChangeNoticed
<1>1. Inv => ChangeNoticed
  BY DEF Inv, Noticed, ChangeNoticed
<1>2. QED
  BY <1>1, Invariance, PTL
=============================================================================
