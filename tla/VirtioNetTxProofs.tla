------------------------- MODULE VirtioNetTxProofs -------------------------
(***************************************************************************)
(* Theorems about the transmit queue, for a ring of any size and indices   *)
(* of any range: the state has its type, no interrupt is lost, no buffer   *)
(* is lost or doubled, no packet is stranded, and nothing is sent while    *)
(* the VM is stopped.                                                      *)
(***************************************************************************)
EXTENDS VirtioNetTx, NatLemmas, FiniteSetTheorems

-----------------------------------------------------------------------------
(* Indices.                                                                *)

\* What the proofs use of RingAssumption.
LEMMA RangeNat ==
    /\ Num \in Nat /\ Num > 0
    /\ IdxRange \in Nat /\ IdxRange >= 2 * Num
    /\ Idx \subseteq Nat
    /\ 0 \in Idx
  BY RingAssumption DEF IdxRange, Idx

\* The distance of two indices, modulo the range.
LEMMA SubValue ==
    ASSUME NEW a \in Idx, NEW b \in Idx
    PROVE  /\ Sub(a, b) \in Idx
           /\ Sub(a, b) = IF a >= b THEN a - b ELSE a - b + IdxRange
  BY RangeNat DEF Sub, Idx

\* The next index wraps at the end of the range.
LEMMA IncrValue ==
    ASSUME NEW a \in Idx
    PROVE  /\ Incr(a) \in Idx
           /\ Incr(a) = IF a = IdxRange - 1 THEN 0 ELSE a + 1
<1>1. CASE a = IdxRange - 1
  BY <1>1, RangeNat DEF Incr, Idx
<1>2. CASE a # IdxRange - 1
  BY <1>2, RangeNat DEF Incr, Idx
<1> QED BY <1>1, <1>2

\* Indices are equal exactly when their distance is zero.
LEMMA SubZero ==
    ASSUME NEW a \in Idx, NEW b \in Idx
    PROVE  Sub(a, b) = 0 <=> a = b
<1>1. Sub(a, b) = IF a >= b THEN a - b ELSE a - b + IdxRange
  BY SubValue
<1>2. a \in 0 .. IdxRange - 1 /\ b \in 0 .. IdxRange - 1
  BY DEF Idx
<1> QED BY <1>1, <1>2, RangeNat

\* Moving one end by one changes the distance by one.
LEMMA SubIncr ==
    ASSUME NEW a \in Idx, NEW b \in Idx
    PROVE  /\ Sub(a, b) < IdxRange - 1 => Sub(Incr(a), b) = Sub(a, b) + 1
           /\ Sub(a, b) > 0 => Sub(a, Incr(b)) = Sub(a, b) - 1
<1>1. Sub(a, b) = IF a >= b THEN a - b ELSE a - b + IdxRange
  BY SubValue
<1>2. a \in 0 .. IdxRange - 1 /\ b \in 0 .. IdxRange - 1
  BY DEF Idx
<1>3. Incr(a) \in Idx /\ Incr(a) = IF a = IdxRange - 1 THEN 0 ELSE a + 1
  BY IncrValue
<1>4. Incr(b) \in Idx /\ Incr(b) = IF b = IdxRange - 1 THEN 0 ELSE b + 1
  BY IncrValue
<1>5. Sub(Incr(a), b) = IF Incr(a) >= b THEN Incr(a) - b ELSE Incr(a) - b + IdxRange
  BY <1>3, SubValue
<1>6. Sub(a, Incr(b)) = IF a >= Incr(b) THEN a - Incr(b) ELSE a - Incr(b) + IdxRange
  BY <1>4, SubValue
<1>7. Sub(a, b) < IdxRange - 1 => Sub(Incr(a), b) = Sub(a, b) + 1
  BY <1>1, <1>2, <1>3, <1>5, RangeNat
<1>8. Sub(a, b) > 0 => Sub(a, Incr(b)) = Sub(a, b) - 1
  BY <1>1, <1>2, <1>4, <1>6, RangeNat
<1> QED BY <1>7, <1>8

\* Distances of less than the range add up.
LEMMA SubAdd ==
    ASSUME NEW a \in Idx, NEW b \in Idx, NEW c \in Idx, Sub(a, b) + Sub(b, c) < IdxRange
    PROVE  Sub(a, c) = Sub(a, b) + Sub(b, c)
<1>1. /\ Sub(a, b) = IF a >= b THEN a - b ELSE a - b + IdxRange
      /\ Sub(b, c) = IF b >= c THEN b - c ELSE b - c + IdxRange
      /\ Sub(a, c) = IF a >= c THEN a - c ELSE a - c + IdxRange
  BY SubValue
<1>2. a \in 0 .. IdxRange - 1 /\ b \in 0 .. IdxRange - 1 /\ c \in 0 .. IdxRange - 1
  BY DEF Idx
<1> QED BY <1>1, <1>2, RangeNat

-----------------------------------------------------------------------------
(* Slots of the ring, counted from the one at an index.                    *)

Off(l, h) == (h - l) % Num

\* The slot D places after that of l, also when the index wraps.
LEMMA SlotAdd ==
    ASSUME NEW a \in Idx, NEW l \in Idx, NEW D \in 0 .. Num,
           a = l + D \/ a = l + D - IdxRange
    PROVE  /\ l % Num \in Heads /\ a % Num \in Heads
           /\ a % Num = IF (l % Num) + D < Num THEN (l % Num) + D ELSE (l % Num) + D - Num
<1> DEFINE s == l % Num
           q == IdxRange \div Num
           e == l + D - (IF s + D < Num THEN s + D ELSE s + D - Num)
<1>1. Num \in Nat \ {0} /\ l \in Nat /\ a \in Nat /\ IdxRange \in Nat
  BY RangeNat
<1>2. IdxRange = q * Num /\ q \in Int
  <2>1. IdxRange % Num = 0
    BY RingAssumption
  <2> QED BY <1>1, <2>1, DivMod, DivNat
<1>3. PICK d \in Int : l = d * Num + s /\ s \in 0 .. Num - 1
  <2>1. l = (l \div Num) * Num + s /\ s \in 0 .. Num - 1 /\ l \div Num \in Int
    BY <1>1, DivMod, DivNat
  <2> QED BY <2>1
<1>4. a % Num = (l + D) % Num
  <2>1. CASE a = l + D
    BY <2>1
  <2>2. CASE a = l + D - IdxRange
    <3> HIDE DEF q
    <3>1. a = (l + D) + (-q) * Num
      BY <1>1, <1>2, <2>2
    <3>2. l + D \in Int /\ -q \in Int
      BY <1>1, <1>2
    <3>3. ((l + D) + (-q) * Num) % Num = (l + D) % Num
      BY <3>2, <1>1, ModShift
    <3> QED BY <3>1, <3>3
  <2> QED BY <2>1, <2>2
<1>5. (l + D) % Num = IF s + D < Num THEN s + D ELSE s + D - Num
  <2> HIDE DEF s
  <2>0. l + D \in Int
    BY <1>1
  <2>1. CASE s + D < Num
    <3>1. l + D = d * Num + (s + D) /\ s + D \in 0 .. Num - 1
      BY <1>1, <1>3, <2>1
    <3>2. (l + D) % Num = s + D
      BY <1>1, <2>0, <3>1, ModUnique
    <3> QED BY <2>1, <3>2
  <2>2. CASE ~ (s + D < Num)
    <3>1. l + D = (d + 1) * Num + (s + D - Num) /\ s + D - Num \in 0 .. Num - 1
      BY <1>1, <1>3, <2>2
    <3>2. d + 1 \in Int
      BY <1>3
    <3>3. (l + D) % Num = s + D - Num
      BY <1>1, <2>0, <3>1, <3>2, ModUnique
    <3> QED BY <2>2, <3>3
  <2> QED BY <2>1, <2>2
<1>6. l % Num \in Heads /\ a % Num \in Heads
  BY <1>1 DEF Heads
<1> QED BY <1>4, <1>5, <1>6

\* The distance of two slots, modulo the size of the ring.
LEMMA OffValue ==
    ASSUME NEW l \in Idx, NEW h \in Heads
    PROVE  /\ l % Num \in Heads
           /\ Off(l, h) \in Heads
           /\ Off(l, h) = IF h >= l % Num THEN h - (l % Num) ELSE h - (l % Num) + Num
<1> DEFINE s == l % Num
<1>1. Num \in Nat \ {0} /\ l \in Nat /\ h \in 0 .. Num - 1
  BY RangeNat DEF Heads
<1>2. PICK d \in Int : l = d * Num + s /\ s \in 0 .. Num - 1
  <2>1. l = (l \div Num) * Num + s /\ s \in 0 .. Num - 1 /\ l \div Num \in Int
    BY <1>1, DivMod, DivNat
  <2> QED BY <2>1
<1> HIDE DEF s
<1>3. CASE h >= s
  <2>1. h - l = (-d) * Num + (h - s) /\ h - s \in 0 .. Num - 1
    BY <1>1, <1>2, <1>3
  <2>2. -d \in Int /\ h - l \in Int
    BY <1>1, <1>2
  <2>3. (h - l) % Num = h - s
    BY <1>1, <2>1, <2>2, ModUnique
  <2> QED BY <1>2, <1>3, <2>1, <2>3 DEF Off, Heads, s
<1>4. CASE ~ (h >= s)
  <2> DEFINE c == -d - 1
             r == h - s + Num
  <2>1. h - l = c * Num + r /\ r \in 0 .. Num - 1
    BY <1>1, <1>2, <1>4
  <2>2. c \in Int /\ h - l \in Int
    BY <1>1, <1>2
  <2> HIDE DEF c, r
  <2>3. (h - l) % Num = r
    BY <1>1, <2>1, <2>2, ModUnique
  <2> QED BY <1>2, <1>4, <2>1, <2>3 DEF Off, Heads, s, r
<1> QED BY <1>3, <1>4

\* Two slots are as far from a third one only if they are the same.
LEMMA OffInjective ==
    ASSUME NEW l \in Idx, NEW g \in Heads, NEW h \in Heads, Off(l, g) = Off(l, h)
    PROVE  g = h
<1>1. Num \in Nat \ {0} /\ g \in 0 .. Num - 1 /\ h \in 0 .. Num - 1 /\ l % Num \in 0 .. Num - 1
  BY RangeNat, OffValue DEF Heads
<1> DEFINE s == l % Num
<1>2. (IF g >= s THEN g - s ELSE g - s + Num) = (IF h >= s THEN h - s ELSE h - s + Num)
  BY OffValue
<1> HIDE DEF s
<1> QED BY <1>1, <1>2 DEF s

\* Every distance is that of some slot.
LEMMA OffSurjective ==
    ASSUME NEW l \in Idx, NEW k \in Heads
    PROVE  \E h \in Heads : Off(l, h) = k
<1> DEFINE s == l % Num
           h == IF s + k < Num THEN s + k ELSE s + k - Num
<1>0. l % Num \in 0 .. Num - 1 /\ Num \in Nat \ {0} /\ k \in 0 .. Num - 1
  BY RangeNat, OffValue, 0 \in Heads DEF Heads
<1>1. h \in Heads
  BY <1>0 DEF Heads
<1>2. Off(l, h) = IF h >= s THEN h - s ELSE h - s + Num
  BY <1>1, OffValue
<1> HIDE DEF s
<1>3. Off(l, h) = k
  BY <1>0, <1>2 DEF s
<1> QED BY <1>1, <1>3

\* The slot of an index less than a ring ahead of l is that far from l's.
LEMMA OffSlot ==
    ASSUME NEW l \in Idx, NEW a \in Idx
    PROVE  /\ a % Num \in Heads
           /\ Sub(a, l) < Num => Off(l, a % Num) = Sub(a, l)
<1> DEFINE D == Sub(a, l)
           s == l % Num
           t == a % Num
<1>1. Num \in Nat \ {0} /\ l \in Nat /\ a \in Nat /\ IdxRange \in Nat
  BY RangeNat
<1>2. a % Num \in Heads
  BY <1>1 DEF Heads
<1>3. ASSUME D < Num PROVE Off(l, a % Num) = D
  <2>1. D \in 0 .. Num /\ (a = l + D \/ a = l + D - IdxRange)
    <3>1. D = IF a >= l THEN a - l ELSE a - l + IdxRange
      BY SubValue
    <3>2. a \in 0 .. IdxRange - 1 /\ l \in 0 .. IdxRange - 1
      BY DEF Idx
    <3> HIDE DEF D
    <3> QED BY <1>1, <1>3, <3>1, <3>2
  <2> HIDE DEF D
  <2>2. s \in Heads /\ t = IF s + D < Num THEN s + D ELSE s + D - Num
    BY <2>1, SlotAdd
  <2>3. Off(l, t) = IF t >= s THEN t - s ELSE t - s + Num
    BY <1>2, OffValue
  <2> HIDE DEF s, t
  <2>4. Off(l, t) = D
    BY <1>1, <1>3, <2>1, <2>2, <2>3 DEF Heads
  <2> QED BY <2>4 DEF t
<1> QED BY <1>2, <1>3

\* One index further, every slot is one nearer, and the nearest the last.
LEMMA OffIncr ==
    ASSUME NEW l \in Idx, NEW h \in Heads
    PROVE  Off(Incr(l), h) = IF Off(l, h) = 0 THEN Num - 1 ELSE Off(l, h) - 1
<1> DEFINE s == l % Num
           t == Incr(l) % Num
<1>1. Num \in Nat \ {0} /\ l \in Nat /\ IdxRange \in Nat /\ h \in 0 .. Num - 1
  BY RangeNat DEF Heads
<1>2. Incr(l) \in Idx /\ (Incr(l) = l + 1 \/ Incr(l) = l + 1 - IdxRange) /\ 1 \in 0 .. Num
  BY <1>1, IncrValue
<1>3. s \in Heads /\ t \in Heads /\ t = IF s + 1 < Num THEN s + 1 ELSE s + 1 - Num
  BY <1>2, SlotAdd
<1>4. Off(l, h) = IF h >= s THEN h - s ELSE h - s + Num
  BY OffValue
<1>5. Off(Incr(l), h) = IF h >= t THEN h - t ELSE h - t + Num
  BY <1>2, OffValue
<1> HIDE DEF s, t
<1> QED BY <1>1, <1>3, <1>4, <1>5 DEF Heads

-----------------------------------------------------------------------------
(* The inductive invariant.                                                *)

QueueType ==
    [ready : BOOLEAN, last_avail_idx : Idx, signalled_used : Idx,
     signalled_used_valid : BOOLEAN, notification : BOOLEAN, inuse : 0 .. Num]
AvailType ==
    [idx : Idx, ring : [Heads -> Heads], noInterrupt : BOOLEAN, usedEvent : Idx]
UsedType ==
    [idx : Idx, ring : [Heads -> Heads], noNotify : BOOLEAN, availEvent : Idx]
DriverType ==
    [pc : {"off", "run", "check", "sleep"}, lastUsed : Idx, numAdded : 0 .. Num,
     free : SUBSET Heads]
DevType ==
    [pc : Pcs, caller : Callers, elem : Heads \cup {NoHead}, ev : Idx, num : Nat]

Typed ==
    /\ features \in Features /\ avail \in AvailType /\ used \in UsedType
    /\ vq \in QueueType /\ drv \in DriverType /\ kick \in BOOLEAN /\ irq \in BOOLEAN
    /\ config \in Configs /\ dev \in DevType /\ tx_waiting \in BOOLEAN
    /\ armed \in BOOLEAN /\ async_tx \in Heads \cup {NoHead}
    /\ driver_ok \in BOOLEAN /\ vm_running \in BOOLEAN

\* Typed says no less than TypeOK.
LEMMA TypedIsTypeOK == Typed => TypeOK
  BY DEF Typed, TypeOK, RingTypeOK, AvailType, UsedType, QueueType, DriverType, DevType

\* The device holds at most one buffer: the packet being sent, or the one
\* that the backend has queued, until it is in the used ring.
Holding ==
    \/ dev.pc \in {"event", "publish", "send", "push"}
    \/ dev.pc # "notify" /\ async_tx # NoHead

Custody ==
    /\ vq.inuse = IF Holding THEN 1 ELSE 0
    /\ dev.pc \in {"event", "publish", "send"} => dev.elem \in Heads /\ async_tx = NoHead
    /\ dev.pc = "push" => dev.elem = async_tx /\ async_tx # NoHead
    /\ dev.pc \notin {"event", "publish", "send", "push"} => dev.elem = NoHead
    /\ dev.pc = "pop" => async_tx = NoHead

\* A driver that looks for the last time before it sleeps, or sleeps, has
\* asked for the next interrupt; a buffer that came since is the one that
\* virtio_notify is about to announce, and signalled_used lies behind it.
Interrupts ==
    /\ drv.pc \in {"check", "sleep"} =>
         IF features.event THEN avail.usedEvent = drv.lastUsed
                           ELSE ~ avail.noInterrupt
    /\ drv.pc = "sleep" /\ ~ irq /\ drv.lastUsed # used.idx =>
         dev.pc = "notify" /\ used.idx = Incr(drv.lastUsed)
    /\ dev.pc = "notify" /\ vq.signalled_used_valid =>
         used.idx # vq.signalled_used

\* Whatever is scheduled is waiting, so that virtio_net_set_status cancels
\* it, and what is waiting is scheduled once the VM and the driver are up; a
\* handler runs to its end before the VM stops; only a backend that may be
\* busy holds a packet.
Lifecycle ==
    /\ armed => tx_waiting /\ vm_running
    /\ driver_ok /\ vm_running /\ tx_waiting => armed
    /\ dev.pc # "idle" /\ dev.caller # "complete" => vm_running
    /\ async_tx # NoHead \/ dev.caller = "complete" => config.busy
    /\ dev.caller \in {"timer", "kick"} => config.timer
    /\ ~ config.stops => vm_running
    /\ ~ driver_ok => config.resets
    /\ vq.ready = driver_ok
    /\ (drv.pc = "off") = ~ driver_ok
    /\ ~ vm_running => ~ kick

\* The device is not reset or loaded while the backend may hold a packet.
\* virtio_reset leaves async_tx.elem to a driver that starts with all buffers
\* free; virtio_net_load starts without it, and the buffer stays away.
NoResetWhileBusy == ~ (config.busy /\ config.resets)

\* Buffers that the driver has given away and not taken back.
Unused == Sub(used.idx, drv.lastUsed)
Away == Unused + vq.inuse + num_heads

\* The device has head h.
Carried(h) ==
    \/ dev.pc \in {"event", "publish", "send"} /\ dev.elem = h
    \/ dev.pc # "notify" /\ async_tx = h

\* Buffers go around in order: from drv.lastUsed on, first those in the used
\* ring, then the one in the device, then those in the available ring, then
\* those that the driver has.
Positions ==
    /\ Sub(vq.last_avail_idx, used.idx) = vq.inuse
    /\ Away <= Num

Slot(h, d) ==
    /\ d < Unused => used.ring[h] = h
    /\ Unused + vq.inuse <= d /\ d < Away => avail.ring[h] = h
    /\ h \in drv.free <=> Away <= d
    /\ Carried(h) => d = Unused

InOrder ==
    /\ ~ driver_ok => dev.pc = "idle" /\ vq.last_avail_idx = 0 /\ vq.inuse = 0
    /\ driver_ok => Positions /\ \A h \in Heads : Slot(h, Off(drv.lastUsed, h))

\* A burst that is cut short is continued: only virtio_net_tx_bh looks at
\* what virtio_net_flush_tx returns.
BurstServed == config.burst = NoLimit \/ (~ config.timer /\ ~ config.busy)

\* The driver will notify: all that is in the queue is still to be announced,
\* and the announcement will find the flag clear or the event index in it.
Attentive ==
    /\ num_heads <= drv.numAdded
    /\ IF features.event
       THEN /\ num_heads <= Sub(avail.idx, used.availEvent)
            /\ Sub(avail.idx, used.availEvent) <= drv.numAdded
       ELSE ~ used.noNotify

\* virtio_net_flush_tx is at work with notifications on: the event index is
\* not behind the last look at the queue, so that no announcement is missed
\* of anything that comes after the queue is found empty.
Flushing ==
    /\ dev.caller # "bh"
    /\ \/ dev.pc \in {"flush", "pop", "event", "publish", "send"}
       \/ dev.pc = "notify" /\ async_tx = NoHead

Watching ==
    /\ vq.notification
    /\ ~ features.event => ~ used.noNotify
    /\ features.event /\ dev.pc \notin {"event", "publish"} =>
         Sub(avail.idx, used.availEvent) <= num_heads

Looking ==
    /\ driver_ok /\ dev.pc = "idle" => WillLook \/ Attentive
    /\ dev.pc \in {"enable", "store"} => dev.caller # "bh"
    /\ dev.pc = "store" => vq.notification
    /\ dev.pc \in {"store", "publish"} => Sub(avail.idx, dev.ev) <= num_heads
    /\ Flushing => Watching

-----------------------------------------------------------------------------
(* What the parts of an action do.                                         *)

\* Everything but notification, which is never read at a return.
SameQueue(p, q) ==
    /\ p \in QueueType
    /\ p.ready = q.ready /\ p.last_avail_idx = q.last_avail_idx
    /\ p.signalled_used = q.signalled_used
    /\ p.signalled_used_valid = q.signalled_used_valid /\ p.inuse = q.inuse

SameUsed ==
    /\ used' \in UsedType
    /\ used'.idx = used.idx /\ used'.ring = used.ring
    /\ used'.availEvent = used.availEvent

\* Disabling notifications changes only what the driver reads about kicks.
LEMMA DisableEffect ==
    ASSUME NEW q \in QueueType, Typed, DisableNotification(q)
    PROVE  SameQueue(vq', q) /\ SameUsed
<1>1. used \in UsedType /\ features.event \in BOOLEAN
  BY DEF Typed, Features
<1>2. SameQueue(vq', q)
  BY DEF DisableNotification, SameQueue, QueueType
<1>3. used' = [used EXCEPT !.noNotify = features.event => @]
  BY DEF DisableNotification
<1>4. (features.event => used.noNotify) \in BOOLEAN
  OBVIOUS
<1>5. SameUsed
  BY <1>1, <1>3, <1>4 DEF SameUsed, UsedType
<1> QED BY <1>2, <1>5

\* A device that does nothing.
LEMMA IdleType ==
    /\ Idle \in DevType /\ Idle.pc = "idle" /\ Idle.caller = "bh" /\ Idle.elem = NoHead
    /\ Idle.ev = 0 /\ Idle.num = 0
  BY RangeNat DEF Idle, DevType, Pcs, Callers

\* A handler at its start.
LEMMA RunType ==
    ASSUME NEW pc \in Pcs, NEW caller \in Callers
    PROVE  /\ Run(pc, caller) \in DevType /\ Run(pc, caller).pc = pc
           /\ Run(pc, caller).caller = caller /\ Run(pc, caller).elem = NoHead
           /\ Run(pc, caller).ev = 0 /\ Run(pc, caller).num = 0
  BY RangeNat DEF Idle, Run, DevType

\* vring_notify changes only signalled_used.
LEMMA NotifiedEffect ==
    ASSUME Typed
    PROVE  /\ Notified \in QueueType /\ Notified.ready = vq.ready
           /\ Notified.last_avail_idx = vq.last_avail_idx
           /\ Notified.notification = vq.notification /\ Notified.inuse = vq.inuse
  BY DEF Typed, Notified, QueueType, UsedType

\* How virtio_net_flush_tx returns: the bottom half is scheduled again, or
\* goes on to look again, or the handler ends and nothing else has changed.
Rescheduled ==
    /\ dev' = Idle /\ dev.caller \in {"bh", "again"}
    /\ armed' = TRUE /\ tx_waiting' = TRUE
LooksAgain ==
    /\ dev' = Run("enable", "again") /\ dev.caller = "bh"
    /\ UNCHANGED <<used, armed, tx_waiting>>
Ends(q) ==
    /\ dev' = Idle /\ dev.caller # "bh" /\ vq' = q
    /\ UNCHANGED <<used, armed, tx_waiting>>

\* What follows virtio_net_flush_tx: the bottom half is scheduled again, looks again, or ends.
LEMMA ReturnEffect ==
    ASSUME NEW q \in QueueType, NEW num, Typed, Return(num, q)
    PROVE  /\ SameQueue(vq', q) /\ SameUsed
           /\ Rescheduled \/ LooksAgain \/ Ends(q)
<1>1. ASSUME vq' = q, UNCHANGED used PROVE SameQueue(vq', q) /\ SameUsed
  BY <1>1 DEF SameQueue, SameUsed, Typed
<1>2. CASE dev.caller = "bh" /\ AtBurst(num)
  BY <1>1, <1>2 DEF Return, Rescheduled
<1>3. CASE dev.caller = "bh" /\ ~ AtBurst(num)
  BY <1>1, <1>3 DEF Return, LooksAgain
<1>4. CASE dev.caller = "again" /\ num > 0 /\ DisableNotification(q) /\ dev' = Idle
           /\ armed' = TRUE /\ tx_waiting' = TRUE
  BY <1>4, DisableEffect DEF Rescheduled
<1>5. CASE dev.caller # "bh" /\ dev' = Idle /\ vq' = q /\ UNCHANGED <<used, armed, tx_waiting>>
  BY <1>1, <1>5 DEF Ends
<1> QED
  BY <1>2, <1>3, <1>4, <1>5 DEF Return

-----------------------------------------------------------------------------
(* Types and custody.                                                      *)

\* The initial state has its type.
LEMMA InitTyped == Init => Typed /\ Custody
<1> SUFFICES ASSUME Init PROVE Typed /\ Custody
  OBVIOUS
<1>1. dev = Idle /\ dev \in DevType /\ dev.pc = "idle" /\ dev.elem = NoHead
  BY IdleType DEF Init
<1>2. 0 \in Heads /\ 0 \in Idx /\ 0 \in 0 .. Num
  BY RangeNat DEF Heads
<1>3. avail \in AvailType /\ used \in UsedType /\ vq \in QueueType /\ drv \in DriverType
  BY <1>2 DEF Init, RingInit, EmptyAvail, EmptyUsed, NewQueue, FreshDriver, AvailType, UsedType,
              QueueType, DriverType
<1>4. config \in Configs /\ features \in Features
  BY ConfigAssumption DEF Init, Features
<1>5. Typed
  BY <1>1, <1>3, <1>4 DEF Init, RingInit, Typed
<1>6. Custody
  BY <1>1 DEF Init, RingInit, NewQueue, Custody, Holding
<1> QED BY <1>5, <1>6

\* Every step keeps the types and says who holds which buffer.
LEMMA StepTyped == Typed /\ Custody /\ [Next]_vars => Typed' /\ Custody'
<1> SUFFICES ASSUME Typed, Custody, [Next]_vars PROVE Typed' /\ Custody'
  OBVIOUS
<1>0. UNCHANGED <<features, config>>
  BY DEF Next, vars, ringVars, Driver, DrvAdd, DrvKick, DrvPoll, DrvReap, DrvEnableCb, DrvCheck,
         DrvInterrupt, Device, MainLoop, HandleOutput, TxBh, TxTimer, TxComplete,
         Enable, Store, FlushNothing, PopEmpty, PopHead, PopEvent, PopPublish, SendBusy, PushElem,
         NotifyCompletion, NotifySent, VmStop, VmStart, Migrate, Reset, DriverOk
<1> USE <1>0
<1>a. /\ dev \in DevType /\ vq \in QueueType /\ used \in UsedType /\ avail \in AvailType
      /\ drv \in DriverType
  BY DEF Typed
<1>b. /\ dev.pc \in Pcs /\ dev.caller \in Callers /\ dev.elem \in Heads \cup {NoHead}
      /\ vq.inuse \in Nat /\ vq.last_avail_idx \in Idx /\ avail.idx \in Idx /\ used.idx \in Idx
      /\ drv.lastUsed \in Idx
  BY <1>a, RangeNat DEF DevType, QueueType, AvailType, UsedType, DriverType
<1>c. NoHead \notin Heads /\ Num \in Nat /\ 1 \in 0 .. Num /\ 0 \in 0 .. Num /\ 0 \in Idx /\ 0 \in Heads
  BY RingAssumption, RangeNat DEF Heads
<1>d. \A i \in Idx : i % Num \in Heads
  BY RangeNat DEF Heads
<1>1. CASE Driver
  <2>1. CASE DrvAdd
    <3> DEFINE h == avail.idx % Num
    <3>1. /\ avail' = [avail EXCEPT !.ring[avail.idx % Num] = h, !.idx = Incr(@)]
          /\ drv' = [drv EXCEPT !.free = @ \ {h}, !.numAdded = @ + 1]
          /\ drv.numAdded < Num
      BY <2>1 DEF DrvAdd
    <3>2. h \in Heads /\ Incr(avail.idx) \in Idx
      BY <1>b, <1>d, IncrValue
    <3> HIDE DEF h
    <3>3. avail' \in AvailType
      BY <1>a, <3>1, <3>2 DEF AvailType
    <3>4. drv' \in DriverType
      <4>1. drv.numAdded + 1 \in 0 .. Num /\ drv.free \ {h} \in SUBSET Heads
        BY <1>a, <1>c, <3>1 DEF DriverType
      <4> QED BY <1>a, <3>1, <4>1 DEF DriverType
    <3> QED
      BY <1>1, <2>1, <3>3, <3>4 DEF Driver, DrvAdd, txVars, vmVars, Typed, Custody, Holding
  <2>2. CASE DrvKick
    <3>1. drv' \in DriverType
      BY <1>a, <1>c, <2>2 DEF DrvKick, DriverType
    <3>2. kick' \in BOOLEAN
      BY <2>2 DEF DrvKick
    <3> QED
      BY <1>1, <2>2, <3>1, <3>2 DEF Driver, DrvKick, txVars, vmVars, Typed, Custody, Holding
  <2>3. CASE DrvReap
    <3>1. Incr(drv.lastUsed) \in Idx /\ used.ring[drv.lastUsed % Num] \in Heads
      BY <1>a, <1>b, <1>d, IncrValue DEF UsedType
    <3>2. drv' \in DriverType
      BY <1>a, <2>3, <3>1 DEF DrvReap, DriverType
    <3> QED
      BY <1>1, <2>3, <3>2 DEF Driver, DrvReap, txVars, vmVars, Typed, Custody, Holding
  <2>4. CASE DrvEnableCb
    <3>1. drv' \in DriverType
      BY <1>a, <2>4 DEF DrvEnableCb, DriverType
    <3>2. avail' \in AvailType
      BY <1>a, <1>b, <2>4 DEF DrvEnableCb, AvailType, Typed, Features
    <3> QED
      BY <1>1, <2>4, <3>1, <3>2 DEF Driver, DrvEnableCb, txVars, vmVars, Typed, Custody, Holding
  <2>5. CASE DrvCheck
    <3>1. drv' \in DriverType
      BY <1>a, <2>5 DEF DrvCheck, DriverType
    <3>2. avail' \in AvailType
      BY <1>a, <1>b, <2>5 DEF DrvCheck, AvailType
    <3> QED
      BY <1>1, <2>5, <3>1, <3>2 DEF Driver, DrvCheck, txVars, vmVars, Typed, Custody, Holding
  <2>6. CASE DrvInterrupt
    <3>1. drv' \in DriverType
      BY <1>a, <2>6 DEF DrvInterrupt, DriverType
    <3>2. avail' \in AvailType
      BY <1>a, <1>b, <2>6 DEF DrvInterrupt, AvailType
    <3> QED
      BY <1>1, <2>6, <3>1, <3>2 DEF Driver, DrvInterrupt, txVars, vmVars, Typed, Custody, Holding
  <2> QED BY <1>1, <2>1, <2>2, <2>3, <2>4, <2>5, <2>6 DEF Driver, DrvPoll
<1>2. CASE HandleOutput
  <2>0. dev.pc = "idle" /\ async_tx' = async_tx
    BY <1>2 DEF HandleOutput
  <2>1. /\ SameQueue(vq', vq) /\ SameUsed /\ armed' \in BOOLEAN /\ tx_waiting' \in BOOLEAN
        /\ dev' = dev \/ dev' = Run("enable", "kick")
    <3>1. CASE UNCHANGED <<vq, used, armed>> /\ tx_waiting' \in BOOLEAN /\ dev' = dev
      BY <3>1 DEF SameQueue, SameUsed, Typed
    <3>2. CASE DisableNotification(vq) /\ armed' = TRUE /\ tx_waiting' = TRUE /\ dev' = dev
      BY <1>a, <3>2, DisableEffect
    <3>3. CASE UNCHANGED <<vq, used>> /\ armed' = FALSE /\ tx_waiting' = FALSE
               /\ dev' = Run("enable", "kick")
      BY <3>3 DEF SameQueue, SameUsed, Typed
    <3> QED
      BY <1>2, <3>1, <3>2, <3>3 DEF HandleOutput, HandleTxBh, HandleTxTimer, Typed
  <2>2. dev' \in DevType /\ dev'.pc \in {"idle", "enable"} /\ dev'.elem = NoHead
    BY <1>a, <2>0, <2>1, RunType DEF Custody, Pcs, Callers
  <2> QED
    BY <1>2, <2>0, <2>1, <2>2 DEF HandleOutput, vmVars, Typed, Custody, Holding, SameQueue, SameUsed
<1>3. CASE TxBh
  <2>1. dev' \in DevType /\ dev'.pc \in {"idle", "flush"} /\ dev'.elem = NoHead /\ dev.pc = "idle"
    BY <1>a, <1>3, RunType DEF TxBh, Custody, Pcs, Callers
  <2> QED
    BY <1>3, <2>1 DEF TxBh, ringVars, vmVars, Typed, Custody, Holding
<1>4. CASE TxTimer
  <2>1. dev' \in DevType /\ dev'.pc \in {"idle", "enable"} /\ dev'.elem = NoHead /\ dev.pc = "idle"
    BY <1>a, <1>4, RunType DEF TxTimer, Custody, Pcs, Callers
  <2> QED
    BY <1>4, <2>1 DEF TxTimer, ringVars, vmVars, Typed, Custody, Holding
<1>5. CASE TxComplete
  <2>1. dev' \in DevType /\ dev'.pc = "push" /\ dev'.elem = async_tx /\ dev.pc = "idle"
    <3>1. Run("push", "complete") \in DevType /\ Run("push", "complete").pc = "push"
      BY RunType DEF Pcs, Callers
    <3> QED
      BY <1>5, <3>1 DEF TxComplete, DevType, Typed
  <2> QED
    BY <1>5, <2>1 DEF TxComplete, ringVars, txVars, vmVars, Typed, Custody, Holding
<1>6. CASE Enable
  <2>1. dev' \in DevType /\ dev'.pc = "store" /\ dev'.elem = dev.elem /\ dev.pc = "enable"
    BY <1>a, <1>b, <1>6 DEF Enable, DevType, Pcs
  <2>2. vq' \in QueueType /\ vq'.inuse = vq.inuse
    BY <1>a, <1>6 DEF Enable, EnableNotification, QueueType
  <2> QED
    BY <1>6, <2>1, <2>2 DEF Enable, txVars, vmVars, Typed, Custody, Holding
<1>7. CASE Store
  <2>1. dev' \in DevType /\ dev'.pc = "flush" /\ dev'.elem = dev.elem /\ dev.pc = "store"
    BY <1>a, <1>c, <1>7 DEF Store, DevType, Pcs
  <2>2. used' \in UsedType
    BY <1>a, <1>7 DEF Store, NotifyEnabled, UsedType, DevType, Typed, Features
  <2> QED
    BY <1>7, <2>1, <2>2 DEF Store, txVars, vmVars, Typed, Custody, Holding
<1>8. CASE FlushNothing
  <2>1. dev' \in DevType /\ dev'.pc \in {"idle", "enable"} /\ dev'.elem = NoHead /\ dev.pc = "flush"
    BY <1>8, RunType, IdleType DEF FlushNothing, Pcs, Callers
  <2>2. SameQueue(vq', vq) /\ SameUsed
    <3>1. CASE DisableNotification(vq)
      BY <1>a, <3>1, DisableEffect
    <3>2. CASE UNCHANGED <<vq, used>>
      BY <3>2 DEF SameQueue, SameUsed, Typed
    <3> QED BY <1>8, <3>1, <3>2 DEF FlushNothing
  <2> QED
    BY <1>8, <2>1, <2>2 DEF FlushNothing, txVars, vmVars, Typed, Custody, Holding, SameQueue, SameUsed
<1>e. ASSUME NEW num, NEW q \in QueueType, Return(num, q)
      PROVE  /\ vq' \in QueueType /\ vq'.inuse = q.inuse /\ used' \in UsedType
             /\ armed' \in BOOLEAN /\ tx_waiting' \in BOOLEAN
             /\ dev' \in DevType /\ dev'.pc \in {"idle", "enable"} /\ dev'.elem = NoHead
  <2>1. SameQueue(vq', q) /\ SameUsed /\ (Rescheduled \/ LooksAgain \/ Ends(q))
    BY <1>e, ReturnEffect
  <2>2. vq' \in QueueType /\ vq'.inuse = q.inuse /\ used' \in UsedType
    BY <2>1 DEF SameQueue, SameUsed
  <2>3. armed' \in BOOLEAN /\ tx_waiting' \in BOOLEAN
    BY <2>1 DEF Rescheduled, LooksAgain, Ends, Typed
  <2>4. dev' = Idle \/ dev' = Run("enable", "again")
    BY <2>1 DEF Rescheduled, LooksAgain, Ends
  <2>5. dev' \in DevType /\ dev'.pc \in {"idle", "enable"} /\ dev'.elem = NoHead
    BY <2>4, IdleType, RunType DEF Pcs, Callers
  <2> QED BY <2>2, <2>3, <2>5
<1>f. ASSUME Popping
      PROVE  /\ async_tx = NoHead /\ vq.inuse = 0 /\ dev.elem = NoHead
             /\ dev.pc \in {"pop", "flush"}
  BY <1>f DEF Popping, Custody, Holding
<1>9. CASE PopEmpty
  <2>1. Return(dev.num, vq) /\ Popping
    BY <1>9 DEF PopEmpty
  <2>2. /\ vq' \in QueueType /\ vq'.inuse = vq.inuse /\ used' \in UsedType
        /\ armed' \in BOOLEAN /\ tx_waiting' \in BOOLEAN
        /\ dev' \in DevType /\ dev'.pc \in {"idle", "enable"} /\ dev'.elem = NoHead
    BY <1>a, <1>e, <2>1
  <2> QED
    BY <1>9, <1>f, <2>1, <2>2 DEF PopEmpty, vmVars, Typed, Custody, Holding
<1>10. CASE PopHead
  <2>1. Popping
    BY <1>10 DEF PopHead
  <2>2. get_head \in Heads
    BY <1>a, <1>b, <1>d DEF get_head, AvailType
  <2>3. dev' \in DevType /\ dev'.pc \in {"event", "send"} /\ dev'.elem \in Heads
    BY <1>a, <1>10, <2>2 DEF PopHead, DevType, Pcs
  <2>4. vq' \in QueueType /\ vq'.inuse = 1
    <3>1. Incr(vq.last_avail_idx) \in Idx
      BY <1>b, IncrValue
    <3>2. vq' = [vq EXCEPT !.last_avail_idx = Incr(@), !.inuse = @ + 1] /\ vq.inuse = 0
      BY <1>10, <2>1, <1>f DEF PopHead, Pop
    <3>3. vq.inuse + 1 = 1
      BY <3>2
    <3> QED BY <1>a, <1>c, <3>1, <3>2, <3>3 DEF QueueType
  <2> QED
    BY <1>10, <1>f, <2>1, <2>3, <2>4 DEF PopHead, txVars, vmVars, Typed, Custody, Holding
<1>11. CASE PopEvent
  <2>1. dev' \in DevType /\ dev'.pc = "publish" /\ dev'.elem = dev.elem /\ dev.pc = "event"
    BY <1>a, <1>b, <1>11 DEF PopEvent, DevType, Pcs
  <2> QED
    BY <1>11, <2>1 DEF PopEvent, ringVars, txVars, vmVars, Typed, Custody, Holding
<1>p. CASE PopPublish
  <2>1. dev' \in DevType /\ dev'.pc = "send" /\ dev'.elem = dev.elem /\ dev.pc = "publish"
    BY <1>a, <1>c, <1>p DEF PopPublish, DevType, Pcs
  <2>2. used' \in UsedType
    BY <1>a, <1>p DEF PopPublish, UsedType, DevType
  <2> QED
    BY <1>p, <2>1, <2>2 DEF PopPublish, txVars, vmVars, Typed, Custody, Holding
<1>12. CASE SendBusy
  <2>1. SameQueue(vq', vq) /\ SameUsed
    BY <1>a, <1>12, DisableEffect DEF SendBusy
  <2>2. dev' \in DevType /\ dev'.pc = "idle" /\ dev'.elem = NoHead /\ dev.pc = "send"
    BY <1>12, IdleType DEF SendBusy
  <2>3. async_tx' = dev.elem /\ dev.elem \in Heads
    BY <1>12, <2>2 DEF SendBusy, Custody
  <2>4. vq.inuse = 1
    BY <2>2 DEF Custody, Holding
  <2>5. Typed'
    BY <1>12, <2>1, <2>2, <2>3 DEF SendBusy, vmVars, Typed, SameQueue, SameUsed
  <2>6. Custody'
    BY <1>c, <2>1, <2>2, <2>3, <2>4 DEF Custody, Holding, SameQueue
  <2> QED BY <2>5, <2>6
<1>13. CASE PushElem
  <2>1. dev' \in DevType /\ dev'.pc = "notify" /\ dev'.elem = NoHead /\ dev.pc \in {"send", "push"}
    BY <1>a, <1>13 DEF PushElem, DevType, Pcs
  <2>2. dev.elem \in Heads /\ vq.inuse = 1
    BY <2>1 DEF Typed, Custody, Holding
  <2>3. vq' \in QueueType /\ vq'.inuse = 0
    <3>1. vq.inuse - 1 = 0
      BY <2>2
    <3>2. vq' = [vq EXCEPT !.inuse = @ - 1,
                   !.signalled_used_valid = @ /\ StillValid(used.idx, Incr(used.idx))]
      BY <1>13 DEF PushElem, Push
    <3>3. (vq.signalled_used_valid /\ StillValid(used.idx, Incr(used.idx))) \in BOOLEAN
      OBVIOUS
    <3> QED BY <1>a, <1>c, <3>1, <3>2, <3>3 DEF QueueType
  <2>4. used' \in UsedType
    <3>1. Incr(used.idx) \in Idx /\ used.idx % Num \in Heads
      BY <1>b, <1>d, IncrValue
    <3> QED BY <1>a, <1>13, <2>2, <3>1 DEF PushElem, Push, UsedType
  <2> QED
    BY <1>13, <2>1, <2>2, <2>3, <2>4 DEF PushElem, txVars, vmVars, Typed, Custody, Holding
<1>14. CASE NotifyCompletion
  <2>1. dev' \in DevType /\ dev'.pc = "enable" /\ dev'.elem = NoHead /\ dev.pc = "notify"
    BY <1>14, RunType DEF NotifyCompletion, Pcs, Callers
  <2>2. vq' \in QueueType /\ vq'.inuse = vq.inuse
    BY <1>14, NotifiedEffect DEF NotifyCompletion
  <2>3. irq' \in BOOLEAN
    BY <1>14 DEF NotifyCompletion, Notify
  <2> QED
    BY <1>14, <2>1, <2>2, <2>3 DEF NotifyCompletion, vmVars, Typed, Custody, Holding
<1>15. CASE NotifySent
  <2>0. /\ dev.pc = "notify" /\ async_tx = NoHead /\ async_tx' = NoHead /\ vq.inuse = 0
        /\ dev.elem = NoHead
    BY <1>15 DEF NotifySent, Custody, Holding
  <2>1. /\ vq' \in QueueType /\ vq'.inuse = vq.inuse /\ used' \in UsedType
        /\ armed' \in BOOLEAN /\ tx_waiting' \in BOOLEAN
        /\ dev' \in DevType /\ dev'.pc \in {"idle", "enable", "pop"} /\ dev'.elem = NoHead
    <3> DEFINE num == OneMore(dev.num)
    <3>1. CASE AtBurst(num)
      <4>1. Return(num, Notified) /\ Notified \in QueueType /\ Notified.inuse = vq.inuse
        BY <1>15, <3>1, NotifiedEffect DEF NotifySent
      <4> QED BY <1>e, <4>1
    <3>2. CASE ~ AtBurst(num)
      <4>1. vq' = Notified /\ dev' = [dev EXCEPT !.pc = "pop", !.num = num]
            /\ UNCHANGED <<used, armed, tx_waiting>>
        BY <1>15, <3>2 DEF NotifySent
      <4>2. num \in Nat
        BY <1>a DEF OneMore, DevType
      <4> HIDE DEF num
      <4>3. dev' \in DevType /\ dev'.pc = "pop" /\ dev'.elem = NoHead
        BY <1>a, <2>0, <4>1, <4>2 DEF DevType, Pcs
      <4>4. vq' \in QueueType /\ vq'.inuse = vq.inuse
        BY <4>1, NotifiedEffect
      <4> QED BY <4>1, <4>3, <4>4 DEF Typed
    <3> QED BY <3>1, <3>2
  <2>3. irq' \in BOOLEAN
    BY <1>15 DEF NotifySent, Notify
  <2> QED
    BY <1>15, <2>0, <2>1, <2>3 DEF NotifySent, vmVars, Typed, Custody, Holding
<1>16. CASE VmStop
  BY <1>16 DEF VmStop, SetStatus, Typed, Custody, Holding
<1>17. CASE VmStart
  BY <1>17, ConfigAssumption DEF VmStart, SetStatus, Typed, Custody, Holding
<1>18. CASE Migrate
  <2>1. vq' \in QueueType /\ vq'.inuse = 0
    BY <1>a, <1>c, <1>18 DEF Migrate, LoadQueue, QueueType
  <2> QED
    BY <1>18, <2>1 DEF Migrate, vmVars, Typed, Custody, Holding
<1>19. CASE Reset
  <2>1. vq' \in QueueType /\ vq'.inuse = vq.inuse
    BY <1>a, <1>c, <1>19 DEF Reset, ResetQueue, QueueType
  <2>2. drv' \in DriverType
    BY <1>a, <1>c, <1>19 DEF Reset, DriverType
  <2> QED
    BY <1>19, <2>1, <2>2 DEF Reset, SetStatus, Typed, Custody, Holding
<1>20. CASE DriverOk
  <2>1. vq' \in QueueType /\ vq'.inuse = vq.inuse
    BY <1>a, <1>20 DEF DriverOk, QueueType
  <2>2. avail' \in AvailType /\ used' \in UsedType /\ drv' \in DriverType
    BY <1>c, <1>20 DEF DriverOk, EmptyAvail, EmptyUsed, FreshDriver, AvailType, UsedType, DriverType
  <2>3. kick' \in BOOLEAN
    BY <1>20 DEF DriverOk
  <2> QED
    BY <1>20, <2>1, <2>2, <2>3 DEF DriverOk, SetStatus, Typed, Custody, Holding
<1>21. CASE UNCHANGED vars
  BY <1>21 DEF vars, ringVars, txVars, vmVars, Typed, Custody, Holding
<1> QED
  BY <1>1, <1>2, <1>3, <1>4, <1>5, <1>6, <1>7, <1>8, <1>9, <1>10, <1>11, <1>p, <1>12, <1>13, <1>14,
     <1>15, <1>16, <1>17, <1>18, <1>19, <1>20, <1>21 DEF Next, Device, MainLoop

-----------------------------------------------------------------------------
(* Interrupts.                                                             *)

\* No interrupt is due at first.
LEMMA InitInterrupts == Init => Interrupts
  BY IdleType DEF Init, RingInit, FreshDriver, Interrupts

\* vring_notify interrupts a driver that sleeps with one buffer to take back.
LEMMA NotifyWakes ==
    ASSUME Typed, Interrupts, dev.pc = "notify", drv.pc = "sleep", ~ irq,
           drv.lastUsed # used.idx
    PROVE  vring_notify
<1>1. CASE ~ features.event
  BY <1>1 DEF Interrupts, vring_notify
<1>2. CASE features.event /\ ~ vq.signalled_used_valid
  BY <1>2 DEF vring_notify
<1>3. CASE features.event /\ vq.signalled_used_valid
  <2> DEFINE new == used.idx
             old == vq.signalled_used
             l == drv.lastUsed
  <2>1. avail.usedEvent = l /\ new = Incr(l) /\ new # old
    BY <1>3 DEF Interrupts
  <2>2. new \in Idx /\ old \in Idx /\ l \in Idx
    BY DEF Typed, UsedType, QueueType, DriverType
  <2> HIDE DEF new, old, l
  <2>3. Sub(new, l + 1) = 0
    <3>1. new = (l + 1) % IdxRange
      BY <2>1 DEF Incr
    <3>2. CASE l = IdxRange - 1
      <4>1. new = 0 /\ new - (l + 1) = - IdxRange
        BY <2>1, <2>2, <3>2, IncrValue, RangeNat
      <4> QED BY <4>1, RangeNat DEF Sub
    <3>3. CASE l # IdxRange - 1
      <4>1. new - (l + 1) = 0
        BY <2>1, <2>2, <3>3, IncrValue, RangeNat
      <4> QED BY <4>1, RangeNat DEF Sub
    <3> QED BY <3>2, <3>3
  <2>4. Sub(new, old) > 0
    <3>1. Sub(new, old) = IF new >= old THEN new - old ELSE new - old + IdxRange
      BY <2>2, SubValue
    <3>2. new \in 0 .. IdxRange - 1 /\ old \in 0 .. IdxRange - 1
      BY <2>2 DEF Idx
    <3> QED BY <2>1, <3>1, <3>2, RangeNat
  <2>5. Sub(new, avail.usedEvent + 1) < Sub(new, old)
    BY <2>1, <2>2, <2>3, <2>4, SubValue, RangeNat
  <2> QED
    BY <1>3, <2>5 DEF vring_notify, vring_need_event, new, old
<1> QED BY <1>1, <1>2, <1>3

\* virtqueue_flush forgets signalled_used when used.idx reaches it.
LEMMA FlushForgets ==
    ASSUME Typed, StillValid(used.idx, Incr(used.idx))
    PROVE  Incr(used.idx) # vq.signalled_used
<1> DEFINE new == Incr(used.idx)
<1>1. used.idx \in Idx /\ new \in Idx /\ vq.signalled_used \in Idx
  BY IncrValue DEF Typed, UsedType, QueueType
<1>2. SUFFICES ASSUME new = vq.signalled_used PROVE FALSE
  OBVIOUS
<1>3. Sub(new, vq.signalled_used) = 0
  BY <1>1, <1>2, SubZero
<1>4. Signed(0) = 0
  BY RingAssumption DEF Signed
<1>5. Sub(new, used.idx) = 1
  <2>1. Sub(new, used.idx) = IF new >= used.idx THEN new - used.idx ELSE new - used.idx + IdxRange
    BY <1>1, SubValue
  <2>2. new = IF used.idx = IdxRange - 1 THEN 0 ELSE used.idx + 1
    BY <1>1, IncrValue
  <2>3. used.idx \in 0 .. IdxRange - 1
    BY <1>1 DEF Idx
  <2> HIDE DEF new
  <2> QED BY <2>1, <2>2, <2>3, RangeNat
<1> QED BY <1>3, <1>4, <1>5 DEF StillValid

\* A step that touches nothing of an interrupt loses none.
LEMMA QuietInterrupts ==
    ASSUME Interrupts, UNCHANGED <<features, drv, avail, irq>>, used'.idx = used.idx,
           dev.pc # "notify", dev'.pc # "notify"
    PROVE  Interrupts'
  BY DEF Interrupts

\* Every step keeps the interrupt that a sleeping driver waits for.
LEMMA StepInterrupts == Typed /\ Custody /\ Interrupts /\ [Next]_vars => Interrupts'
<1> SUFFICES ASSUME Typed, Custody, Interrupts, [Next]_vars PROVE Interrupts'
  OBVIOUS
<1>a. dev \in DevType /\ used \in UsedType /\ vq \in QueueType /\ avail \in AvailType /\ drv \in DriverType
  BY DEF Typed
<1>1. CASE Driver
  <2>0. UNCHANGED <<features, dev, used, vq>>
    BY <1>1 DEF Driver, DrvAdd, DrvKick, DrvPoll, DrvReap, DrvEnableCb, DrvCheck, DrvInterrupt
  <2>1. CASE DrvAdd
    <3>1. avail'.usedEvent = avail.usedEvent /\ avail'.noInterrupt = avail.noInterrupt
      BY <1>a, <2>1 DEF DrvAdd, AvailType
    <3>2. drv'.pc = drv.pc /\ drv'.lastUsed = drv.lastUsed /\ irq' = irq
      BY <1>a, <2>1 DEF DrvAdd, DriverType
    <3> QED BY <2>0, <3>1, <3>2 DEF Interrupts
  <2>2. CASE DrvKick
    <3>1. drv'.pc = drv.pc /\ drv'.lastUsed = drv.lastUsed /\ UNCHANGED <<irq, avail>>
      BY <1>a, <2>2 DEF DrvKick, DriverType
    <3> QED BY <2>0, <3>1 DEF Interrupts
  <2>3. CASE DrvReap
    <3>1. drv'.pc = "run"
      BY <1>a, <2>3 DEF DrvReap, DriverType
    <3> QED BY <2>0, <3>1 DEF Interrupts
  <2>4. CASE DrvEnableCb
    <3>1. drv'.pc = "check" /\ drv'.lastUsed = drv.lastUsed
      BY <1>a, <2>4 DEF DrvEnableCb, DriverType
    <3>2. IF features.event THEN avail'.usedEvent = drv.lastUsed ELSE ~ avail'.noInterrupt
      BY <1>a, <2>4 DEF DrvEnableCb, AvailType
    <3> QED BY <2>0, <3>1, <3>2 DEF Interrupts
  <2>5. CASE DrvCheck
    <3>1. CASE drv.lastUsed = used.idx
      <4>1. drv'.pc = "sleep" /\ drv'.lastUsed = drv.lastUsed /\ drv.pc = "check" /\ avail' = avail
        BY <1>a, <2>5, <3>1 DEF DrvCheck, DriverType
      <4> QED BY <2>0, <3>1, <4>1 DEF Interrupts
    <3>2. CASE drv.lastUsed # used.idx
      <4>1. drv'.pc = "run"
        BY <1>a, <2>5, <3>2 DEF DrvCheck, DriverType
      <4> QED BY <2>0, <4>1 DEF Interrupts
    <3> QED BY <3>1, <3>2
  <2>6. CASE DrvInterrupt
    <3>1. CASE drv.pc = "sleep"
      <4>1. drv'.pc = "run"
        BY <1>a, <2>6, <3>1 DEF DrvInterrupt, DriverType
      <4> QED BY <2>0, <4>1 DEF Interrupts
    <3>2. CASE drv.pc # "sleep"
      <4>1. UNCHANGED <<drv, avail>>
        BY <2>6, <3>2 DEF DrvInterrupt
      <4> QED BY <2>0, <3>2, <4>1 DEF Interrupts
    <3> QED BY <3>1, <3>2
  <2> QED BY <1>1, <2>1, <2>2, <2>3, <2>4, <2>5, <2>6 DEF Driver, DrvPoll
<1>2. CASE HandleOutput
  <2>1. /\ dev.pc = "idle" /\ UNCHANGED <<features, drv, avail, irq>>
        /\ dev' = dev \/ dev' = Run("enable", "kick")
        /\ UNCHANGED used \/ DisableNotification(vq)
    BY <1>2 DEF HandleOutput, HandleTxBh, HandleTxTimer
  <2>2. used'.idx = used.idx
    BY <1>a, <2>1, DisableEffect DEF SameUsed
  <2>3. dev'.pc # "notify"
    BY <2>1, RunType DEF Pcs, Callers
  <2> QED BY <2>1, <2>2, <2>3, QuietInterrupts
<1>3. CASE TxBh \/ TxTimer \/ TxComplete
  <2>1. dev.pc = "idle" /\ UNCHANGED <<features, drv, avail, irq, used>>
    BY <1>3 DEF TxBh, TxTimer, TxComplete, ringVars
  <2>2. \/ dev' = dev \/ dev' = Run("flush", "bh") \/ dev' = Run("enable", "timer")
        \/ dev' = [Run("push", "complete") EXCEPT !.elem = async_tx]
    BY <1>3 DEF TxBh, TxTimer, TxComplete
  <2>3. dev'.pc # "notify"
    BY <2>1, <2>2 DEF Run, Idle
  <2> QED BY <2>1, <2>3, QuietInterrupts
<1>4. CASE Enable \/ Store \/ PopHead \/ PopEvent \/ PopPublish
  <2>1. dev.pc # "notify" /\ UNCHANGED <<features, drv, avail, irq>>
    BY <1>4 DEF Enable, Store, PopHead, PopEvent, PopPublish, Popping, ringVars
  <2>2. dev'.pc # "notify"
    BY <1>4, <1>a DEF Enable, Store, PopHead, PopEvent, PopPublish, DevType
  <2>3. used'.idx = used.idx
    BY <1>4, <1>a
       DEF Enable, Store, PopHead, PopEvent, PopPublish, NotifyEnabled, UsedType, ringVars
  <2> QED BY <2>1, <2>2, <2>3, QuietInterrupts
<1>5. CASE FlushNothing
  <2>1. dev.pc # "notify" /\ UNCHANGED <<features, drv, avail, irq>>
    BY <1>5 DEF FlushNothing
  <2>2. dev'.pc # "notify"
    BY <1>5, RunType, IdleType DEF FlushNothing, Pcs, Callers
  <2>3. used'.idx = used.idx
    BY <1>5, <1>a, DisableEffect DEF FlushNothing, SameUsed
  <2> QED BY <2>1, <2>2, <2>3, QuietInterrupts
<1>6. CASE PopEmpty
  <2>1. dev.pc # "notify" /\ UNCHANGED <<features, drv, avail, irq>> /\ Return(dev.num, vq)
    BY <1>6 DEF PopEmpty, Popping
  <2>2. used'.idx = used.idx /\ (dev' = Idle \/ dev' = Run("enable", "again"))
    BY <1>a, <2>1, ReturnEffect DEF SameUsed, Rescheduled, LooksAgain, Ends
  <2>3. dev'.pc # "notify"
    BY <2>2, RunType, IdleType DEF Pcs, Callers
  <2> QED BY <2>1, <2>2, <2>3, QuietInterrupts
<1>7. CASE SendBusy
  <2>1. dev.pc # "notify" /\ UNCHANGED <<features, drv, avail, irq>> /\ dev'.pc # "notify"
    BY <1>7, IdleType DEF SendBusy
  <2>2. used'.idx = used.idx
    BY <1>7, <1>a, DisableEffect DEF SendBusy, SameUsed
  <2> QED BY <2>1, <2>2, QuietInterrupts
<1>8. CASE PushElem
  <2>1. UNCHANGED <<features, drv, avail, irq>> /\ dev.pc # "notify" /\ dev'.pc = "notify"
    BY <1>8, <1>a DEF PushElem, DevType
  <2>2. used'.idx = Incr(used.idx)
    BY <1>8, <1>a DEF PushElem, Push, UsedType
  <2>3. vq'.signalled_used = vq.signalled_used
        /\ vq'.signalled_used_valid = (vq.signalled_used_valid /\ StillValid(used.idx, Incr(used.idx)))
    BY <1>8, <1>a DEF PushElem, Push, QueueType
  <2>4. vq'.signalled_used_valid => used'.idx # vq'.signalled_used
    BY <2>2, <2>3, FlushForgets
  <2>5. drv.pc = "sleep" /\ ~ irq => drv.lastUsed = used.idx
    BY <2>1 DEF Interrupts
  <2> QED BY <2>1, <2>2, <2>4, <2>5 DEF Interrupts
<1>9. CASE NotifyCompletion \/ NotifySent
  <2>1. dev.pc = "notify" /\ UNCHANGED <<features, drv, avail>> /\ irq' = (irq \/ vring_notify)
    BY <1>9 DEF NotifyCompletion, NotifySent, Notify
  <2>2. used'.idx = used.idx /\ dev'.pc # "notify"
    <3>1. CASE NotifyCompletion
      BY <3>1, RunType DEF NotifyCompletion, Pcs, Callers
    <3>2. CASE NotifySent /\ AtBurst(OneMore(dev.num))
      <4>1. Return(OneMore(dev.num), Notified)
        BY <3>2 DEF NotifySent
      <4>2. used'.idx = used.idx /\ (dev' = Idle \/ dev' = Run("enable", "again"))
        BY <4>1, ReturnEffect, NotifiedEffect DEF SameUsed, Rescheduled, LooksAgain, Ends
      <4> QED BY <4>2, RunType, IdleType DEF Pcs, Callers
    <3>3. CASE NotifySent /\ ~ AtBurst(OneMore(dev.num))
      BY <3>3, <1>a DEF NotifySent, DevType
    <3> QED BY <1>9, <3>1, <3>2, <3>3
  <2>3. drv.pc = "sleep" /\ drv.lastUsed # used.idx => irq'
    BY <2>1, NotifyWakes
  <2> QED BY <2>1, <2>2, <2>3 DEF Interrupts
<1>10. CASE VmStop \/ VmStart \/ Migrate
  <2>1. UNCHANGED <<features, drv, avail, irq, used, dev>> /\ dev.pc = "idle"
    BY <1>10 DEF VmStop, VmStart, Migrate
  <2> QED BY <2>1, QuietInterrupts
<1>11. CASE Reset
  <2>1. drv'.pc = "off" /\ UNCHANGED dev /\ dev.pc = "idle"
    BY <1>11, <1>a DEF Reset, DriverType
  <2> QED BY <2>1 DEF Interrupts
<1>12. CASE DriverOk
  <2>1. drv'.pc = "run" /\ UNCHANGED dev /\ dev.pc = "idle"
    BY <1>12 DEF DriverOk, FreshDriver
  <2> QED BY <2>1 DEF Interrupts
<1>13. CASE UNCHANGED vars
  BY <1>13 DEF vars, ringVars, Interrupts
<1> QED
  BY <1>1, <1>2, <1>3, <1>4, <1>5, <1>6, <1>7, <1>8, <1>9, <1>10, <1>11, <1>12, <1>13
     DEF Next, Device, MainLoop

-----------------------------------------------------------------------------
(* Lifecycle.                                                              *)

\* The device starts without a driver.
LEMMA InitLifecycle == Init => Lifecycle
  BY IdleType DEF Init, RingInit, FreshDriver, NewQueue, Lifecycle

\* Every step keeps what may be pending while the VM or the driver is stopped.
LEMMA StepLifecycle == Typed /\ Custody /\ Lifecycle /\ [Next]_vars => Lifecycle'
<1> SUFFICES ASSUME Typed, Custody, Lifecycle, [Next]_vars PROVE Lifecycle'
  OBVIOUS
<1>a. dev \in DevType /\ used \in UsedType /\ vq \in QueueType /\ avail \in AvailType /\ drv \in DriverType
  BY DEF Typed
<1>1. CASE Driver
  <2>1. UNCHANGED <<vq, config, dev, tx_waiting, armed, async_tx, driver_ok, vm_running>>
        /\ vm_running
    BY <1>1 DEF Driver, DrvAdd, DrvKick, DrvPoll, DrvReap, DrvEnableCb, DrvCheck, DrvInterrupt,
                txVars, vmVars
  <2>2. (drv'.pc = "off") = (drv.pc = "off")
    BY <1>1, <1>a DEF Driver, DrvAdd, DrvKick, DrvPoll, DrvReap, DrvEnableCb, DrvCheck,
                DrvInterrupt, DriverType
  <2> QED BY <2>1, <2>2 DEF Lifecycle
<1>2. CASE HandleOutput
  <2>1. /\ dev.pc = "idle" /\ UNCHANGED <<drv, config, async_tx, driver_ok, vm_running>> /\ kick' = FALSE
        /\ vm_running
    BY <1>2 DEF HandleOutput, vmVars, Lifecycle
  <2>2. vq'.ready = vq.ready
    BY <1>2, <1>a, DisableEffect DEF HandleOutput, HandleTxBh, HandleTxTimer, SameQueue
  <2>3. \/ UNCHANGED <<armed, tx_waiting, dev>>
        \/ UNCHANGED <<armed, dev>> /\ tx_waiting /\ tx_waiting' = TRUE
        \/ UNCHANGED dev /\ armed' = TRUE /\ tx_waiting' = TRUE
        \/ config.timer /\ dev' = Run("enable", "kick") /\ armed' = FALSE /\ tx_waiting' = FALSE
    BY <1>2, <2>1 DEF HandleOutput, HandleTxBh, HandleTxTimer
  <2>4. CASE dev' = Run("enable", "kick") /\ config.timer /\ armed' = FALSE /\ tx_waiting' = FALSE
    <3>1. dev'.pc = "enable" /\ dev'.caller = "kick"
      BY <2>4, RunType DEF Pcs, Callers
    <3> QED BY <2>1, <2>2, <2>4, <3>1 DEF Lifecycle
  <2>5. CASE UNCHANGED dev
    BY <2>1, <2>2, <2>3, <2>5, IdleType DEF Lifecycle, Typed
  <2> QED BY <2>3, <2>4, <2>5
<1>3. CASE TxBh
  <2>1. dev' = dev \/ (dev'.pc = "flush" /\ dev'.caller = "bh")
    BY <1>3, RunType DEF TxBh, Pcs, Callers
  <2>2. dev.pc = "idle" /\ vm_running
    BY <1>3 DEF TxBh, Lifecycle
  <2> QED BY <1>3, <2>1, <2>2 DEF TxBh, ringVars, vmVars, Lifecycle
<1>4. CASE TxTimer
  <2>1. dev' = dev \/ (dev'.pc = "enable" /\ dev'.caller = "timer")
    BY <1>4, RunType DEF TxTimer, Pcs, Callers
  <2>2. dev.pc = "idle" /\ vm_running
    BY <1>4 DEF TxTimer, Lifecycle
  <2> QED BY <1>4, <2>1, <2>2 DEF TxTimer, ringVars, vmVars, Lifecycle
<1>5. CASE TxComplete
  <2>1. dev'.pc = "push" /\ dev'.caller = "complete" /\ config.busy
    BY <1>5 DEF TxComplete, Run, Idle, Lifecycle
  <2> QED BY <1>5, <2>1 DEF TxComplete, ringVars, txVars, vmVars, Lifecycle
<1>6. CASE Enable \/ Store \/ PopHead \/ PopEvent \/ PopPublish \/ PushElem
  <2>1. dev.pc # "idle" /\ dev'.caller = dev.caller
    BY <1>6, <1>a
       DEF Enable, Store, PopHead, PopEvent, PopPublish, PushElem, Popping, DevType
  <2>2. vq'.ready = vq.ready
    BY <1>6, <1>a
       DEF Enable, Store, PopHead, PopEvent, PopPublish, PushElem, EnableNotification, Pop,
           Push, QueueType, ringVars
  <2>3. UNCHANGED <<drv, kick, config, txVars, vmVars>>
    BY <1>6 DEF Enable, Store, PopHead, PopEvent, PopPublish, PushElem, ringVars
  <2> QED BY <2>1, <2>2, <2>3 DEF Lifecycle, txVars, vmVars
<1>7. CASE FlushNothing
  <2>1. dev.pc # "idle" /\ UNCHANGED <<drv, kick, config, txVars, vmVars>>
    BY <1>7 DEF FlushNothing
  <2>2. vq'.ready = vq.ready
    BY <1>7, <1>a, DisableEffect DEF FlushNothing, SameQueue
  <2>3. \/ dev'.pc = "idle" /\ dev'.caller = "bh"
        \/ dev'.pc = "enable" /\ dev'.caller = "again" /\ dev.caller = "bh"
    BY <1>7, RunType, IdleType DEF FlushNothing, Pcs, Callers
  <2> QED BY <2>1, <2>2, <2>3 DEF Lifecycle, txVars, vmVars
<1>8. ASSUME NEW num, NEW q \in QueueType, Return(num, q), q.ready = vq.ready, dev.pc # "idle",
             UNCHANGED <<drv, kick, config, driver_ok, vm_running>>, async_tx' = async_tx
      PROVE  Lifecycle'
  <2>1. SameQueue(vq', q) /\ (Rescheduled \/ LooksAgain \/ Ends(q))
    BY <1>8, ReturnEffect
  <2>2. vq'.ready = vq.ready
    BY <1>8, <2>1 DEF SameQueue
  <2>3. CASE Rescheduled
    <3>1. dev'.pc = "idle" /\ dev'.caller = "bh" /\ vm_running
      BY <1>8, <2>3, IdleType DEF Rescheduled, Lifecycle
    <3> QED BY <1>8, <2>2, <2>3, <3>1 DEF Rescheduled, Lifecycle
  <2>4. CASE LooksAgain
    <3>1. dev'.pc = "enable" /\ dev'.caller = "again" /\ vm_running
      BY <1>8, <2>4, RunType DEF LooksAgain, Lifecycle, Pcs, Callers
    <3> QED BY <1>8, <2>2, <2>4, <3>1 DEF LooksAgain, Lifecycle
  <2>5. CASE Ends(q)
    <3>1. dev'.pc = "idle" /\ dev'.caller = "bh"
      BY <2>5, IdleType DEF Ends
    <3> QED BY <1>8, <2>2, <2>5, <3>1 DEF Ends, Lifecycle
  <2> QED BY <2>1, <2>3, <2>4, <2>5
<1>9. CASE PopEmpty
  BY <1>9, <1>8, <1>a DEF PopEmpty, Popping, vmVars
<1>10. CASE SendBusy
  <2>1. vq'.ready = vq.ready
    BY <1>10, <1>a, DisableEffect DEF SendBusy, SameQueue
  <2>2. dev'.pc = "idle" /\ dev'.caller = "bh" /\ config.busy /\ dev.pc # "idle"
    BY <1>10, IdleType DEF SendBusy
  <2> QED BY <1>10, <2>1, <2>2 DEF SendBusy, Lifecycle, vmVars
<1>11. CASE NotifyCompletion
  <2>1. vq'.ready = vq.ready
    BY <1>11, NotifiedEffect DEF NotifyCompletion
  <2>2. dev'.pc = "enable" /\ dev'.caller = "complete" /\ async_tx # NoHead /\ async_tx' = NoHead
    BY <1>11, RunType DEF NotifyCompletion, Pcs, Callers
  <2> QED BY <1>11, <2>1, <2>2 DEF NotifyCompletion, Lifecycle, vmVars
<1>12. CASE NotifySent
  <2>1. CASE AtBurst(OneMore(dev.num))
    <3>1. Return(OneMore(dev.num), Notified) /\ Notified \in QueueType /\ Notified.ready = vq.ready
      BY <1>12, <2>1, NotifiedEffect DEF NotifySent
    <3> QED BY <1>12, <1>8, <3>1 DEF NotifySent, vmVars
  <2>2. CASE ~ AtBurst(OneMore(dev.num))
    <3>1. dev'.caller = dev.caller /\ dev.pc # "idle" /\ vq'.ready = vq.ready /\ UNCHANGED <<armed, tx_waiting>>
      BY <1>12, <1>a, <2>2, NotifiedEffect DEF NotifySent, DevType
    <3> QED BY <1>12, <3>1 DEF NotifySent, Lifecycle, vmVars
  <2> QED BY <2>1, <2>2
<1>13. CASE VmStop
  BY <1>13 DEF VmStop, SetStatus, Lifecycle
<1>14. CASE VmStart
  BY <1>14 DEF VmStart, SetStatus, Lifecycle, Typed
<1>15. CASE Migrate
  <2>1. vq'.ready = vq.ready
    BY <1>15, <1>a DEF Migrate, LoadQueue, QueueType
  <2> QED BY <1>15, <2>1 DEF Migrate, vmVars, Lifecycle
<1>16. CASE Reset
  <2>1. vq'.ready = FALSE /\ drv'.pc = "off"
    BY <1>16, <1>a DEF Reset, ResetQueue, QueueType, DriverType
  <2> QED BY <1>16, <2>1 DEF Reset, SetStatus, Lifecycle, Typed
<1>17. CASE DriverOk
  <2>1. vq'.ready = TRUE /\ drv'.pc = "run"
    BY <1>17, <1>a DEF DriverOk, FreshDriver, QueueType
  <2> QED BY <1>17, <2>1 DEF DriverOk, SetStatus, Lifecycle, Typed
<1>18. CASE UNCHANGED vars
  BY <1>18 DEF vars, ringVars, txVars, vmVars, Lifecycle
<1> QED
  BY <1>1, <1>2, <1>3, <1>4, <1>5, <1>6, <1>7, <1>9, <1>10, <1>11, <1>12, <1>13, <1>14, <1>15,
     <1>16, <1>17, <1>18 DEF Next, Device, MainLoop

-----------------------------------------------------------------------------
(* Order.                                                                  *)

\* All buffers are with the driver at first.
LEMMA InitOrder == Init => InOrder
<1> SUFFICES ASSUME Init PROVE InOrder
  OBVIOUS
<1>1. /\ used.idx = 0 /\ drv.lastUsed = 0 /\ vq.last_avail_idx = 0 /\ vq.inuse = 0 /\ avail.idx = 0
      /\ drv.free = Heads /\ async_tx = NoHead /\ dev.pc = "idle" /\ driver_ok
  BY IdleType DEF Init, RingInit, EmptyUsed, EmptyAvail, NewQueue, FreshDriver
<1>2. Unused = 0 /\ num_heads = 0 /\ Away = 0 /\ Sub(vq.last_avail_idx, used.idx) = 0
  BY <1>1, SubZero, RangeNat DEF Unused, num_heads, Away
<1>3. ASSUME NEW h \in Heads PROVE Slot(h, Off(drv.lastUsed, h))
  <2>1. Off(drv.lastUsed, h) \in 0 .. Num - 1
    BY <1>1, OffValue, RangeNat DEF Heads
  <2>2. ~ Carried(h)
    BY <1>1, RingAssumption DEF Carried
  <2> QED BY <1>1, <1>2, <2>1, <2>2, RangeNat DEF Slot
<1> QED BY <1>1, <1>2, <1>3, RangeNat DEF InOrder, Positions

\* A step that moves no buffer.
LEMMA QuietOrder ==
    ASSUME InOrder, used'.idx = used.idx, used'.ring = used.ring,
           drv'.lastUsed = drv.lastUsed, drv'.free = drv.free, avail'.idx = avail.idx,
           avail'.ring = avail.ring, vq'.last_avail_idx = vq.last_avail_idx,
           vq'.inuse = vq.inuse, driver_ok' = driver_ok,
           \A h \in Heads : Carried(h)' => Carried(h),
           ~ driver_ok => dev'.pc = "idle"
    PROVE  InOrder'
<1>1. Unused' = Unused /\ Away' = Away /\ num_heads' = num_heads
  BY DEF Unused, Away, num_heads
<1>2. Positions' <=> Positions
  BY <1>1 DEF Positions
<1>3. ASSUME NEW h \in Heads, driver_ok PROVE Slot(h, Off(drv.lastUsed, h))'
  <2>1. Slot(h, Off(drv.lastUsed, h))
    BY <1>3 DEF InOrder
  <2> QED BY <1>1, <2>1 DEF Slot
<1> QED BY <1>2, <1>3 DEF InOrder

\* The distances, as numbers.
LEMMA Distances ==
    ASSUME Typed
    PROVE  /\ used.idx \in Idx /\ drv.lastUsed \in Idx /\ avail.idx \in Idx
           /\ vq.last_avail_idx \in Idx /\ vq.inuse \in 0 .. Num
           /\ Unused \in Nat /\ num_heads \in Nat /\ Away \in Nat
           /\ Away = Unused + vq.inuse + num_heads
           /\ \A h \in Heads : Off(drv.lastUsed, h) \in 0 .. Num - 1
<1>1. /\ used.idx \in Idx /\ drv.lastUsed \in Idx /\ avail.idx \in Idx
      /\ vq.last_avail_idx \in Idx /\ vq.inuse \in 0 .. Num
  BY DEF Typed, UsedType, DriverType, AvailType, QueueType
<1>2. Unused \in Nat /\ num_heads \in Nat
  BY <1>1, SubValue, RangeNat DEF Unused, num_heads
<1>3. Away \in Nat
  BY <1>1, <1>2 DEF Away
<1>4. \A h \in Heads : Off(drv.lastUsed, h) \in 0 .. Num - 1
  BY <1>1, OffValue DEF Heads
<1> QED BY <1>1, <1>2, <1>3, <1>4 DEF Away

\* How far the device and the available index are from what the driver has taken back.
LEMMA FromLastUsed ==
    ASSUME Typed, Positions
    PROVE  /\ Sub(vq.last_avail_idx, drv.lastUsed) = Unused + vq.inuse
           /\ Sub(avail.idx, drv.lastUsed) = Away
<1>1. Unused + vq.inuse < IdxRange /\ Away < IdxRange
  BY Distances, RangeNat DEF Positions
<1>2. Sub(vq.last_avail_idx, used.idx) + Sub(used.idx, drv.lastUsed) = Unused + vq.inuse
  BY Distances DEF Positions, Unused
<1>3. Sub(vq.last_avail_idx, drv.lastUsed) = Unused + vq.inuse
  BY <1>1, <1>2, Distances, SubAdd
<1>4. Sub(avail.idx, vq.last_avail_idx) + Sub(vq.last_avail_idx, drv.lastUsed) = Away
  BY <1>3, Distances DEF num_heads
<1>5. Sub(avail.idx, drv.lastUsed) = Away
  BY <1>1, <1>4, Distances, SubAdd
<1> QED BY <1>3, <1>5

\* The driver has a buffer to add only while the ring has room for it.
LEMMA AddRoom ==
    ASSUME Typed, Lifecycle, InOrder, DrvAdd
    PROVE  driver_ok /\ Positions /\ Away < Num /\ num_heads' = num_heads + 1
<1> DEFINE h == avail.idx % Num
           l == drv.lastUsed
<1>1. h \in drv.free /\ drv.pc # "off" /\ UNCHANGED vq
      /\ avail' = [avail EXCEPT !.ring[h] = h, !.idx = Incr(@)]
  BY DEF DrvAdd
<1>2. driver_ok /\ Positions
  BY <1>1 DEF Lifecycle, InOrder, Typed
<1>3. h \in Heads
  BY Distances, OffSlot
<1>4. Away < Num
  <2>1. Slot(h, Off(l, h))
    BY <1>2, <1>3 DEF InOrder
  <2>2. Off(l, h) \in 0 .. Num - 1
    BY <1>3, Distances
  <2> HIDE DEF h, l
  <2> QED BY <1>1, <2>1, <2>2, Distances, RangeNat DEF Slot
<1>5. num_heads' = num_heads + 1
  <2>1. num_heads < IdxRange - 1
    BY <1>4, Distances, RangeNat
  <2>2. avail'.idx = Incr(avail.idx)
    BY <1>1 DEF Typed, AvailType
  <2> QED BY <1>1, <2>1, <2>2, Distances, SubIncr DEF num_heads
<1> QED BY <1>2, <1>4, <1>5

\* A buffer the driver adds keeps its place in the order.
LEMMA AddOrder ==
    ASSUME Typed, Lifecycle, InOrder, DrvAdd, UNCHANGED <<dev, async_tx, driver_ok>>
    PROVE  InOrder'
<1> DEFINE h == avail.idx % Num
           l == drv.lastUsed
<1>1. /\ avail' = [avail EXCEPT !.ring[h] = h, !.idx = Incr(@)]
      /\ drv' = [drv EXCEPT !.free = @ \ {h}, !.numAdded = @ + 1]
      /\ UNCHANGED <<used, vq>>
  BY DEF DrvAdd
<1>2. driver_ok /\ Positions
  BY AddRoom
<1>3. h \in Heads
  BY Distances, OffSlot
<1>4. Away < Num
  BY AddRoom
<1>5. Off(l, h) = Away
  <2>1. Sub(avail.idx, l) = Away
    BY <1>2, FromLastUsed
  <2> QED BY <1>4, <2>1, Distances, OffSlot
<1> HIDE DEF h
<1>6. /\ avail'.idx = Incr(avail.idx) /\ avail'.ring = [avail.ring EXCEPT ![h] = h]
      /\ drv'.lastUsed = l /\ drv'.free = drv.free \ {h}
      /\ avail.ring \in [Heads -> Heads]
  BY <1>1 DEF Typed, AvailType, DriverType
<1>7. num_heads' = num_heads + 1 /\ Unused' = Unused /\ Away' = Away + 1 /\ vq'.inuse = vq.inuse
  <2>2. num_heads' = num_heads + 1
    BY AddRoom
  <2>3. Unused' = Unused
    BY <1>1, <1>6 DEF Unused
  <2>4. Away' = Unused' + vq.inuse + num_heads'
    BY <1>1 DEF Away
  <2> QED BY <1>1, <2>2, <2>3, <2>4, Distances
<1>8. Positions'
  BY <1>1, <1>2, <1>4, <1>7, Distances, RangeNat DEF Positions
<1>9. ASSUME NEW g \in Heads PROVE Slot(g, Off(drv.lastUsed, g))'
  <2> DEFINE d == Off(l, g)
  <2>1. Slot(g, d)
    BY <1>2 DEF InOrder
  <2>2. d = Away <=> g = h
    BY <1>3, <1>5, Distances, OffInjective
  <2>3. d \in 0 .. Num - 1
    BY Distances
  <2>4. Off(drv.lastUsed, g)' = d
    BY <1>6 DEF Off
  <2>5. Carried(g)' <=> Carried(g)
    BY DEF Carried
  <2> HIDE DEF d, l
  <2>6. (d < Unused' => used'.ring[g] = g) /\ (Carried(g)' => d = Unused')
    BY <1>1, <1>7, <2>1, <2>5 DEF Slot
  <2>7. Unused' + vq'.inuse <= d /\ d < Away' => avail'.ring[g] = g
    <3>1. CASE g = h
      BY <1>3, <1>6, <3>1
    <3>2. CASE g # h
      <4>1. avail'.ring[g] = avail.ring[g]
        BY <1>6, <3>2
      <4>2. d # Away
        BY <2>2, <3>2
      <4> QED BY <1>7, <2>1, <2>3, <4>1, <4>2, Distances DEF Slot
    <3> QED BY <3>1, <3>2
  <2>8. g \in drv'.free <=> Away' <= d
    BY <1>6, <1>7, <2>1, <2>2, <2>3, Distances DEF Slot
  <2> QED BY <2>4, <2>6, <2>7, <2>8 DEF Slot
<1> QED BY <1>2, <1>8, <1>9 DEF InOrder

\* A buffer the driver takes back keeps the order.
LEMMA ReapOrder ==
    ASSUME Typed, Lifecycle, InOrder, DrvReap, UNCHANGED <<dev, async_tx, driver_ok>>
    PROVE  InOrder'
<1> DEFINE l == drv.lastUsed
           h == l % Num
<1>1. /\ drv' = [drv EXCEPT !.lastUsed = Incr(@), !.free = @ \cup {used.ring[h]}]
      /\ drv.pc = "run" /\ l # used.idx /\ UNCHANGED <<used, vq, avail>>
  BY DEF DrvReap
<1>2. driver_ok /\ Positions
  BY <1>1 DEF Lifecycle, InOrder, Typed
<1>3. h \in Heads /\ Off(l, h) = 0
  <2>1. Sub(l, l) = 0 /\ 0 < Num
    BY Distances, SubZero, RangeNat
  <2> QED BY <2>1, Distances, OffSlot
<1>4. Unused > 0
  BY <1>1, Distances, SubZero DEF Unused
<1>5. used.ring[h] = h
  <2>1. Slot(h, Off(l, h))
    BY <1>2, <1>3 DEF InOrder
  <2> HIDE DEF h, l
  <2> QED BY <1>3, <1>4, <2>1 DEF Slot
<1> HIDE DEF h
<1>6. drv'.lastUsed = Incr(l) /\ drv'.free = drv.free \cup {h}
  BY <1>1, <1>5 DEF Typed, DriverType
<1>7. num_heads' = num_heads /\ Unused' = Unused - 1 /\ Away' = Away - 1 /\ vq'.inuse = vq.inuse
  <2>1. num_heads' = num_heads
    BY <1>1 DEF num_heads
  <2>2. Unused' = Unused - 1
    BY <1>1, <1>4, <1>6, Distances, SubIncr DEF Unused
  <2>3. Away' = Unused' + vq.inuse + num_heads'
    BY <1>1 DEF Away
  <2> QED BY <1>1, <2>1, <2>2, <2>3, Distances
<1>8. Positions'
  BY <1>1, <1>2, <1>7, Distances, RangeNat DEF Positions
<1>9. ASSUME NEW g \in Heads PROVE Slot(g, Off(drv.lastUsed, g))'
  <2> DEFINE d == Off(l, g)
             e == Off(Incr(l), g)
  <2>1. Slot(g, d)
    BY <1>2 DEF InOrder
  <2>2. d = 0 <=> g = h
    BY <1>3, Distances, OffInjective
  <2>3. d \in 0 .. Num - 1 /\ e = IF d = 0 THEN Num - 1 ELSE d - 1
    BY Distances, OffIncr
  <2>4. Off(drv.lastUsed, g)' = e
    BY <1>6 DEF Off
  <2>5. Carried(g)' <=> Carried(g)
    BY DEF Carried
  <2>6. Away <= Num /\ Unused <= Away /\ Unused \in Nat /\ Away \in Nat /\ vq.inuse \in Nat
    BY <1>2, Distances DEF Positions
  <2> HIDE DEF d, e, l
  <2>7. e < Unused' => used'.ring[g] = g
    BY <1>1, <1>4, <1>7, <2>1, <2>3, <2>6, RangeNat DEF Slot
  <2>8. Unused' + vq'.inuse <= e /\ e < Away' => avail'.ring[g] = g
    BY <1>1, <1>4, <1>7, <2>1, <2>3, <2>6, RangeNat DEF Slot
  <2>9. g \in drv'.free <=> Away' <= e
    BY <1>4, <1>6, <1>7, <2>1, <2>2, <2>3, <2>6, RangeNat DEF Slot
  <2>10. Carried(g)' => e = Unused'
    BY <1>4, <1>7, <2>1, <2>3, <2>5, <2>6, RangeNat DEF Slot
  <2> QED BY <2>4, <2>7, <2>8, <2>9, <2>10 DEF Slot
<1> QED BY <1>2, <1>8, <1>9 DEF InOrder

\* virtqueue_pop keeps the order.
LEMMA PopOrder ==
    ASSUME Typed, Custody, InOrder, PopHead
    PROVE  InOrder'
<1> DEFINE l == drv.lastUsed
           h == vq.last_avail_idx % Num
<1>1. /\ vq' = [vq EXCEPT !.last_avail_idx = Incr(@), !.inuse = @ + 1]
      /\ dev' = [dev EXCEPT !.elem = avail.ring[h],
                   !.pc = IF features.event /\ vq.notification THEN "event" ELSE "send"]
      /\ num_heads # 0 /\ UNCHANGED <<used, drv, avail, async_tx, driver_ok>>
      /\ Popping
  BY DEF PopHead, Pop, get_head, queue_empty, txVars, vmVars
<1>2. driver_ok /\ Positions /\ vq.inuse = 0 /\ async_tx = NoHead
  BY <1>1 DEF Popping, InOrder, Typed, Custody, Holding
<1>3. h \in Heads
  BY Distances, OffSlot
<1>4. num_heads > 0 /\ Unused < Num /\ Unused < Away
  BY <1>1, <1>2, Distances, RangeNat DEF Positions
<1>5. Off(l, h) = Unused
  <2>1. Sub(vq.last_avail_idx, l) = Unused
    BY <1>2, FromLastUsed, Distances
  <2> QED BY <1>4, <2>1, Distances, OffSlot
<1>6. avail.ring[h] = h
  <2>1. Slot(h, Off(l, h))
    BY <1>2, <1>3 DEF InOrder
  <2> HIDE DEF h, l
  <2> QED BY <1>2, <1>4, <1>5, <2>1, Distances DEF Slot
<1> HIDE DEF h
<1>7. /\ vq'.last_avail_idx = Incr(vq.last_avail_idx) /\ vq'.inuse = 1
      /\ dev'.elem = h /\ dev'.pc \in {"event", "send"}
  <2>1. vq.inuse + 1 = 1
    BY <1>2
  <2> QED BY <1>1, <1>6, <2>1 DEF Typed, QueueType, DevType
<1>8. num_heads' = num_heads - 1 /\ Unused' = Unused /\ Away' = Away
  <2>1. num_heads' = num_heads - 1
    BY <1>1, <1>4, <1>7, Distances, SubIncr DEF num_heads
  <2>2. Unused' = Unused
    BY <1>1 DEF Unused
  <2>3. Away' = Unused' + vq'.inuse + num_heads'
    BY DEF Away
  <2> QED BY <1>2, <1>7, <2>1, <2>2, <2>3, Distances
<1>9. Positions'
  <2>1. Sub(Incr(vq.last_avail_idx), used.idx) = Sub(vq.last_avail_idx, used.idx) + 1
    <3>1. Sub(vq.last_avail_idx, used.idx) < IdxRange - 1
      BY <1>2, RangeNat DEF Positions
    <3> QED BY <3>1, Distances, SubIncr
  <2> QED BY <1>1, <1>2, <1>7, <1>8, <2>1, Distances DEF Positions
<1>10. ASSUME NEW g \in Heads PROVE Slot(g, Off(drv.lastUsed, g))'
  <2> DEFINE d == Off(l, g)
  <2>1. Slot(g, d)
    BY <1>2 DEF InOrder
  <2>2. d \in 0 .. Num - 1 /\ (d = Unused <=> g = h)
    BY <1>3, <1>5, Distances, OffInjective
  <2>3. Off(drv.lastUsed, g)' = d
    BY <1>1 DEF Off
  <2>4. Carried(g)' => g = h
    BY <1>1, <1>2, <1>7, RingAssumption DEF Carried
  <2> HIDE DEF d, l
  <2>5. Unused' + vq'.inuse <= d /\ d < Away' => avail'.ring[g] = g
    BY <1>1, <1>2, <1>7, <1>8, <2>1, <2>2, Distances DEF Slot
  <2>6. (d < Unused' => used'.ring[g] = g) /\ (g \in drv'.free <=> Away' <= d)
    BY <1>1, <1>8, <2>1 DEF Slot
  <2> QED BY <1>8, <2>2, <2>3, <2>4, <2>5, <2>6 DEF Slot
<1> QED BY <1>1, <1>2, <1>9, <1>10 DEF InOrder

\* virtqueue_fill and virtqueue_flush keep the order.
LEMMA PushOrder ==
    ASSUME Typed, Custody, InOrder, PushElem
    PROVE  InOrder'
<1> DEFINE l == drv.lastUsed
           h == used.idx % Num
<1>1. /\ used' = [used EXCEPT !.ring[h] = dev.elem, !.idx = Incr(used.idx)]
      /\ vq' = [vq EXCEPT !.inuse = @ - 1,
                  !.signalled_used_valid = @ /\ StillValid(used.idx, Incr(used.idx))]
      /\ dev' = [dev EXCEPT !.pc = "notify", !.elem = NoHead]
      /\ dev.pc \in {"send", "push"} /\ UNCHANGED <<drv, avail, async_tx, driver_ok>>
  BY DEF PushElem, Push, txVars, vmVars
<1>2. driver_ok /\ Positions /\ vq.inuse = 1
  BY <1>1 DEF InOrder, Typed, Custody, Holding
<1>3. h \in Heads /\ dev.elem \in Heads
  BY <1>1, Distances, OffSlot DEF Typed, Custody
<1>4. Unused < Num
  BY <1>2, Distances, RangeNat DEF Positions
<1>5. Off(l, h) = Unused
  BY <1>4, Distances, OffSlot DEF Unused
<1>6. dev.elem = h
  <2>1. Carried(dev.elem)
    BY <1>1 DEF Carried, Custody
  <2>2. Slot(dev.elem, Off(l, dev.elem))
    BY <1>2, <1>3 DEF InOrder
  <2>3. Off(l, dev.elem) = Unused
    BY <2>1, <2>2 DEF Slot
  <2> QED BY <1>3, <1>5, <2>3, Distances, OffInjective
<1> HIDE DEF h
<1>7. /\ used'.idx = Incr(used.idx) /\ used'.ring = [used.ring EXCEPT ![h] = h]
      /\ used.ring \in [Heads -> Heads]
      /\ vq'.last_avail_idx = vq.last_avail_idx /\ vq'.inuse = 0 /\ dev'.pc = "notify"
  <2>1. vq.inuse - 1 = 0
    BY <1>2
  <2> QED BY <1>1, <1>6, <2>1 DEF Typed, QueueType, DevType, UsedType
<1>8. num_heads' = num_heads /\ Unused' = Unused + 1 /\ Away' = Away
  <2>1. num_heads' = num_heads
    BY <1>1, <1>7 DEF num_heads
  <2>2. Unused' = Unused + 1
    BY <1>1, <1>4, <1>7, Distances, SubIncr, RangeNat DEF Unused
  <2>3. Away' = Unused' + vq'.inuse + num_heads'
    BY DEF Away
  <2> QED BY <1>2, <1>7, <2>1, <2>2, <2>3, Distances
<1>9. Positions'
  <2>1. Sub(vq.last_avail_idx, Incr(used.idx)) = Sub(vq.last_avail_idx, used.idx) - 1
    BY <1>2, Distances, SubIncr DEF Positions
  <2> QED BY <1>1, <1>2, <1>7, <1>8, <2>1, Distances DEF Positions
<1>10. ASSUME NEW g \in Heads PROVE Slot(g, Off(drv.lastUsed, g))'
  <2> DEFINE d == Off(l, g)
  <2>1. Slot(g, d)
    BY <1>2 DEF InOrder
  <2>2. d \in 0 .. Num - 1 /\ (d = Unused <=> g = h)
    BY <1>3, <1>5, Distances, OffInjective
  <2>3. Off(drv.lastUsed, g)' = d
    BY <1>1 DEF Off
  <2>4. ~ Carried(g)'
    BY <1>7 DEF Carried
  <2> HIDE DEF d, l
  <2>5. Unused' + vq'.inuse <= d /\ d < Away' => avail'.ring[g] = g
    BY <1>1, <1>2, <1>7, <1>8, <2>1, <2>2, Distances DEF Slot
  <2>6. g \in drv'.free <=> Away' <= d
    BY <1>1, <1>8, <2>1 DEF Slot
  <2>7. d < Unused' => used'.ring[g] = g
    <3>1. CASE g = h
      BY <1>3, <1>7, <3>1
    <3>2. CASE g # h
      BY <1>7, <1>8, <2>1, <2>2, <3>2, Distances DEF Slot
    <3> QED BY <3>1, <3>2
  <2> QED BY <2>3, <2>4, <2>5, <2>6, <2>7 DEF Slot
<1> QED BY <1>1, <1>2, <1>9, <1>10 DEF InOrder

\* Every step keeps the order, unless a busy device is reset.
LEMMA StepOrder ==
    Typed /\ Custody /\ Lifecycle /\ NoResetWhileBusy /\ InOrder /\ [Next]_vars => InOrder'
<1> SUFFICES ASSUME Typed, Custody, Lifecycle, NoResetWhileBusy, InOrder, [Next]_vars
             PROVE  InOrder'
  OBVIOUS
<1>a. dev \in DevType /\ used \in UsedType /\ vq \in QueueType /\ avail \in AvailType /\ drv \in DriverType
  BY DEF Typed
<1>b. NoHead \notin Heads
  BY RingAssumption
<1>c. ~ driver_ok => async_tx = NoHead /\ dev.pc = "idle" /\ ~ vq.ready
  BY DEF Lifecycle, NoResetWhileBusy, InOrder
<1>1. CASE Driver
  <2>0. UNCHANGED <<dev, async_tx, driver_ok>>
    BY <1>1 DEF Driver, txVars, vmVars
  <2>1. CASE DrvAdd
    BY <2>0, <2>1, AddOrder
  <2>2. CASE DrvReap
    BY <2>0, <2>2, ReapOrder
  <2>3. CASE DrvKick \/ DrvEnableCb \/ DrvCheck \/ DrvInterrupt
    <3>1. UNCHANGED <<used, vq>>
      BY <2>3 DEF DrvKick, DrvEnableCb, DrvCheck, DrvInterrupt
    <3>2. drv'.lastUsed = drv.lastUsed /\ drv'.free = drv.free
      BY <1>a, <2>3 DEF DrvKick, DrvEnableCb, DrvCheck, DrvInterrupt, DriverType
    <3>3. avail'.idx = avail.idx /\ avail'.ring = avail.ring
      BY <1>a, <2>3 DEF DrvKick, DrvEnableCb, DrvCheck, DrvInterrupt, AvailType
    <3>4. \A h \in Heads : Carried(h)' => Carried(h)
      BY <2>0 DEF Carried
    <3> QED BY <1>c, <2>0, <3>1, <3>2, <3>3, <3>4, QuietOrder
  <2> QED BY <1>1, <2>1, <2>2, <2>3 DEF Driver, DrvPoll
<1>2. CASE HandleOutput
  <2>1. /\ dev.pc = "idle" /\ UNCHANGED <<drv, avail, async_tx, driver_ok>>
        /\ dev' = dev \/ (dev' = Run("enable", "kick") /\ vq.ready)
        /\ UNCHANGED <<vq, used>> \/ DisableNotification(vq)
    BY <1>2 DEF HandleOutput, HandleTxBh, HandleTxTimer, vmVars
  <2>2. SameQueue(vq', vq) /\ SameUsed
    BY <1>a, <2>1, DisableEffect DEF SameQueue, SameUsed
  <2>3. dev'.pc \in {"idle", "enable"} /\ (~ driver_ok => dev' = dev)
    BY <1>c, <2>1, RunType DEF Pcs, Callers
  <2>4. \A h \in Heads : Carried(h)' => Carried(h)
    BY <2>1, <2>3 DEF Carried
  <2> QED BY <1>c, <2>1, <2>2, <2>3, <2>4, QuietOrder DEF SameQueue, SameUsed
<1>3. CASE TxBh \/ TxTimer \/ TxComplete
  <2>1. dev.pc = "idle" /\ UNCHANGED <<used, drv, avail, vq, async_tx, driver_ok>>
    BY <1>3 DEF TxBh, TxTimer, TxComplete, ringVars, txVars, vmVars
  <2>2. dev' = dev \/ (dev'.pc \in {"flush", "enable", "push"} /\ driver_ok)
    <3>1. CASE TxBh \/ TxTimer
      <4>1. dev' = dev \/ ((dev' = Run("flush", "bh") \/ dev' = Run("enable", "timer")) /\ driver_ok)
        BY <3>1 DEF TxBh, TxTimer
      <4> QED BY <4>1, RunType DEF Pcs, Callers
    <3>2. CASE TxComplete
      <4>1. dev' = [Run("push", "complete") EXCEPT !.elem = async_tx] /\ driver_ok
        BY <1>c, <3>2 DEF TxComplete
      <4> QED BY <4>1 DEF Run, Idle
    <3> QED BY <1>3, <3>1, <3>2
  <2>3. \A h \in Heads : Carried(h)' => Carried(h)
    BY <2>1, <2>2 DEF Carried
  <2> QED BY <1>c, <2>1, <2>2, <2>3, QuietOrder
<1>4. CASE Enable \/ Store \/ PopEvent \/ PopPublish
  <2>1. /\ UNCHANGED <<drv, avail, async_tx, driver_ok>>
        /\ dev.pc \in {"enable", "store", "event", "publish"}
    BY <1>4 DEF Enable, Store, PopEvent, PopPublish, ringVars, txVars, vmVars
  <2>2. /\ dev'.pc \in {"store", "flush", "publish", "send"}
        /\ dev'.pc \in {"publish", "send"} => dev.pc \in {"event", "publish"}
        /\ dev'.elem = dev.elem
    BY <1>4, <1>a DEF Enable, Store, PopEvent, PopPublish, DevType
  <2>3. vq'.last_avail_idx = vq.last_avail_idx /\ vq'.inuse = vq.inuse
    BY <1>4, <1>a DEF Enable, Store, PopEvent, PopPublish, EnableNotification, QueueType, ringVars
  <2>4. used'.idx = used.idx /\ used'.ring = used.ring
    BY <1>4, <1>a DEF Enable, Store, PopEvent, PopPublish, NotifyEnabled, UsedType, ringVars
  <2>5. \A h \in Heads : Carried(h)' => Carried(h)
    BY <2>1, <2>2 DEF Carried
  <2> QED BY <1>c, <2>1, <2>2, <2>3, <2>4, <2>5, QuietOrder
<1>5. CASE FlushNothing
  <2>1. UNCHANGED <<drv, avail, async_tx, driver_ok>> /\ dev.pc = "flush"
    BY <1>5 DEF FlushNothing, txVars, vmVars
  <2>2. dev'.pc \in {"enable", "idle"}
    BY <1>5, RunType, IdleType DEF FlushNothing, Pcs, Callers
  <2>3. SameQueue(vq', vq) /\ SameUsed
    BY <1>5, <1>a, DisableEffect DEF FlushNothing, SameQueue, SameUsed
  <2>4. \A h \in Heads : Carried(h)' => Carried(h)
    BY <2>1, <2>2 DEF Carried
  <2> QED BY <1>c, <2>1, <2>2, <2>3, <2>4, QuietOrder DEF SameQueue, SameUsed
<1>6. ASSUME NEW num, NEW q \in QueueType, Return(num, q), q.last_avail_idx = vq.last_avail_idx,
             q.inuse = vq.inuse, dev.pc # "idle", async_tx = NoHead,
             UNCHANGED <<drv, avail, async_tx, driver_ok>>
      PROVE  InOrder'
  <2>1. SameQueue(vq', q) /\ SameUsed /\ (dev' = Idle \/ dev' = Run("enable", "again"))
    BY <1>6, ReturnEffect DEF Rescheduled, LooksAgain, Ends
  <2>2. dev'.pc \in {"enable", "idle"}
    BY <2>1, RunType, IdleType DEF Pcs, Callers
  <2>3. \A h \in Heads : Carried(h)' => Carried(h)
    BY <1>6, <1>b, <2>2 DEF Carried
  <2> QED BY <1>c, <1>6, <2>1, <2>2, <2>3, QuietOrder DEF SameQueue, SameUsed
<1>7. CASE PopEmpty
  BY <1>7, <1>6, <1>a DEF PopEmpty, Popping, Custody, vmVars
<1>8. CASE PopHead
  BY <1>8, PopOrder
<1>9. CASE SendBusy
  <2>1. UNCHANGED <<drv, avail, driver_ok>> /\ dev.pc = "send" /\ async_tx' = dev.elem
        /\ dev'.pc = "idle"
    BY <1>9, IdleType DEF SendBusy, vmVars
  <2>2. SameQueue(vq', vq) /\ SameUsed
    BY <1>9, <1>a, DisableEffect DEF SendBusy
  <2>3. \A h \in Heads : Carried(h)' => Carried(h)
    BY <2>1 DEF Carried
  <2> QED BY <1>c, <2>1, <2>2, <2>3, QuietOrder DEF SameQueue, SameUsed
<1>10. CASE PushElem
  BY <1>10, PushOrder
<1>11. CASE NotifyCompletion
  <2>1. UNCHANGED <<used, drv, avail, driver_ok>> /\ dev.pc = "notify" /\ async_tx' = NoHead
        /\ dev'.pc = "enable"
    BY <1>11, RunType DEF NotifyCompletion, vmVars, Pcs, Callers
  <2>2. vq'.last_avail_idx = vq.last_avail_idx /\ vq'.inuse = vq.inuse
    BY <1>11, NotifiedEffect DEF NotifyCompletion
  <2>3. \A h \in Heads : Carried(h)' => Carried(h)
    BY <1>b, <2>1 DEF Carried
  <2> QED BY <1>c, <2>1, <2>2, <2>3, QuietOrder
<1>12. CASE NotifySent
  <2>1. CASE AtBurst(OneMore(dev.num))
    <3>1. Return(OneMore(dev.num), Notified)
      BY <1>12, <2>1 DEF NotifySent
    <3> QED BY <1>12, <1>6, <3>1, NotifiedEffect DEF NotifySent, vmVars
  <2>2. CASE ~ AtBurst(OneMore(dev.num))
    <3>1. /\ dev'.pc = "pop" /\ dev.pc = "notify" /\ async_tx' = NoHead
          /\ UNCHANGED <<used, drv, avail, driver_ok>>
      BY <1>12, <1>a, <2>2 DEF NotifySent, DevType, vmVars
    <3>2. vq'.last_avail_idx = vq.last_avail_idx /\ vq'.inuse = vq.inuse
      BY <1>12, <2>2, NotifiedEffect DEF NotifySent
    <3>3. \A h \in Heads : Carried(h)' => Carried(h)
      BY <1>b, <3>1 DEF Carried
    <3> QED BY <1>c, <3>1, <3>2, <3>3, QuietOrder
  <2> QED BY <2>1, <2>2
<1>13. CASE VmStop \/ VmStart
  <2>1. UNCHANGED <<used, drv, avail, vq, dev, async_tx, driver_ok>>
    BY <1>13 DEF VmStop, VmStart, SetStatus
  <2>2. \A h \in Heads : Carried(h)' => Carried(h)
    BY <2>1 DEF Carried
  <2> QED BY <1>c, <2>1, <2>2, QuietOrder
<1>14. CASE Migrate
  <2>1. UNCHANGED <<used, drv, avail, dev, driver_ok>> /\ dev.pc = "idle"
    BY <1>14 DEF Migrate, vmVars
  <2>2. async_tx = NoHead /\ async_tx' = NoHead
    BY <1>14 DEF Migrate, Lifecycle, NoResetWhileBusy
  <2>3. vq.inuse = 0
    BY <2>1, <2>2 DEF Custody, Holding
  <2>4. vq'.last_avail_idx = vq.last_avail_idx /\ vq'.inuse = 0
    BY <1>14, <1>a DEF Migrate, LoadQueue, QueueType
  <2>5. \A h \in Heads : Carried(h)' => Carried(h)
    BY <2>1, <2>2 DEF Carried
  <2> QED BY <1>c, <2>1, <2>3, <2>4, <2>5, QuietOrder
<1>15. CASE Reset
  <2>1. dev.pc = "idle" /\ dev' = dev /\ driver_ok' = FALSE /\ async_tx = NoHead
    BY <1>15 DEF Reset, SetStatus, Lifecycle, NoResetWhileBusy
  <2>2. vq.inuse = 0
    BY <2>1 DEF Custody, Holding
  <2>3. vq'.last_avail_idx = 0 /\ vq'.inuse = 0
    BY <1>15, <1>a, <2>2 DEF Reset, ResetQueue, QueueType
  <2> QED BY <2>1, <2>3 DEF InOrder
<1>16. CASE DriverOk
  <2>1. /\ ~ driver_ok /\ driver_ok' /\ dev' = dev /\ dev.pc = "idle" /\ async_tx' = async_tx
        /\ avail' = EmptyAvail /\ used' = EmptyUsed /\ drv' = FreshDriver
        /\ vq' = [vq EXCEPT !.ready = TRUE]
    BY <1>16 DEF DriverOk, SetStatus
  <2>2. /\ avail'.idx = 0 /\ used'.idx = 0 /\ drv'.lastUsed = 0 /\ drv'.free = Heads
        /\ vq'.last_avail_idx = 0 /\ vq'.inuse = 0 /\ dev'.pc = "idle" /\ async_tx' = NoHead
    BY <1>a, <1>c, <2>1 DEF EmptyAvail, EmptyUsed, FreshDriver, InOrder, QueueType
  <2>3. Unused' = 0 /\ num_heads' = 0 /\ Away' = 0 /\ Sub(vq.last_avail_idx, used.idx)' = 0
    BY <2>2, SubZero, RangeNat DEF Unused, num_heads, Away
  <2>4. ASSUME NEW h \in Heads PROVE Slot(h, Off(drv.lastUsed, h))'
    <3>1. Off(drv.lastUsed, h)' \in 0 .. Num - 1
      BY <2>2, OffValue, RangeNat DEF Heads
    <3>2. ~ Carried(h)'
      BY <1>b, <2>2 DEF Carried
    <3> QED BY <2>2, <2>3, <3>1, <3>2, RangeNat DEF Slot
  <2> QED BY <2>1, <2>2, <2>3, <2>4, RangeNat DEF InOrder, Positions
<1>17. CASE UNCHANGED vars
  <2>1. UNCHANGED <<used, drv, avail, vq, dev, async_tx, driver_ok>>
    BY <1>17 DEF vars, ringVars, txVars, vmVars
  <2>2. \A h \in Heads : Carried(h)' => Carried(h)
    BY <2>1 DEF Carried
  <2> QED BY <1>c, <2>1, <2>2, QuietOrder
<1> QED
  BY <1>1, <1>2, <1>3, <1>4, <1>5, <1>7, <1>8, <1>9, <1>10, <1>11, <1>12, <1>13, <1>14, <1>15,
     <1>16, <1>17 DEF Next, Device, MainLoop

-----------------------------------------------------------------------------
(* Nobody forgets to look.                                                 *)

\* There is nothing to look at at first.
LEMMA InitLooking == Init => Looking
<1> SUFFICES ASSUME Init PROVE Looking
  OBVIOUS
<1>1. /\ vq.last_avail_idx = 0 /\ avail.idx = 0 /\ used.availEvent = 0 /\ drv.numAdded = 0
      /\ ~ used.noNotify /\ dev.pc = "idle"
  BY IdleType DEF Init, RingInit, EmptyUsed, EmptyAvail, NewQueue, FreshDriver
<1>2. num_heads = 0 /\ Sub(avail.idx, used.availEvent) = 0
  BY <1>1, SubZero, RangeNat DEF num_heads
<1> QED BY <1>1, <1>2 DEF Looking, Attentive, Flushing

\* The driver's question after a batch of n buffers, the last at index a - 1.
LEMMA NeedEvent ==
    ASSUME NEW a \in Idx, NEW e \in Idx, NEW n \in 0 .. Num, 0 < Sub(a, e), Sub(a, e) <= n
    PROVE  vring_need_event(e, a, Sub(a, n))
<1> DEFINE W == IdxRange
<1>1. W \in Nat /\ Num \in Nat /\ W >= 2 * Num /\ Num > 0
  BY RangeNat
<1>2. n \in Idx /\ a \in 0 .. W - 1 /\ e \in 0 .. W - 1
  BY <1>1 DEF Idx
<1>3. Sub(a, e) = IF a >= e THEN a - e ELSE a - e + W
  BY SubValue
<1>4. Sub(a, e + 1) = Sub(a, e) - 1
  <2>1. CASE a >= e
    <3>1. a - (e + 1) = Sub(a, e) - 1 /\ Sub(a, e) - 1 \in 0 .. W - 1
      BY <1>1, <1>2, <1>3, <2>1
    <3> QED BY <1>1, <3>1 DEF Sub
  <2>2. CASE ~ (a >= e)
    <3> DEFINE r == Sub(a, e) - 1
    <3>1. a - (e + 1) = r + (-1) * W /\ r \in 0 .. W - 1 /\ W \in Nat \ {0}
      BY <1>1, <1>2, <1>3, <2>2
    <3> HIDE DEF r
    <3>2. a - (e + 1) = (-1) * W + r /\ a - (e + 1) \in Int
      BY <1>2, <3>1
    <3>3. (a - (e + 1)) % W = r
      BY <3>1, <3>2, ModUnique
    <3> QED BY <3>3 DEF Sub, r
  <2> QED BY <2>1, <2>2
<1>5. Sub(a, Sub(a, n)) = n
  <2> DEFINE s == Sub(a, n)
  <2>1. s \in Idx /\ s = IF a >= n THEN a - n ELSE a - n + W
    BY <1>2, SubValue
  <2>2. Sub(a, s) = IF a >= s THEN a - s ELSE a - s + W
    BY <2>1, SubValue
  <2>3. s \in 0 .. W - 1
    BY <2>1 DEF Idx
  <2> HIDE DEF s
  <2>4. Sub(a, s) = n
    BY <1>1, <1>2, <2>1, <2>2, <2>3
  <2> QED BY <2>4 DEF s
<1>6. Sub(a, e) \in Nat
  BY <1>1, <1>2, <1>3
<1> QED BY <1>4, <1>5, <1>6 DEF vring_need_event

\* A packet added without a kick yet has a driver about to kick.
LEMMA AddLooking ==
    ASSUME Typed, Lifecycle, InOrder, Looking, DrvAdd,
           UNCHANGED <<config, dev, txVars, vmVars>>
    PROVE  Looking'
<1>1. /\ avail'.idx = Incr(avail.idx) /\ drv'.numAdded = drv.numAdded + 1 /\ drv.numAdded < Num
      /\ UNCHANGED <<features, used, vq, kick>>
  BY DEF DrvAdd, Typed, AvailType, DriverType
<1>2. num_heads' = num_heads + 1 /\ num_heads < Num /\ num_heads \in Nat
  BY AddRoom, Distances, RangeNat
<1>3. ASSUME NEW e \in Idx, Sub(avail.idx, e) < Num
      PROVE  Sub(avail'.idx, e) = Sub(avail.idx, e) + 1 /\ Sub(avail.idx, e) \in Nat
  <2>1. Sub(avail.idx, e) \in Nat /\ avail.idx \in Idx
    BY Distances, SubValue, RangeNat
  <2>2. Sub(avail.idx, e) < IdxRange - 1
    BY <1>3, <2>1, RangeNat
  <2> QED BY <1>1, <2>1, <2>2, SubIncr
<1>4. /\ used.availEvent \in Idx /\ dev.ev \in Idx /\ drv.numAdded \in Nat
      /\ Sub(avail.idx, used.availEvent) \in Nat /\ Sub(avail.idx, dev.ev) \in Nat
  <2>1. used.availEvent \in Idx /\ dev.ev \in Idx /\ drv.numAdded \in Nat /\ avail.idx \in Idx
    BY Distances DEF Typed, UsedType, DevType, DriverType
  <2> QED BY <2>1, SubValue, RangeNat
<1>5. driver_ok' /\ dev'.pc = "idle" => WillLook' \/ Attentive'
  <2>1. WillLook => WillLook'
    BY <1>1 DEF WillLook, txVars, vmVars
  <2>2. Attentive => Attentive'
    <3>1. CASE ~ features.event
      BY <1>1, <1>2, <1>4, <3>1 DEF Attentive
    <3>2. CASE features.event /\ Attentive
      <4>1. Sub(avail.idx, used.availEvent) < Num
        BY <1>1, <1>4, <3>2, RangeNat DEF Attentive
      <4>2. Sub(avail'.idx, used.availEvent) = Sub(avail.idx, used.availEvent) + 1
        BY <1>3, <1>4, <4>1
      <4> QED BY <1>1, <1>2, <1>4, <3>2, <4>2 DEF Attentive
    <3> QED BY <3>1, <3>2
  <2> QED BY <2>1, <2>2 DEF Looking, txVars, vmVars
<1>6. /\ dev'.pc = "store" => vq'.notification
      /\ dev'.pc \in {"store", "publish"} => Sub(avail'.idx, dev'.ev) <= num_heads'
  <2> SUFFICES ASSUME dev.pc \in {"store", "publish"}
               PROVE  Sub(avail'.idx, dev.ev) <= num_heads + 1
    BY <1>1, <1>2 DEF Looking
  <2>1. Sub(avail.idx, dev.ev) <= num_heads
    BY DEF Looking
  <2>2. Sub(avail.idx, dev.ev) < Num
    BY <1>2, <1>4, <2>1, RangeNat
  <2> QED BY <1>2, <1>3, <1>4, <2>1, <2>2
<1>7. Flushing' => Watching'
  <2> SUFFICES ASSUME Flushing' PROVE Watching'
    OBVIOUS
  <2>1. Watching
    BY DEF Flushing, Looking, txVars
  <2>2. CASE features.event /\ dev.pc \notin {"event", "publish"}
    <3>1. Sub(avail.idx, used.availEvent) <= num_heads
      BY <2>1, <2>2 DEF Watching
    <3>2. Sub(avail.idx, used.availEvent) < Num
      BY <1>2, <1>4, <3>1, RangeNat
    <3>3. Sub(avail'.idx, used.availEvent) <= num_heads + 1
      BY <1>2, <1>3, <1>4, <3>1, <3>2
    <3> QED BY <1>1, <1>2, <2>1, <3>3 DEF Watching
  <2>3. CASE ~ (features.event /\ dev.pc \notin {"event", "publish"})
    BY <1>1, <2>1, <2>3 DEF Watching
  <2> QED BY <2>2, <2>3
<1> QED BY <1>5, <1>6, <1>7 DEF Looking

\* A kick that is suppressed is not needed.
LEMMA KickLooking ==
    ASSUME Typed, Lifecycle, Looking, DrvKick, vm_running,
           UNCHANGED <<config, dev, txVars, vmVars>>
    PROVE  Looking'
<1>1. drv'.numAdded = 0 /\ UNCHANGED <<features, avail, used, vq>> /\ num_heads' = num_heads
  BY DEF DrvKick, Typed, DriverType, num_heads
<1>2. driver_ok' /\ dev'.pc = "idle" => WillLook' \/ Attentive'
  <2> SUFFICES ASSUME driver_ok, dev.pc = "idle" PROVE WillLook' \/ Attentive'
    BY DEF vmVars
  <2>1. kick => kick'
    BY DEF DrvKick
  <2>2. CASE WillLook
    BY <2>1, <2>2 DEF WillLook, txVars, vmVars
  <2>3. CASE ~ WillLook
    <3>1. Attentive /\ ~ tx_waiting
      BY <2>3 DEF Looking, WillLook, Lifecycle
    <3>2. CASE kick'
      BY <3>1, <3>2 DEF WillLook, txVars
    <3>3. CASE ~ kick'
      <4>1. features.event
        BY <3>1, <3>3 DEF DrvKick, Attentive
      <4> DEFINE d == Sub(avail.idx, used.availEvent)
      <4>2. num_heads <= d /\ d <= drv.numAdded
        BY <3>1, <4>1 DEF Attentive
      <4>3. used.availEvent \in Idx /\ avail.idx \in Idx /\ drv.numAdded \in 0 .. Num
        BY DEF Typed, UsedType, AvailType, DriverType
      <4>4. ~ vring_need_event(used.availEvent, avail.idx, Sub(avail.idx, drv.numAdded))
        BY <3>3, <4>1 DEF DrvKick
      <4>5. d \in Nat
        BY <4>3, SubValue, RangeNat
      <4>6. ~ (0 < d)
        BY <4>2, <4>3, <4>4, NeedEvent
      <4>7. d = 0 /\ num_heads = 0
        <5> HIDE DEF d
        <5> QED BY <4>2, <4>5, <4>6, Distances
      <4> QED BY <1>1, <4>1, <4>7 DEF Attentive
    <3> QED BY <3>2, <3>3
  <2> QED BY <2>2, <2>3
<1>3. Flushing' => Watching'
  BY <1>1 DEF Flushing, Watching, Looking, txVars
<1> QED BY <1>1, <1>2, <1>3 DEF Looking

\* A step of the driver that neither adds nor announces.
LEMMA QuietLooking ==
    ASSUME Looking, avail'.idx = avail.idx, drv'.numAdded = drv.numAdded,
           UNCHANGED <<features, used, vq, kick, config, dev, txVars, vmVars>>
    PROVE  Looking'
<1>1. num_heads' = num_heads
  BY DEF num_heads
<1>2. WillLook' = WillLook
  BY DEF WillLook, txVars, vmVars
<1>3. Attentive' = Attentive
  BY <1>1 DEF Attentive
<1>4. Flushing' = Flushing /\ Watching' = Watching
  BY <1>1 DEF Flushing, Watching, txVars
<1> QED BY <1>1, <1>2, <1>3, <1>4 DEF Looking, vmVars

\* Every step leaves somebody who will look at the queue.
LEMMA StepLooking ==
    /\ Typed /\ Custody /\ Lifecycle /\ NoResetWhileBusy /\ InOrder /\ BurstServed /\ Looking
    /\ [Next]_vars
    => Looking'
<1> SUFFICES ASSUME Typed, Custody, Lifecycle, NoResetWhileBusy, InOrder, BurstServed, Looking,
                    [Next]_vars
             PROVE  Looking'
  OBVIOUS
<1>a. dev \in DevType /\ used \in UsedType /\ vq \in QueueType /\ avail \in AvailType /\ drv \in DriverType
  BY DEF Typed
<1>b. NoHead \notin Heads
  BY RingAssumption
<1>c. dev.pc # "idle" => driver_ok
  BY DEF InOrder
<1>1. CASE Driver
  <2>1. CASE DrvAdd
    BY <1>1, <2>1, AddLooking DEF Driver
  <2>2. CASE DrvKick
    BY <1>1, <2>2, KickLooking DEF Driver
  <2>3. CASE DrvReap \/ DrvEnableCb \/ DrvCheck \/ DrvInterrupt
    <3>1. drv'.numAdded = drv.numAdded
      <4>1. CASE DrvReap
        BY <1>a, <4>1 DEF DrvReap, DriverType
      <4>2. CASE DrvEnableCb \/ DrvCheck \/ DrvInterrupt
        BY <1>a, <4>2 DEF DrvEnableCb, DrvCheck, DrvInterrupt, DriverType
      <4> QED BY <2>3, <4>1, <4>2
    <3>2. avail'.idx = avail.idx
      BY <1>a, <2>3 DEF DrvReap, DrvEnableCb, DrvCheck, DrvInterrupt, AvailType
    <3>3. UNCHANGED <<features, used, vq, kick>>
      BY <2>3 DEF DrvReap, DrvEnableCb, DrvCheck, DrvInterrupt
    <3> QED BY <1>1, <3>1, <3>2, <3>3, QuietLooking DEF Driver
  <2> QED BY <1>1, <2>1, <2>2, <2>3 DEF Driver, DrvPoll
<1>2. CASE HandleOutput
  <2>1. dev.pc = "idle" /\ vm_running /\ UNCHANGED <<driver_ok, vm_running>>
    BY <1>2 DEF HandleOutput, Lifecycle, vmVars
  <2>2. CASE driver_ok
    <3>1. (armed' = TRUE /\ dev' = dev) \/ dev' = Run("enable", "kick")
      BY <1>2, <2>1, <2>2 DEF HandleOutput, HandleTxBh, HandleTxTimer, Lifecycle, Typed
    <3>2. CASE armed' = TRUE /\ dev' = dev
      BY <2>1, <3>2 DEF Looking, WillLook, Flushing
    <3>3. CASE dev' = Run("enable", "kick")
      <4>1. dev'.pc = "enable" /\ dev'.caller = "kick"
        BY <3>3, RunType DEF Pcs, Callers
      <4> QED BY <4>1 DEF Looking, Flushing
    <3> QED BY <3>1, <3>2, <3>3
  <2>3. CASE ~ driver_ok
    <3>1. dev' = dev
      BY <1>2, <2>3 DEF HandleOutput, Lifecycle
    <3> QED BY <2>1, <2>3, <3>1 DEF Looking, Flushing
  <2> QED BY <2>2, <2>3
<1>3. CASE TxBh \/ TxTimer
  <2>1. dev.pc = "idle" /\ UNCHANGED driver_ok
    BY <1>3 DEF TxBh, TxTimer, vmVars
  <2>2. \/ driver_ok /\ (dev' = Run("flush", "bh") \/ dev' = Run("enable", "timer"))
        \/ ~ driver_ok /\ dev' = dev
    BY <1>3 DEF TxBh, TxTimer
  <2>3. \/ dev'.pc = "flush" /\ dev'.caller = "bh"
        \/ dev'.pc = "enable" /\ dev'.caller = "timer"
        \/ ~ driver_ok /\ dev'.pc = "idle"
    BY <2>1, <2>2, RunType DEF Pcs, Callers
  <2> QED BY <2>1, <2>3 DEF Looking, Flushing
<1>4. CASE TxComplete
  <2>1. dev'.pc = "push"
    BY <1>4 DEF TxComplete, Run, Idle
  <2> QED BY <2>1 DEF Looking, Flushing
<1>5. CASE Enable
  <2>1. dev'.pc = "store" /\ dev'.caller = dev.caller /\ dev'.ev = avail.idx /\ dev.pc = "enable"
        /\ UNCHANGED avail
    BY <1>5, <1>a DEF Enable, DevType
  <2>2. vq'.notification = TRUE /\ num_heads' = num_heads
    BY <1>5, <1>a DEF Enable, EnableNotification, QueueType, num_heads
  <2>3. Sub(avail.idx, avail.idx) = 0 /\ num_heads \in Nat
    BY Distances, SubZero
  <2> QED BY <2>1, <2>2, <2>3 DEF Looking, Flushing
<1>6. CASE Store
  <2>1. dev'.pc = "flush" /\ dev'.caller = dev.caller /\ dev.pc = "store" /\ UNCHANGED <<features, avail, vq>>
    BY <1>6, <1>a DEF Store, DevType
  <2>2. /\ features.event => used'.availEvent = dev.ev
        /\ ~ features.event => ~ used'.noNotify
    BY <1>6, <1>a DEF Store, NotifyEnabled, UsedType
  <2>3. vq.notification /\ Sub(avail.idx, dev.ev) <= num_heads
    BY <2>1 DEF Looking
  <2>4. num_heads' = num_heads
    BY <2>1 DEF num_heads
  <2> QED BY <2>1, <2>2, <2>3, <2>4 DEF Looking, Flushing, Watching
<1>7. CASE FlushNothing
  <2>1. driver_ok /\ async_tx # NoHead /\ UNCHANGED async_tx
    BY <1>7, <1>c DEF FlushNothing, txVars
  <2>2. \/ dev'.pc = "idle"
        \/ dev'.pc = "enable" /\ dev'.caller = "again"
    BY <1>7, RunType, IdleType DEF FlushNothing, Pcs, Callers
  <2> QED BY <2>1, <2>2 DEF Looking, Flushing, WillLook
<1>d. ASSUME Rescheduled \/ LooksAgain PROVE Looking'
  <2>1. CASE Rescheduled
    <3>1. dev'.pc = "idle" /\ armed'
      BY <2>1, IdleType DEF Rescheduled
    <3> QED BY <3>1 DEF Looking, Flushing, WillLook
  <2>2. CASE LooksAgain
    <3>1. dev'.pc = "enable" /\ dev'.caller = "again"
      BY <2>2, RunType DEF LooksAgain, Pcs, Callers
    <3> QED BY <3>1 DEF Looking, Flushing
  <2> QED BY <1>d, <2>1, <2>2
<1>8. CASE PopEmpty
  <2>1. Return(dev.num, vq) /\ num_heads = 0 /\ Popping /\ UNCHANGED <<features, avail, drv>>
    BY <1>8 DEF PopEmpty, queue_empty
  <2>2. Rescheduled \/ LooksAgain \/ Ends(vq)
    BY <1>a, <2>1, ReturnEffect
  <2>3. CASE Ends(vq)
    <3>1. dev'.pc = "idle" /\ UNCHANGED <<used, vq>> /\ dev.caller # "bh"
      BY <2>3, IdleType DEF Ends
    <3>2. Watching /\ dev.pc \notin {"event", "publish"}
      BY <2>1, <3>1 DEF Looking, Flushing, Popping
    <3>3. /\ num_heads' = 0
          /\ ~ features.event => ~ used.noNotify
          /\ features.event => Sub(avail.idx, used.availEvent) <= 0
      BY <2>1, <3>1, <3>2 DEF Watching, num_heads
    <3>4. Sub(avail.idx, used.availEvent) \in Nat /\ drv.numAdded \in Nat
      <4>1. avail.idx \in Idx /\ used.availEvent \in Idx /\ drv.numAdded \in 0 .. Num
        BY <1>a DEF UsedType, AvailType, DriverType
      <4>2. Sub(avail.idx, used.availEvent) \in Idx
        BY <4>1, SubValue
      <4>3. Idx \subseteq Nat
        BY RangeNat
      <4>4. drv.numAdded \in Nat
        BY <4>1
      <4> QED BY <4>2, <4>3, <4>4
    <3>5. Attentive'
      BY <2>1, <3>1, <3>3, <3>4 DEF Attentive
    <3> QED BY <3>1, <3>5 DEF Looking, Flushing
  <2> QED BY <1>d, <2>2, <2>3
<1>9. CASE PopHead
  <2>1. /\ dev'.pc = (IF features.event /\ vq.notification THEN "event" ELSE "send")
        /\ dev'.caller = dev.caller /\ Popping /\ UNCHANGED <<features, used>>
    BY <1>9, <1>a DEF PopHead, DevType
  <2>2. vq'.notification = vq.notification
    BY <1>9, <1>a DEF PopHead, Pop, QueueType
  <2>3. Flushing' => Flushing
    BY <2>1 DEF Flushing, Popping
  <2>4. Flushing => Watching
    BY DEF Looking
  <2>5. Flushing' => Watching'
    BY <2>1, <2>2, <2>3, <2>4 DEF Watching
  <2> QED BY <2>1, <2>5 DEF Looking
<1>10. CASE PopEvent
  <2>1. /\ dev'.pc = "publish" /\ dev.pc = "event" /\ dev'.caller = dev.caller
        /\ dev'.ev = avail.idx /\ UNCHANGED <<features, vq, avail, used>>
    BY <1>10, <1>a DEF PopEvent, DevType, ringVars
  <2>2. Sub(avail.idx, avail.idx) = 0 /\ num_heads \in Nat /\ num_heads' = num_heads
    BY <2>1, Distances, SubZero DEF num_heads
  <2> QED BY <2>1, <2>2 DEF Looking, Flushing, Watching
<1>p. CASE PopPublish
  <2>1. /\ dev'.pc = "send" /\ dev.pc = "publish" /\ dev'.caller = dev.caller
        /\ UNCHANGED <<features, vq, avail>>
    BY <1>p, <1>a DEF PopPublish, DevType
  <2>2. used'.availEvent = dev.ev /\ used'.noNotify = used.noNotify
    BY <1>p, <1>a DEF PopPublish, UsedType
  <2>3. Sub(avail.idx, dev.ev) <= num_heads /\ num_heads' = num_heads
    BY <2>1 DEF Looking, num_heads
  <2> QED BY <2>1, <2>2, <2>3 DEF Looking, Flushing, Watching
<1>11. CASE SendBusy
  <2>1. dev'.pc = "idle" /\ async_tx' = dev.elem /\ dev.elem # NoHead
    BY <1>11, <1>b, IdleType DEF SendBusy, Custody
  <2> QED BY <2>1 DEF Looking, Flushing, WillLook
<1>12. CASE PushElem
  <2>1. /\ dev'.pc = "notify" /\ dev'.caller = dev.caller /\ dev.pc \in {"send", "push"}
        /\ UNCHANGED <<features, avail, async_tx>>
    BY <1>12, <1>a DEF PushElem, DevType, txVars
  <2>2. used'.availEvent = used.availEvent /\ used'.noNotify = used.noNotify
    BY <1>12, <1>a DEF PushElem, Push, UsedType
  <2>3. vq'.notification = vq.notification /\ vq'.last_avail_idx = vq.last_avail_idx
    BY <1>12, <1>a DEF PushElem, Push, QueueType
  <2>4. num_heads' = num_heads
    BY <2>1, <2>3 DEF num_heads
  <2>5. Flushing' => Flushing /\ dev.pc = "send"
    BY <2>1 DEF Flushing, Custody
  <2>6. Flushing' => Watching'
    BY <2>1, <2>2, <2>3, <2>4, <2>5 DEF Looking, Watching
  <2> QED BY <2>1, <2>6 DEF Looking
<1>13. CASE NotifyCompletion
  <2>1. dev'.pc = "enable" /\ dev'.caller = "complete"
    BY <1>13, RunType DEF NotifyCompletion, Pcs, Callers
  <2> QED BY <2>1 DEF Looking, Flushing
<1>14. CASE NotifySent
  <2> DEFINE num == OneMore(dev.num)
  <2>1. CASE AtBurst(num)
    <3>1. Return(num, Notified)
      BY <1>14, <2>1 DEF NotifySent
    <3>2. config.burst # NoLimit /\ num >= config.burst /\ config.burst \in Nat /\ num \in Nat
      BY <1>a, <2>1, ConfigAssumption DEF AtBurst, OneMore, DevType, Typed
    <3>3. num > 0
      BY <3>2 DEF NoLimit
    <3>4. dev.caller \in {"bh", "again"}
      BY <1>a, <3>2 DEF BurstServed, Lifecycle, DevType, Callers
    <3> HIDE DEF num
    <3>5. Rescheduled
      BY <2>1, <3>1, <3>3, <3>4 DEF Return, Rescheduled
    <3> QED BY <1>d, <3>5
  <2>2. CASE ~ AtBurst(num)
    <3>1. /\ dev'.pc = "pop" /\ dev'.caller = dev.caller /\ dev.pc = "notify" /\ async_tx = NoHead
          /\ vq' = Notified /\ UNCHANGED <<features, used, avail>>
      BY <1>14, <1>a, <2>2 DEF NotifySent, DevType
    <3>2. vq'.notification = vq.notification /\ vq'.last_avail_idx = vq.last_avail_idx
      BY <3>1, NotifiedEffect
    <3>3. num_heads' = num_heads
      BY <3>1, <3>2 DEF num_heads
    <3>4. Flushing' => Flushing
      BY <3>1 DEF Flushing
    <3>5. Flushing' => Watching'
      BY <3>1, <3>2, <3>3, <3>4 DEF Looking, Watching
    <3> QED BY <3>1, <3>5 DEF Looking
  <2> QED BY <2>1, <2>2
<1>15. CASE VmStop
  <2>1. dev.pc = "idle" /\ dev' = dev /\ UNCHANGED <<avail, used, vq, drv, features, driver_ok, config>>
        /\ vm_running /\ vm_running' = FALSE /\ async_tx' = async_tx
        /\ (kick => config.ioeventfd) /\ (tx_waiting => tx_waiting')
    BY <1>15 DEF VmStop, SetStatus
  <2>2. Attentive' = Attentive
    BY <2>1 DEF Attentive, num_heads
  <2>3. WillLook => WillLook'
    BY <2>1 DEF WillLook, Lifecycle
  <2> QED BY <2>1, <2>2, <2>3 DEF Looking, Flushing
<1>16. CASE VmStart
  <2>1. /\ dev.pc = "idle" /\ dev' = dev
        /\ UNCHANGED <<avail, used, vq, drv, features, driver_ok, config, tx_waiting, async_tx>>
        /\ ~ vm_running /\ vm_running' = TRUE /\ kick' = (config.ioeventfd /\ driver_ok)
        /\ armed' = IF tx_waiting THEN driver_ok ELSE armed
    BY <1>16 DEF VmStart, SetStatus, Typed
  <2>2. Attentive' = Attentive
    BY <2>1 DEF Attentive, num_heads
  <2>3. WillLook /\ driver_ok => WillLook'
    BY <2>1 DEF WillLook, Lifecycle
  <2> QED BY <2>1, <2>2, <2>3 DEF Looking, Flushing
<1>17. CASE Migrate
  <2>1. /\ dev.pc = "idle" /\ dev' = dev /\ armed' = FALSE /\ ~ vm_running
        /\ UNCHANGED <<avail, used, drv, features, driver_ok, vm_running, config, tx_waiting, kick>>
        /\ async_tx = NoHead
    BY <1>17 DEF Migrate, vmVars, Lifecycle, NoResetWhileBusy
  <2>2. vq'.last_avail_idx = vq.last_avail_idx
    BY <1>17, <1>a DEF Migrate, LoadQueue, QueueType
  <2>3. Attentive' = Attentive
    BY <2>1, <2>2 DEF Attentive, num_heads
  <2>4. WillLook => WillLook'
    BY <2>1 DEF WillLook, Lifecycle
  <2> QED BY <2>1, <2>3, <2>4 DEF Looking, Flushing
<1>18. CASE Reset
  <2>1. dev.pc = "idle" /\ dev' = dev /\ driver_ok' = FALSE
    BY <1>18 DEF Reset, SetStatus
  <2> QED BY <2>1 DEF Looking, Flushing
<1>19. CASE DriverOk
  <2>1. /\ ~ driver_ok /\ dev' = dev /\ dev.pc = "idle" /\ features' = features
        /\ avail' = EmptyAvail /\ used' = EmptyUsed /\ drv' = FreshDriver
        /\ vq' = [vq EXCEPT !.ready = TRUE]
    BY <1>19 DEF DriverOk
  <2>2. /\ avail'.idx = 0 /\ used'.availEvent = 0 /\ ~ used'.noNotify /\ drv'.numAdded = 0
        /\ vq'.last_avail_idx = 0
    BY <1>a, <2>1 DEF EmptyAvail, EmptyUsed, FreshDriver, InOrder, QueueType
  <2>3. num_heads' = 0 /\ Sub(avail'.idx, used'.availEvent) = 0
    BY <2>2, SubZero, RangeNat DEF num_heads
  <2>4. Attentive'
    BY <2>2, <2>3 DEF Attentive
  <2> QED BY <2>1, <2>4 DEF Looking, Flushing
<1>20. CASE UNCHANGED vars
  BY <1>20, QuietLooking DEF vars, ringVars
<1> QED
  BY <1>1, <1>2, <1>3, <1>4, <1>5, <1>6, <1>7, <1>8, <1>9, <1>10, <1>11, <1>p, <1>12, <1>13, <1>14,
     <1>15, <1>16, <1>17, <1>18, <1>19, <1>20 DEF Next, Device, MainLoop

-----------------------------------------------------------------------------
(* The theorems.                                                           *)

IInv ==
    /\ Typed /\ Custody /\ Interrupts /\ Lifecycle
    /\ NoResetWhileBusy => InOrder
    /\ NoResetWhileBusy /\ BurstServed => Looking

\* The configuration never changes.
LEMMA ConfigFixed == [Next]_vars => UNCHANGED config
  BY DEF Next, vars, Driver, Device, MainLoop, HandleOutput, TxBh, TxTimer, TxComplete,
         Enable, Store, FlushNothing, PopEmpty, PopHead, PopEvent, PopPublish, SendBusy, PushElem,
         NotifyCompletion, NotifySent, VmStop, VmStart, Migrate, Reset, DriverOk

\* The invariant holds of every state.
THEOREM Invariance == Spec => []IInv
<1>1. Init => IInv
  BY InitTyped, InitInterrupts, InitLifecycle, InitOrder, InitLooking DEF IInv
<1>2. IInv /\ [Next]_vars => IInv'
  <2> SUFFICES ASSUME IInv, [Next]_vars PROVE IInv'
    OBVIOUS
  <2>1. (NoResetWhileBusy' <=> NoResetWhileBusy) /\ (BurstServed' <=> BurstServed)
    BY ConfigFixed DEF NoResetWhileBusy, BurstServed
  <2> QED
    BY <2>1, StepTyped, StepInterrupts, StepLifecycle, StepOrder, StepLooking DEF IInv
<1> QED
  BY <1>1, <1>2, PTL DEF Spec

\* The state has its type for every ring and every configuration: indices
\* stay within their range however often they wrap, virtqueue_pop and
\* virtqueue_push keep inuse within the ring, also across virtio_reset, which
\* leaves inuse as it is.
THEOREM TypeCorrect == Spec => []TypeOK
<1>1. IInv => TypeOK
  BY TypedIsTypeOK DEF IInv
<1> QED BY <1>1, Invariance, PTL

\* vring_notify with signalled_used, as virtqueue_flush invalidates it, never
\* suppresses the interrupt that a sleeping driver waits for.
THEOREM InterruptNotLost == Spec => []NoLostInterrupt
<1>1. IInv => NoLostInterrupt
  BY DEF IInv, Interrupts, NoLostInterrupt
<1> QED BY <1>1, Invariance, PTL

\* In every configuration: a stopped device has nothing scheduled, and nobody
\* enters it but the backend, through any sequence of stops, starts,
\* migrations and resets.
THEOREM QuietWhileStopped == Spec => []StoppedDeviceQuiet
<1>1. IInv => StoppedDeviceQuiet
  BY DEF IInv, Lifecycle, StoppedDeviceQuiet
<1> QED BY <1>1, Invariance, PTL

\* No VM is stopped whose backend may hold a packet: the completion of such
\* a packet fails the assertion of virtio_net_flush_tx (StopConfigs of
\* MCVirtioNetTx shows it).
NoStopWhileBusy == ~ (config.busy /\ config.stops)

\* While no VM with a busy backend is stopped, the assertions hold: no handler
\* sends while the VM is stopped, through any sequence of stops, starts,
\* migrations and resets.
THEOREM NothingSentWhileStopped ==
    Spec => [](NoStopWhileBusy => SendsWhileRunning)
<1>1. IInv => (NoStopWhileBusy => SendsWhileRunning)
  BY DEF IInv, Lifecycle, NoStopWhileBusy, SendsWhileRunning
<1> QED BY <1>1, Invariance, PTL

\* With packets that the backend does not lose, and bursts that are continued,
\* no packet is stranded: suppressed notifications (the flag, or the event
\* index) are enabled again before anyone stops looking at the queue.
THEOREM PacketNotStranded ==
    Spec => [](NoResetWhileBusy /\ BurstServed => NoStall)
<1>1. IInv => (NoResetWhileBusy /\ BurstServed => NoStall)
  <2> SUFFICES ASSUME IInv, NoResetWhileBusy, BurstServed, driver_ok, dev.pc = "idle",
                      ~ queue_empty, drv.numAdded = 0, ~ WillLook
               PROVE  FALSE
    BY DEF NoStall
  <2>1. Attentive
    BY DEF IInv, Looking
  <2>2. num_heads \in Nat /\ num_heads # 0
    BY Distances DEF IInv, queue_empty
  <2> QED BY <2>1, <2>2 DEF Attentive
<1> QED BY <1>1, Invariance, PTL

-----------------------------------------------------------------------------
(* The places of the buffers.                                              *)

\* The slots from index a to index b, when both are within the ring from l.
LEMMA BetweenSlots ==
    ASSUME NEW l \in Idx, NEW a \in Idx, NEW b \in Idx, NEW ring \in [Heads -> Heads],
           Sub(a, l) + Sub(b, a) <= Num,
           \A h \in Heads :
             Sub(a, l) <= Off(l, h) /\ Off(l, h) < Sub(a, l) + Sub(b, a) => ring[h] = h
    PROVE  /\ IsInjective(Between(ring, a, b))
           /\ \A h \in Heads :
                Sub(a, l) <= Off(l, h) /\ Off(l, h) < Sub(a, l) + Sub(b, a) =>
                  h \in Range(Between(ring, a, b))
           /\ Range(Between(ring, a, b)) \subseteq Heads
<1> DEFINE k == Sub(a, l)
           n == Sub(b, a)
           f == Between(ring, a, b)
           x(i) == (a + i) % IdxRange
<1>1. k \in Nat /\ n \in Nat /\ Num \in Nat \ {0} /\ IdxRange \in Nat /\ IdxRange >= 2 * Num
  BY SubValue, RangeNat
<1>2. ASSUME NEW i \in 0 .. n - 1
      PROVE  f[i] \in Heads /\ Off(l, f[i]) = k + i
  <2>1. i \in Idx /\ i < Num /\ k + i < Num
    BY <1>1 DEF Idx
  <2>2. x(i) \in Idx /\ Sub(x(i), a) = i
    <3>1. a \in 0 .. IdxRange - 1 /\ i \in 0 .. IdxRange - 1
      BY <2>1 DEF Idx
    <3>2. x(i) = IF a + i < IdxRange THEN a + i ELSE a + i - IdxRange
      <4>1. CASE a + i < IdxRange
        <5>1. a + i \in 0 .. IdxRange - 1 /\ IdxRange \in Nat \ {0}
          BY <1>1, <3>1, <4>1
        <5>2. (a + i) % IdxRange = a + i
          BY <5>1
        <5> QED BY <4>1, <5>2
      <4>2. CASE ~ (a + i < IdxRange)
        <5> DEFINE r == a + i - IdxRange
        <5>1. a + i = 1 * IdxRange + r /\ r \in 0 .. IdxRange - 1 /\ a + i \in Int
              /\ IdxRange \in Nat \ {0}
          BY <1>1, <3>1, <4>2
        <5> HIDE DEF r
        <5>2. (a + i) % IdxRange = r
          BY <5>1, ModUnique
        <5> QED BY <4>2, <5>2 DEF r
      <4> QED BY <4>1, <4>2
    <3> HIDE DEF x
    <3>3. x(i) \in Idx
      BY <1>1, <3>1, <3>2 DEF Idx
    <3>4. Sub(x(i), a) = IF x(i) >= a THEN x(i) - a ELSE x(i) - a + IdxRange
      BY <3>3, SubValue
    <3>5. Sub(x(i), a) = i
      BY <1>1, <2>1, <3>1, <3>2, <3>4
    <3> QED BY <3>3, <3>5
  <2> HIDE DEF x
  <2>3. Sub(x(i), l) = i + k
    <3>1. Sub(x(i), a) + Sub(a, l) < IdxRange
      BY <1>1, <2>1, <2>2
    <3> QED BY <2>2, <3>1, SubAdd
  <2>4. x(i) % Num \in Heads /\ Off(l, x(i) % Num) = k + i
    <3>1. Sub(x(i), l) < Num /\ Sub(x(i), l) = k + i
      BY <1>1, <2>1, <2>3
    <3> QED BY <2>2, <3>1, OffSlot
  <2>5. k <= Off(l, x(i) % Num) /\ Off(l, x(i) % Num) < k + n
    BY <1>1, <2>4
  <2>6. ring[x(i) % Num] = x(i) % Num
    BY <2>4, <2>5
  <2>7. f[i] = ring[x(i) % Num]
    BY DEF Between, x
  <2> QED BY <2>4, <2>6, <2>7
<1>3. DOMAIN f = 0 .. n - 1
  BY DEF Between
<1> HIDE DEF f
<1>4. IsInjective(f)
  <2> SUFFICES ASSUME NEW i \in 0 .. n - 1, NEW j \in 0 .. n - 1, f[i] = f[j] PROVE i = j
    BY <1>3 DEF IsInjective
  <2>1. k + i = k + j
    BY <1>2
  <2> HIDE DEF k, n
  <2> QED BY <1>1, <2>1
<1>5. ASSUME NEW h \in Heads, k <= Off(l, h), Off(l, h) < k + n PROVE h \in Range(f)
  <2>1. Off(l, h) \in Nat
    <3>1. Off(l, h) \in Heads
      BY OffValue
    <3> QED BY <3>1, RangeNat DEF Heads
  <2> DEFINE i == Off(l, h) - k
  <2>2. i \in 0 .. n - 1 /\ Off(l, h) = k + i
    <3> HIDE DEF k, n
    <3> QED BY <1>1, <1>5, <2>1
  <2> HIDE DEF i
  <2>3. f[i] = h
    BY <1>2, <2>2, OffInjective
  <2> QED BY <1>3, <2>2, <2>3 DEF Range
<1>6. Range(f) \subseteq Heads
  BY <1>2, <1>3 DEF Range
<1> QED BY <1>4, <1>5, <1>6 DEF f

\* The order of the buffers puts every buffer in one place.
LEMMA OnePlace ==
    ASSUME Typed, Custody, InOrder, driver_ok
    PROVE  BufferInOnePlace
<1> DEFINE l == drv.lastUsed
<1>1. Positions /\ \A h \in Heads : Slot(h, Off(l, h))
  BY DEF InOrder
<1>2. num_heads <= Num /\ Unused <= Num /\ Away <= Num
  BY <1>1, Distances, RangeNat DEF Positions
<1>3. Sub(vq.last_avail_idx, l) = Unused + vq.inuse
  BY <1>1, FromLastUsed
<1>p. /\ IsInjective(Pending) /\ Range(Pending) \subseteq Heads
      /\ \A h \in Heads : Unused + vq.inuse <= Off(l, h) /\ Off(l, h) < Away => h \in Range(Pending)
  <2>1. Sub(vq.last_avail_idx, l) + Sub(avail.idx, vq.last_avail_idx) = Away
    BY <1>3, Distances DEF num_heads
  <2>2. avail.ring \in [Heads -> Heads]
    BY DEF Typed, AvailType
  <2>3. \A h \in Heads : Unused + vq.inuse <= Off(l, h) /\ Off(l, h) < Away => avail.ring[h] = h
    BY <1>1 DEF Slot
  <2> QED BY <1>2, <1>3, <2>1, <2>2, <2>3, Distances, BetweenSlots DEF Pending
<1>u. /\ IsInjective(Unreaped) /\ Range(Unreaped) \subseteq Heads
      /\ \A h \in Heads : Off(l, h) < Unused => h \in Range(Unreaped)
  <2>1. Sub(l, l) = 0 /\ Sub(l, l) + Sub(used.idx, l) = Unused
    BY Distances, SubZero DEF Unused
  <2>2. used.ring \in [Heads -> Heads]
    BY DEF Typed, UsedType
  <2>3. \A h \in Heads : Sub(l, l) <= Off(l, h) /\ Off(l, h) < Unused => used.ring[h] = h
    BY <1>1 DEF Slot
  <2>4. /\ IsInjective(Unreaped) /\ Range(Unreaped) \subseteq Heads
        /\ \A h \in Heads : Sub(l, l) <= Off(l, h) /\ Off(l, h) < Unused => h \in Range(Unreaped)
    BY <1>2, <2>1, <2>2, <2>3, Distances, BetweenSlots DEF Unreaped
  <2>5. \A h \in Heads : Sub(l, l) <= Off(l, h)
    BY <2>1, Distances
  <2> QED BY <2>4, <2>5
<1>d. /\ vq.inuse = Cardinality(InDevice) /\ InDevice \subseteq Heads
      /\ \A h \in Heads : vq.inuse = 1 /\ Off(l, h) = Unused => h \in InDevice
  <2>1. dev.elem \in Heads \cup {NoHead} /\ async_tx \in Heads \cup {NoHead} /\ NoHead \notin Heads
    BY RingAssumption DEF Typed, DevType
  <2>2. CASE Holding
    <3>1. PICK c \in Heads : InDevice = {c} /\ Carried(c)
      <4>1. CASE dev.pc \in {"event", "publish", "send", "push"}
        BY <2>1, <4>1 DEF InDevice, Held, Carried, Custody
      <4>2. CASE dev.pc \notin {"event", "publish", "send", "push", "notify"} /\ async_tx # NoHead
        BY <2>1, <4>2 DEF InDevice, Held, Carried, Custody
      <4> QED BY <2>2, <4>1, <4>2 DEF Holding
    <3>2. Cardinality(InDevice) = 1 /\ vq.inuse = 1
      BY <2>2, <3>1, FS_Singleton DEF Custody
    <3>3. Off(l, c) = Unused
      BY <1>1, <3>1 DEF Slot
    <3> QED BY <3>1, <3>2, <3>3, Distances, OffInjective
  <2>3. CASE ~ Holding
    <3>1. InDevice = {} /\ vq.inuse = 0
      BY <2>3 DEF Holding, InDevice, Held, Custody
    <3> QED BY <3>1, FS_EmptySet
  <2> QED BY <2>2, <2>3
<1>f. Cardinality(drv.free) = Num - Away
  <2> DEFINE f == [h \in drv.free |-> Off(l, h)]
             T == Away .. Num - 1
  <2>1. drv.free \subseteq Heads
    BY DEF Typed, DriverType
  <2>2. \A h \in Heads : h \in drv.free <=> Away <= Off(l, h)
    BY <1>1 DEF Slot
  <2>3. \A h \in drv.free : f[h] \in T
    BY <2>1, <2>2, Distances
  <2>4. f \in [drv.free -> T]
    BY <2>3
  <2>5. IsInjective(f)
    BY <2>1, Distances, OffInjective DEF IsInjective
  <2>6. \A t \in T : \E h \in drv.free : f[h] = t
    <3> SUFFICES ASSUME NEW t \in T PROVE \E h \in drv.free : f[h] = t
      OBVIOUS
    <3>1. t \in Heads /\ Away <= t
      BY Distances, RangeNat DEF Heads
    <3>2. PICK h \in Heads : Off(l, h) = t
      BY <3>1, Distances, OffSurjective
    <3>3. h \in drv.free
      BY <2>2, <3>1, <3>2
    <3> QED BY <3>2, <3>3
  <2>7. IsFiniteSet(T) /\ Cardinality(T) = Num - Away
    <3>1. Away \in Int /\ Num - 1 \in Int /\ Num \in Int
      BY Distances, RangeNat
    <3>2. IsFiniteSet(T) /\ Cardinality(T) = IF Away > Num - 1 THEN 0 ELSE (Num - 1) - Away + 1
      BY <3>1, FS_Interval
    <3> QED BY <1>2, <3>1, <3>2
  <2> HIDE DEF f, T
  <2>8. f \in Injection(drv.free, T) /\ f \in Surjection(drv.free, T)
    BY <2>4, <2>5, <2>6 DEF Injection, Surjection
  <2>9. Cardinality(drv.free) = Cardinality(T)
    BY <2>7, <2>8, FS_Injection
  <2> QED BY <2>7, <2>9
<1>4. Cardinality(drv.free) + num_heads + vq.inuse + Sub(used.idx, l) = Num
  BY <1>f, Distances, RangeNat DEF Unused
<1>5. drv.free \cup Range(Pending) \cup InDevice \cup Range(Unreaped) = Heads
  <2>1. drv.free \subseteq Heads
    BY DEF Typed, DriverType
  <2>2. ASSUME NEW h \in Heads
        PROVE  h \in drv.free \cup Range(Pending) \cup InDevice \cup Range(Unreaped)
    <3> DEFINE d == Off(l, h)
    <3>1. d \in 0 .. Num - 1 /\ Slot(h, d)
      BY <1>1, Distances
    <3>2. vq.inuse \in {0, 1}
      BY DEF Custody
    <3>3. \/ d < Unused
          \/ vq.inuse = 1 /\ d = Unused
          \/ Unused + vq.inuse <= d /\ d < Away
          \/ Away <= d
      <4> HIDE DEF d
      <4> QED BY <3>1, <3>2, Distances
    <3>4. Away <= d => h \in drv.free
      BY <3>1 DEF Slot
    <3> QED BY <3>3, <3>4, <1>p, <1>u, <1>d
  <2> QED BY <2>1, <2>2, <1>p, <1>u, <1>d
<1> QED
  BY <1>2, <1>4, <1>5, <1>p, <1>u, <1>d DEF BufferInOnePlace, Unused

\* With packets that the backend does not lose, every buffer is in exactly
\* one place, for every ring, across any number of turns of the indices:
\* virtqueue_num_heads never reports more heads than the ring has, and
\* virtqueue_fill never overwrites an entry that the driver has not taken.
THEOREM NoBufferLost ==
    Spec => [](NoResetWhileBusy => BufferInOnePlace)
<1>1. IInv => (NoResetWhileBusy => BufferInOnePlace)
  BY OnePlace DEF IInv, BufferInOnePlace
<1> QED BY <1>1, Invariance, PTL
=============================================================================
