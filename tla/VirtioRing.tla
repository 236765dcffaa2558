----------------------------- MODULE VirtioRing -----------------------------
(***************************************************************************)
(* A virtqueue of hw/virtio.c: the two rings in guest memory, the device's *)
(* private state (struct VirtQueue), and the guest driver at its other end *)
(* (external: modelled from what virtio.c expects of it).                  *)
(*                                                                         *)
(* Device and driver run on different threads and share only the rings, so *)
(* each access that the other side can observe is a step of its own, in    *)
(* the order the code makes them; the barriers of the code make that order *)
(* the one the other side sees.  Indices are free running and wrap at      *)
(* 2 * IdxHalf (2^16 in the code).  Descriptor chains are abstracted to    *)
(* their head.                                                             *)
(***************************************************************************)
EXTENDS Integers, FiniteSets, Functions

CONSTANTS
    IdxHalf,          \* half the range of avail.idx, used.idx, the event indices
    Num,              \* vring.num, the size of the ring
    NoHead

Heads == 0 .. Num - 1

IdxRange == 2 * IdxHalf

\* virtio_add_queue aborts beyond VIRTQUEUE_MAX_SIZE (1024), so that the
\* ring never exceeds half of the index space.  Every queue of the devices
\* has a power of two of entries (256 for virtio-net), so that a slot keeps
\* its place when an index wraps.
ASSUME RingAssumption ==
    /\ Num \in Nat \ {0}
    /\ IdxHalf \in Nat
    /\ Num <= IdxHalf
    /\ IdxRange % Num = 0
    /\ NoHead \notin Heads

VARIABLES
    features,   \* guest_features: [event, empty], EVENT_IDX, NOTIFY_ON_EMPTY
    avail,      \* VRingAvail: [idx, ring, noInterrupt, usedEvent]
    used,       \* VRingUsed: [idx, ring, noNotify, availEvent]
    vq,         \* VirtQueue, see ResetQueue
    drv,        \* the driver: [pc, lastUsed, numAdded, free]
    kick,       \* a notification of the device is pending
    irq         \* an interrupt is pending

ringVars == <<features, avail, used, vq, drv, kick, irq>>

Idx == 0 .. IdxRange - 1
Sub(a, b) == (a - b) % IdxRange

\* Mutant of Incr: the index does not wrap.
IncrUnbounded(a) == a + 1

Incr(a) == (a + 1) % IdxRange
Signed(a) == IF a < IdxHalf THEN a ELSE a - IdxRange

Features == [event : BOOLEAN, empty : BOOLEAN]

RingTypeOK ==
    /\ features \in Features
    /\ avail \in [idx : Idx, ring : [Heads -> Heads],
                  noInterrupt : BOOLEAN, usedEvent : Idx]
    /\ used \in [idx : Idx, ring : [Heads -> Heads],
                 noNotify : BOOLEAN, availEvent : Idx]
    /\ vq \in [ready : BOOLEAN, last_avail_idx : Idx, signalled_used : Idx,
               signalled_used_valid : BOOLEAN, notification : BOOLEAN,
               inuse : 0 .. Num]
    /\ drv \in [pc : {"off", "run", "check", "sleep"}, lastUsed : Idx,
                numAdded : 0 .. Num, free : SUBSET Heads]
    /\ kick \in BOOLEAN
    /\ irq \in BOOLEAN

-----------------------------------------------------------------------------
(* The device's side.                                                      *)

\* virtio_reset: the queue loses its address; inuse is left as it is.
ResetQueue(q) ==
    [q EXCEPT !.ready = FALSE, !.last_avail_idx = 0, !.signalled_used = 0,
              !.signalled_used_valid = FALSE, !.notification = TRUE]

\* virtio_load in a fresh process; signalled_used is not part of the stream.
LoadQueue(q) ==
    [q EXCEPT !.signalled_used = 0, !.signalled_used_valid = FALSE,
              !.notification = TRUE, !.inuse = 0]

num_heads == Sub(avail.idx, vq.last_avail_idx)
queue_empty == num_heads = 0

get_head == avail.ring[vq.last_avail_idx % Num]

\* virtio_queue_set_notification(vq, 0), for a VirtQueue in state q.
DisableNotification(q) ==
    /\ vq' = [q EXCEPT !.notification = FALSE]
    /\ used' = [used EXCEPT !.noNotify = features.event => @]

\* virtio_queue_set_notification(vq, 1); with EVENT_IDX the index that
\* vring_avail_event stores has been read before, as ev.
EnableNotification ==
    vq' = [vq EXCEPT !.notification = TRUE]

NotifyEnabled(ev) ==
    [used EXCEPT !.noNotify = features.event /\ @,
                 !.availEvent = IF features.event THEN ev ELSE @]

\* virtqueue_pop, as far as last_avail_idx and inuse.
Pop ==
    vq' = [vq EXCEPT !.last_avail_idx = Incr(@), !.inuse = @ + 1]

\* Mutant of StillValid: no check for an index that has gone around.
StillValidUnchecked(old, new) == TRUE

\* virtqueue_flush: signalled_used is useless once used.idx may have gone
\* around since.
StillValid(old, new) ==
    ~ (Signed(Sub(new, vq.signalled_used)) < Sub(new, old))

\* Mutant of Push: the slot follows last_avail_idx, not used.idx.
PushAtFixedSlot(head) ==
    LET new == Incr(used.idx) IN
    /\ used' = [used EXCEPT !.ring[vq.last_avail_idx % Num] = head, !.idx = new]
    /\ vq' = [vq EXCEPT
                !.inuse = @ - 1,
                !.signalled_used_valid = @ /\ StillValid(used.idx, new)]

\* virtqueue_push: virtqueue_fill and virtqueue_flush of one element.
Push(head) ==
    LET new == Incr(used.idx) IN
    /\ used' = [used EXCEPT !.ring[used.idx % Num] = head, !.idx = new]
    /\ vq' = [vq EXCEPT
                !.inuse = @ - 1,
                !.signalled_used_valid = @ /\ StillValid(used.idx, new)]

vring_need_event(event, new, old) == Sub(new, event + 1) < Sub(new, old)

\* vring_notify: NOTIFY_ON_EMPTY returns before signalled_used is updated.
NotifyOnEmpty == features.empty /\ vq.inuse = 0 /\ queue_empty

vring_notify ==
    \/ NotifyOnEmpty
    \/ ~ features.event /\ ~ avail.noInterrupt
    \/ /\ features.event
       /\ \/ ~ vq.signalled_used_valid
          \/ vring_need_event(avail.usedEvent, used.idx, vq.signalled_used)

\* virtio_notify, and the VirtQueue it leaves behind.
Notify == irq' = (irq \/ vring_notify)

Notified ==
    IF features.event /\ ~ NotifyOnEmpty
    THEN [vq EXCEPT !.signalled_used = used.idx, !.signalled_used_valid = TRUE]
    ELSE vq

-----------------------------------------------------------------------------
(* The driver's side (external).                                           *)

\* A buffer goes into the available ring and is published; at most Num of
\* them before the device is told.  The driver takes its heads in turn.
DrvAdd ==
    /\ drv.pc # "off" /\ drv.numAdded < Num
    /\ LET h == avail.idx % Num IN
         /\ h \in drv.free
         /\ avail' = [avail EXCEPT !.ring[avail.idx % Num] = h, !.idx = Incr(@)]
         /\ drv' = [drv EXCEPT !.free = @ \ {h}, !.numAdded = @ + 1]
    /\ UNCHANGED <<features, used, vq, kick, irq>>

\* After a batch the driver asks whether the device wants to be told.
DrvKick ==
    /\ drv.numAdded > 0
    /\ kick' = \/ kick
               \/ IF features.event
                  THEN vring_need_event(used.availEvent, avail.idx,
                                        Sub(avail.idx, drv.numAdded))
                  ELSE ~ used.noNotify
    /\ drv' = [drv EXCEPT !.numAdded = 0]
    /\ UNCHANGED <<features, avail, used, vq, irq>>

\* The driver takes a buffer back from the used ring.
DrvReap ==
    /\ drv.pc = "run" /\ drv.lastUsed # used.idx
    /\ drv' = [drv EXCEPT !.lastUsed = Incr(@),
                          !.free = @ \cup {used.ring[drv.lastUsed % Num]}]
    /\ UNCHANGED <<features, avail, used, vq, kick, irq>>

\* Before it sleeps it asks for an interrupt and looks at the ring again.
DrvEnableCb ==
    /\ drv.pc = "run" /\ drv.numAdded = 0 /\ drv.lastUsed = used.idx
    /\ drv' = [drv EXCEPT !.pc = "check"]
    /\ avail' = [avail EXCEPT
                   !.noInterrupt = features.event /\ @,
                   !.usedEvent = IF features.event THEN drv.lastUsed ELSE @]
    /\ UNCHANGED <<features, used, vq, kick, irq>>

DrvCheck ==
    /\ drv.pc = "check"
    /\ IF drv.lastUsed = used.idx
       THEN /\ drv' = [drv EXCEPT !.pc = "sleep"]
            /\ avail' = avail
       ELSE /\ drv' = [drv EXCEPT !.pc = "run"]
            /\ avail' = [avail EXCEPT !.noInterrupt = ~ features.event]
    /\ UNCHANGED <<features, used, vq, kick, irq>>

\* The interrupt wakes it; until it sleeps again it wants no interrupt.
DrvInterrupt ==
    /\ irq
    /\ irq' = FALSE
    /\ IF drv.pc = "sleep"
       THEN /\ drv' = [drv EXCEPT !.pc = "run"]
            /\ avail' = [avail EXCEPT !.noInterrupt = ~ features.event]
       ELSE UNCHANGED <<drv, avail>>
    /\ UNCHANGED <<features, used, vq, kick>>

DrvPoll == DrvReap \/ DrvEnableCb \/ DrvCheck

EmptyAvail ==
    [idx |-> 0, ring |-> [i \in Heads |-> 0], noInterrupt |-> FALSE,
     usedEvent |-> 0]
EmptyUsed ==
    [idx |-> 0, ring |-> [i \in Heads |-> 0], noNotify |-> FALSE,
     availEvent |-> 0]
FreshDriver == [pc |-> "run", lastUsed |-> 0, numAdded |-> 0, free |-> Heads]
NewQueue ==
    [ready |-> TRUE, last_avail_idx |-> 0, signalled_used |-> 0,
     signalled_used_valid |-> FALSE, notification |-> TRUE, inuse |-> 0]

RingInit ==
    /\ avail = EmptyAvail
    /\ used = EmptyUsed
    /\ vq = NewQueue
    /\ drv = FreshDriver
    /\ kick = FALSE
    /\ irq = FALSE
=============================================================================
