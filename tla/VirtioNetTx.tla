---------------------------- MODULE VirtioNetTx ----------------------------
(***************************************************************************)
(* The transmit queue of hw/virtio-net.c on a virtqueue: the two handlers  *)
(* for a notification (tx=bh and tx=timer), the bottom half and the timer  *)
(* that send, packets that the backend queues and completes later, and the *)
(* device's part in stopping and starting the VM, in migration and in a    *)
(* reset by the driver.                                                    *)
(*                                                                         *)
(* The device's code runs under the global mutex: a handler that has begun *)
(* (dev.pc # "idle") finishes before another one, a VM state change or a   *)
(* register write; the driver's steps fall in between.  A notification is  *)
(* an ioeventfd or an exit of a VCPU that waits for the mutex.             *)
(***************************************************************************)
EXTENDS VirtioRing

CONSTANT
    Configs     \* the devices and environments to consider

\* event, empty: the features the driver accepts.  timer: tx=timer.
\* ioeventfd: notifications do not stop the VCPU.  burst: x-txburst, or
\* NoLimit when it is never reached.  busy: the backend may queue packets.
\* stops: the VM is stopped and started.  resets: it is migrated while
\* stopped, and the driver resets the device.
NoLimit == 0

ASSUME ConfigAssumption ==
    Configs \subseteq [event : BOOLEAN, empty : BOOLEAN, timer : BOOLEAN,
                       ioeventfd : BOOLEAN, burst : Nat,
                       busy : BOOLEAN, stops : BOOLEAN, resets : BOOLEAN]

VARIABLES
    config,
    dev,         \* [pc, caller, elem, ev, num]: the handler in progress
    tx_waiting,
    armed,       \* tx_bh is scheduled, or tx_timer is pending
    async_tx,    \* async_tx.elem: the packet the backend has queued
    driver_ok,   \* status & VIRTIO_CONFIG_S_DRIVER_OK
    vm_running

txVars == <<tx_waiting, armed, async_tx>>
vmVars == <<driver_ok, vm_running>>
vars == <<ringVars, config, dev, txVars, vmVars>>

Pcs == {"idle", "enable", "store", "flush", "pop", "event", "publish", "send",
        "push", "notify"}
Callers == {"bh", "again", "timer", "kick", "complete"}

Idle == [pc |-> "idle", caller |-> "bh", elem |-> NoHead, ev |-> 0, num |-> 0]
Run(pc, caller) == [Idle EXCEPT !.pc = pc, !.caller = caller]

\* One packet more; without a limit only zero or not zero matters.
OneMore(n) == IF config.burst = NoLimit THEN 1 ELSE n + 1
AtBurst(n) == config.burst # NoLimit /\ n >= config.burst

Init ==
    /\ config \in Configs
    /\ features = [event |-> config.event, empty |-> config.empty]
    /\ RingInit
    /\ dev = Idle
    /\ tx_waiting = FALSE
    /\ armed = FALSE
    /\ async_tx = NoHead
    /\ driver_ok = TRUE
    /\ vm_running = TRUE

-----------------------------------------------------------------------------
(* Notifications by the driver.                                            *)

\* virtio_net_handle_tx_bh.
HandleTxBh ==
    /\ ~ config.timer
    /\ UNCHANGED dev
    /\ tx_waiting' = TRUE
    /\ IF tx_waiting \/ ~ vm_running
       THEN UNCHANGED <<vq, used, armed>>
       ELSE DisableNotification(vq) /\ armed' = TRUE

\* virtio_net_handle_tx_timer: a second notification sends at once.
HandleTxTimer ==
    /\ config.timer
    /\ \/ /\ ~ vm_running
          /\ tx_waiting' = TRUE
          /\ UNCHANGED <<vq, used, armed, dev>>
       \/ /\ vm_running /\ tx_waiting
          /\ armed' = FALSE
          /\ tx_waiting' = FALSE
          /\ dev' = Run("enable", "kick")
          /\ UNCHANGED <<vq, used>>
       \/ /\ vm_running /\ ~ tx_waiting
          /\ armed' = TRUE
          /\ tx_waiting' = TRUE
          /\ DisableNotification(vq)
          /\ UNCHANGED dev

\* virtio_queue_notify_vq; a queue without an address is ignored.
HandleOutput ==
    /\ dev.pc = "idle" /\ kick
    /\ kick' = FALSE
    /\ IF vq.ready
       THEN HandleTxBh \/ HandleTxTimer
       ELSE UNCHANGED <<vq, used, dev, tx_waiting, armed>>
    /\ UNCHANGED <<features, avail, drv, irq, config, async_tx, vmVars>>

-----------------------------------------------------------------------------
(* virtio_net_flush_tx and its callers.                                    *)

\* virtio_net_tx_bh.
TxBh ==
    /\ dev.pc = "idle" /\ armed /\ ~ config.timer
    /\ armed' = FALSE
    /\ tx_waiting' = FALSE
    /\ dev' = IF driver_ok THEN Run("flush", "bh") ELSE dev
    /\ UNCHANGED <<ringVars, config, async_tx, vmVars>>

\* virtio_net_tx_timer.
TxTimer ==
    /\ dev.pc = "idle" /\ armed /\ config.timer
    /\ armed' = FALSE
    /\ tx_waiting' = FALSE
    /\ dev' = IF driver_ok THEN Run("enable", "timer") ELSE dev
    /\ UNCHANGED <<ringVars, config, async_tx, vmVars>>

\* virtio_net_tx_complete: the backend has taken the packet it had queued.
TxComplete ==
    /\ dev.pc = "idle" /\ async_tx # NoHead
    /\ dev' = [Run("push", "complete") EXCEPT !.elem = async_tx]
    /\ UNCHANGED <<ringVars, config, txVars, vmVars>>

\* Mutant of Enable: notifications stay off.
EnableForgotten ==
    /\ dev.pc = "enable"
    /\ dev' = Idle
    /\ UNCHANGED <<ringVars, config, txVars, vmVars>>

\* virtio_queue_set_notification(tx_vq, 1); vring_avail_event reads avail.idx
\* first.
Enable ==
    /\ dev.pc = "enable"
    /\ EnableNotification
    /\ dev' = [dev EXCEPT !.pc = "store", !.ev = avail.idx]
    /\ UNCHANGED <<features, avail, used, drv, kick, irq, config, txVars, vmVars>>

\* Mutant of Store: the queue is not looked at again.
StoreNoRecheck ==
    /\ dev.pc = "store"
    /\ used' = NotifyEnabled(dev.ev)
    /\ dev' = Idle
    /\ UNCHANGED <<features, avail, vq, drv, kick, irq, config, txVars, vmVars>>

\* The store that the driver sees; the caller looks at the queue again.
Store ==
    /\ dev.pc = "store"
    /\ used' = NotifyEnabled(dev.ev)
    /\ dev' = [dev EXCEPT !.pc = "flush", !.ev = 0]
    /\ UNCHANGED <<features, avail, vq, drv, kick, irq, config, txVars, vmVars>>

\* virtio_net_flush_tx returns num packets to tx_bh, which may schedule
\* itself again or enable notifications and look again; for the other
\* callers the value is lost.  q is the VirtQueue it leaves behind.
Return(num, q) ==
    \/ /\ dev.caller = "bh" /\ AtBurst(num)
       /\ armed' = TRUE /\ tx_waiting' = TRUE
       /\ dev' = Idle
       /\ vq' = q /\ UNCHANGED used
    \/ /\ dev.caller = "bh" /\ ~ AtBurst(num)
       /\ dev' = Run("enable", "again")
       /\ vq' = q /\ UNCHANGED <<used, armed, tx_waiting>>
    \/ /\ dev.caller = "again" /\ num > 0
       /\ armed' = TRUE /\ tx_waiting' = TRUE
       /\ dev' = Idle
       /\ DisableNotification(q)
    \/ /\ dev.caller = "again" /\ num = 0
       /\ dev' = Idle
       /\ vq' = q /\ UNCHANGED <<used, armed, tx_waiting>>
    \/ /\ dev.caller \in {"timer", "kick", "complete"}
       /\ dev' = Idle
       /\ vq' = q /\ UNCHANGED <<used, armed, tx_waiting>>

\* virtio_net_flush_tx returns at once (num_packets is 0) while the driver
\* is not ready or a packet is still queued; tx_bh then looks again.  When the
\* driver is ready and the VM stopped the assertion ends the program: no step
\* follows.
FlushNothing ==
    /\ dev.pc = "flush"
    /\ ~ driver_ok \/ (vm_running /\ async_tx # NoHead)
    /\ IF driver_ok THEN DisableNotification(vq) ELSE UNCHANGED <<vq, used>>
    /\ dev' = IF dev.caller = "bh" THEN Run("enable", "again") ELSE Idle
    /\ UNCHANGED <<features, avail, drv, kick, irq, config, txVars, vmVars>>

Popping ==
    \/ dev.pc = "pop"
    \/ dev.pc = "flush" /\ driver_ok /\ vm_running /\ async_tx = NoHead

\* virtqueue_pop finds nothing.
PopEmpty ==
    /\ Popping /\ queue_empty
    /\ Return(dev.num, vq)
    /\ UNCHANGED <<features, avail, drv, kick, irq, config, async_tx, vmVars>>

\* virtqueue_pop; with EVENT_IDX it reads avail.idx again for the driver.
PopHead ==
    /\ Popping /\ ~ queue_empty
    /\ Pop
    /\ dev' = [dev EXCEPT !.elem = get_head,
                 !.pc = IF features.event /\ vq.notification
                        THEN "event" ELSE "send"]
    /\ UNCHANGED <<features, avail, used, drv, kick, irq, config, txVars, vmVars>>

PopEvent ==
    /\ dev.pc = "event"
    /\ dev' = [dev EXCEPT !.pc = "publish", !.ev = avail.idx]
    /\ UNCHANGED <<ringVars, config, txVars, vmVars>>

\* vring_avail_event: the store that the driver sees.
PopPublish ==
    /\ dev.pc = "publish"
    /\ used' = [used EXCEPT !.availEvent = dev.ev]
    /\ dev' = [dev EXCEPT !.pc = "send", !.ev = 0]
    /\ UNCHANGED <<features, avail, vq, drv, kick, irq, config, txVars, vmVars>>

\* qemu_sendv_packet_async returns 0: virtio_net_flush_tx returns -EBUSY and
\* waits for virtio_net_tx_complete.
SendBusy ==
    /\ dev.pc = "send" /\ config.busy
    /\ DisableNotification(vq)
    /\ async_tx' = dev.elem
    /\ dev' = Idle
    /\ UNCHANGED <<features, avail, drv, kick, irq, config, tx_waiting, armed,
                   vmVars>>

\* The packet is sent, or virtio_net_tx_complete has been called: the buffer
\* goes into the used ring.
PushElem ==
    /\ dev.pc \in {"send", "push"}
    /\ Push(dev.elem)
    /\ dev' = [dev EXCEPT !.pc = "notify", !.elem = NoHead]
    /\ UNCHANGED <<features, avail, drv, kick, irq, config, txVars, vmVars>>

\* virtio_notify in virtio_net_tx_complete, which then clears async_tx,
\* enables notifications and sends what has come in meanwhile.
NotifyCompletion ==
    /\ dev.pc = "notify" /\ async_tx # NoHead
    /\ Notify
    /\ vq' = Notified
    /\ async_tx' = NoHead
    /\ dev' = Run("enable", "complete")
    /\ UNCHANGED <<features, avail, used, drv, kick, config, tx_waiting, armed,
                   vmVars>>

\* virtio_notify in virtio_net_flush_tx: the next packet, or the burst ends.
NotifySent ==
    /\ dev.pc = "notify" /\ async_tx = NoHead
    /\ Notify
    /\ LET num == OneMore(dev.num) IN
         IF AtBurst(num)
         THEN Return(num, Notified)
         ELSE /\ vq' = Notified
              /\ dev' = [dev EXCEPT !.pc = "pop", !.num = num]
              /\ UNCHANGED <<used, armed, tx_waiting>>
    /\ UNCHANGED <<features, avail, drv, kick, config, async_tx, vmVars>>

-----------------------------------------------------------------------------
(* VM state, migration and reset.                                          *)

\* Mutant of SetStatus: a stopped device keeps its bottom half.
SetStatusKeepsArmed(ok, running) ==
    /\ driver_ok' = ok
    /\ vm_running' = running
    /\ armed' = (armed \/ (tx_waiting' /\ ok /\ running))

\* virtio_net_set_status: what is waiting is scheduled or cancelled.
SetStatus(ok, running) ==
    /\ driver_ok' = ok
    /\ vm_running' = running
    /\ armed' = IF tx_waiting' THEN ok /\ running ELSE armed

\* virtio_vmstate_change(0), after the VCPUs have stopped.  A notification
\* left in the ioeventfd reaches the handler with vm_running already clear.
VmStop ==
    /\ config.stops
    /\ dev.pc = "idle" /\ vm_running
    /\ kick => config.ioeventfd
    /\ tx_waiting' = (tx_waiting \/ (kick /\ vq.ready))
    /\ kick' = FALSE
    /\ SetStatus(driver_ok, FALSE)
    /\ UNCHANGED <<features, avail, used, vq, drv, irq, config, dev, async_tx>>

\* virtio_vmstate_change(1); a new ioeventfd is created in the signalled
\* state.
VmStart ==
    /\ dev.pc = "idle" /\ ~ vm_running
    /\ kick' = (config.ioeventfd /\ driver_ok)
    /\ UNCHANGED tx_waiting
    /\ SetStatus(driver_ok, TRUE)
    /\ UNCHANGED <<features, avail, used, vq, drv, irq, config, dev, async_tx>>

\* virtio_net_save, then virtio_net_load in another process; the rings are
\* in guest memory.
Migrate ==
    /\ config.resets
    /\ dev.pc = "idle" /\ ~ vm_running
    /\ vq' = LoadQueue(vq)
    /\ armed' = FALSE
    /\ async_tx' = NoHead
    /\ UNCHANGED <<features, avail, used, drv, kick, irq, config, dev,
                   tx_waiting, vmVars>>

\* The driver writes 0 to the status register: virtio_reset.  An ioeventfd
\* is emptied first, which is the step HandleOutput.
Reset ==
    /\ config.resets
    /\ dev.pc = "idle" /\ driver_ok /\ vm_running
    /\ kick => ~ config.ioeventfd
    /\ UNCHANGED tx_waiting
    /\ SetStatus(FALSE, TRUE)
    /\ vq' = ResetQueue(vq)
    /\ irq' = FALSE
    /\ drv' = [drv EXCEPT !.pc = "off", !.numAdded = 0]
    /\ UNCHANGED <<features, avail, used, kick, config, dev, async_tx>>

\* The driver sets up the queue again and writes DRIVER_OK.
DriverOk ==
    /\ dev.pc = "idle" /\ ~ driver_ok /\ vm_running
    /\ avail' = EmptyAvail
    /\ used' = EmptyUsed
    /\ drv' = FreshDriver
    /\ vq' = [vq EXCEPT !.ready = TRUE]
    /\ kick' = (kick \/ config.ioeventfd)
    /\ UNCHANGED tx_waiting
    /\ SetStatus(TRUE, TRUE)
    /\ UNCHANGED <<features, irq, config, dev, async_tx>>

Driver ==
    /\ vm_running
    /\ DrvAdd \/ DrvKick \/ DrvPoll \/ DrvInterrupt
    /\ UNCHANGED <<config, dev, txVars, vmVars>>

Device ==
    \/ Enable
    \/ Store
    \/ FlushNothing
    \/ PopEmpty
    \/ PopHead
    \/ PopEvent
    \/ PopPublish
    \/ SendBusy
    \/ PushElem
    \/ NotifyCompletion
    \/ NotifySent

MainLoop ==
    \/ HandleOutput
    \/ TxBh
    \/ TxTimer
    \/ TxComplete

Next ==
    \/ Driver
    \/ Device
    \/ MainLoop
    \/ VmStop
    \/ VmStart
    \/ Migrate
    \/ Reset
    \/ DriverOk

Spec == Init /\ [][Next]_vars

\* A handler runs to its end, the main loop serves notifications, bottom
\* halves and timers, a backend completes what it has queued, a stopped VM is
\* started again; the driver finishes what it has begun.
FairSpec ==
    /\ Spec
    /\ WF_vars(Device)
    /\ WF_vars(HandleOutput) /\ WF_vars(TxBh \/ TxTimer) /\ WF_vars(TxComplete)
    /\ WF_vars(VmStart \/ DriverOk)
    /\ WF_vars(Driver /\ DrvKick)
    /\ WF_vars(Driver /\ DrvPoll)
    /\ WF_vars(Driver /\ DrvInterrupt)

-----------------------------------------------------------------------------
(* Properties.                                                             *)

\* The state has its type: indices stay within their width, inuse within the
\* size of the ring, and the device holds heads of the ring only.
TypeOK ==
    /\ RingTypeOK
    /\ config \in Configs
    /\ dev \in [pc : Pcs, caller : Callers, elem : Heads \cup {NoHead},
                ev : Idx, num : Nat]
    /\ tx_waiting \in BOOLEAN
    /\ armed \in BOOLEAN
    /\ async_tx \in Heads \cup {NoHead}
    /\ driver_ok \in BOOLEAN
    /\ vm_running \in BOOLEAN

\* The slots from index a up to index b.
Between(ring, a, b) ==
    [i \in 0 .. Sub(b, a) - 1 |-> ring[((a + i) % IdxRange) % Num]]

Pending == Between(avail.ring, vq.last_avail_idx, avail.idx)
Unreaped == Between(used.ring, drv.lastUsed, used.idx)
Held == {dev.elem, async_tx} \ {NoHead}
InDevice == IF dev.pc = "notify" THEN {} ELSE Held

\* Every buffer is in one place: with the driver, in the available ring, in
\* the device (inuse counts those), or in the used ring, where it appears
\* once; so virtqueue_num_heads never finds more heads than the ring has.
BufferInOnePlace ==
    driver_ok =>
      /\ num_heads <= Num /\ Sub(used.idx, drv.lastUsed) <= Num
      /\ IsInjective(Pending)
      /\ IsInjective(Unreaped)
      /\ vq.inuse = Cardinality(InDevice)
      /\ Cardinality(drv.free) + num_heads + vq.inuse
           + Sub(used.idx, drv.lastUsed) = Num
      /\ drv.free \cup Range(Pending) \cup InDevice \cup Range(Unreaped) = Heads

\* vring_notify is right whatever it suppresses: a driver that sleeps with
\* buffers to take back has an interrupt coming.
NoLostInterrupt ==
    drv.pc = "sleep" /\ drv.lastUsed # used.idx => irq \/ dev.pc = "notify"

\* Whoever looks at the queue next.
WillLook ==
    \/ armed
    \/ async_tx # NoHead
    \/ kick /\ ~ tx_waiting
    \/ ~ vm_running /\ (tx_waiting \/ config.ioeventfd)

\* No packet is stranded: notifications were suppressed only while someone
\* was going to look ("Notification re-enable handled by tx_complete").
NoStall ==
    driver_ok /\ dev.pc = "idle" /\ ~ queue_empty /\ drv.numAdded = 0 => WillLook

\* virtio_net_set_status stops what the device has scheduled, and what it has
\* begun ends first: while the VM is stopped no bottom half or timer is
\* pending, and no handler is at work but the completion of a packet that the
\* backend had queued.
StoppedDeviceQuiet ==
    ~ vm_running => ~ armed /\ (dev.pc = "idle" \/ dev.caller = "complete")

\* assert(n->vdev.vm_running) in virtio_net_flush_tx, virtio_net_tx_bh and
\* virtio_net_tx_timer: packets are sent only while the VM runs.
SendsWhileRunning ==
    armed \/ (dev.pc = "flush" /\ driver_ok) => vm_running

\* Once the VM and the driver stay up, every buffer the driver gives away
\* comes back to it.
BufferReturned ==
    <>[](driver_ok /\ vm_running) =>
      \A h \in Heads : h \notin drv.free ~> h \in drv.free
=============================================================================
