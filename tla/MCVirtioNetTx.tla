--------------------------- MODULE MCVirtioNetTx ---------------------------
(***************************************************************************)
(* A queue of two buffers.                                                 *)
(***************************************************************************)
EXTENDS VirtioNetTx

Config(timer, ioeventfd, burst) ==
    [timer |-> timer, ioeventfd |-> ioeventfd, burst |-> burst,
     event |-> FALSE, empty |-> FALSE,
     busy |-> FALSE, stops |-> FALSE, resets |-> FALSE]

\* Both handlers, each with a backend that queues packets and with a VM that
\* is stopped, migrated and reset; a burst of one packet for tx=bh; a VM that
\* is stopped while the backend has a packet.
SoundConfigs ==
    {[Config(FALSE, FALSE, NoLimit) EXCEPT !.event = TRUE, !.busy = TRUE],
     [Config(FALSE, FALSE, NoLimit) EXCEPT !.busy = TRUE, !.stops = TRUE],
     [Config(FALSE, TRUE, NoLimit) EXCEPT !.stops = TRUE],
     [Config(FALSE, FALSE, 1) EXCEPT !.stops = TRUE, !.resets = TRUE],
     [Config(TRUE, FALSE, NoLimit) EXCEPT !.busy = TRUE],
     [Config(TRUE, FALSE, NoLimit) EXCEPT !.event = TRUE, !.empty = TRUE,
                                          !.stops = TRUE, !.resets = TRUE]}

\* A burst that ends while the backend had a packet queued.
BurstConfigs == {[Config(FALSE, FALSE, 1) EXCEPT !.busy = TRUE]}

\* A VM that is stopped while the backend has a packet queued.
StopConfigs ==
    {[Config(FALSE, FALSE, NoLimit) EXCEPT !.busy = TRUE, !.stops = TRUE]}
=============================================================================
