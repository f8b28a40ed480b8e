# A verification development for the Guru driver

The repository is a Linux kernel driver for three USB adapters: the *CAN Guru*
(SocketCAN interfaces and a boot device), the *LIN Guru* (LIN interfaces that
look like SocketCAN ones, and a voltage sensor) and the *MultiBus* (both kinds
of interface). This directory models the parts of the driver where several
contexts meet, model-checks them with TLC and proves the main results with
TLAPS for every number of interfaces, readers and adapters.

1. [Inventory](#inventory)
2. [Modules](#modules)
3. [Runs](#runs)
4. [Fairness](#fairness)
5. [Proofs](#proofs)
6. [Assumptions](#assumptions)
7. [Findings](#findings)
8. [What is not modelled, and the plan](#plan)

<a name="inventory"></a>
## 1. Inventory

### Contexts

The driver takes one lock in all its code, the mutex of the voltage sensor.
Everything else relies on which context calls it:

| context | enters the driver at | serialized by |
|---|---|---|
| transmit softirq or a sending process | `*_start_xmit` | the TX queue of one interface; bottom halves are off |
| completion of bulk-in URBs | `canguru_read_bulk_callback`, from there every message callback | one at a time per adapter (endpoint order) |
| completion of bulk-out URBs | `canguru_write_bulk_callback` | nothing |
| process under RTNL | `*_ops_open`, `*_ops_close`, bit timing, termination | RTNL |
| process reading sysfs | `linguru_volt_read_raw` | `priv->lock` |
| hub thread | `guru_usb_probe`, `guru_usb_disconnect` | the device; two adapters on two hubs are not serialized |
| module loader | `guru_drv_init`, `guru_drv_exit` | module loading |

### Components

**CAN interface, transmit path** (`canguru-net.c`, `canguru-msg-net.c`).
State: `can_priv.state`, whether the TX queue is stopped, the single echo slot,
what byte queue limits (BQL) count, the TX counters, the reply entry; shared by
all interfaces of an adapter: `send_reply_list`. Operations: open, close,
`start_xmit`, the send callback. A `CAN_MSG_SEND` reply carries a status and
neither a channel nor a sequence number: it is credited to the interface that
is first in the list. Nothing locks the list, and a frame is submitted *before*
its entry is listed and *before* BQL counts it. Hard: the interleaving of these
steps with the completion; lost transfers; closing with a reply outstanding; no
`ndo_tx_timeout`. Correct means: a reply is credited to the frame it answers,
every frame is counted once, a stopped queue is woken, BQL is never completed
beyond what was sent (the kernel stops with `BUG_ON`), no list entry is linked
twice.

**CAN interface, receive path and configuration** (`canguru-net.c`). State:
bit rates, control modes, termination; in the device: what it was told of them.
Operations: creation (reset, global filter), `set_bittiming` (two messages, for
either bit rate), `set_termination`, conversion of frames in both directions,
time stamps. Hard: a command fails or is lost while the kernel goes on; control
modes have no hook and travel with the bit timing; lengths and identifiers go
through narrow bit fields. Correct means: an interface that is up runs with what
the user set; a frame comes out of the other side as it went in.

**CAN and LIN messages** (`*-msg-net.c`). State: the `guru_msg` handlers, the
reply list, the interface pointers. Operations: registration of handlers,
dispatch of a reply, of a received frame (with a check of the channel number)
and of a status. Hard: the list primitives are several stores each and nothing
locks the lists. Correct means: the reply list is a queue; a message finds its
handler while others are being added.

**USB transport** (`guru-device.c`). State: `GURU_MAX_URBS` RX URBs and their
buffers, the anchor, `msg_list`, `curr_msg_data`, a buffer per send. Operations:
setting up the ring, sending, both completion handlers, dispatch, teardown.
Hard: an URB that ends with a fatal status or fails to be resubmitted leaves
the ring for good; a resubmitted URB is not anchored again; a failed probe
leaves the ring running; an aborted transfer leaves an old message in its
buffer. Correct means: URBs are neither duplicated nor forgotten, messages are
dispatched in order and once, the structure outlives its users.

**Standard messages** (`guru-msg-std.c`). The firmware version: one request at
probe, the answer is logged.

**LIN interface** (`linguru-net.c`). As the CAN interface, except that the
configuration is sent when the interface opens, and an error keeps it down.

**LIN voltage sensor** (`linguru-voltage.c`). State: mutex, completion, the
last voltage. Operations: read with timeout, answer. Hard: an answer names no
request, so a late one is taken for the next; the voltage is read after the
wait. Correct means: every read returns, and what it returns is not
arbitrarily old.

**Boot device** (`guru-boot.c`). State, global to the driver and unlocked: the
table of minor numbers; in the kernel: device nodes, the cdev map, the cdev an
inode keeps and the files that are open. All cdevs are added with the same
number. Correct means: each adapter has a node of its own; the table does not
point at adapters that are gone; a minor is refused only when none is free;
opening a node leads to its adapter.

**Products** (`canguru-device.c`, `linguru-device.c`, `mbus-device.c`). The
order in which the above is built up and torn down, while users may already
open interfaces and messages already arrive. Correct means: nothing is used
before it is set up, a disconnect releases everything, a failed probe too.

**Driver registration** (`guru-drv.c`). Probe and disconnect; module load and
unload, with error labels. Correct means: class and region outlive the adapters,
and nothing stays registered once the module is out.

`guru_drv.mod.c` is generated and has no behaviour of its own.

### How they interact

`guru-drv` calls the product's init function, which calls `guru_dev_init` (the
RX ring starts here), creates the interfaces, adds the message handlers and
creates boot device or sensor. Interfaces and sensor call `guru_send_data`;
the RX completion handler dispatches through `msg_list` into `*-msg-net.c`,
which calls back into interface (`send_callback`, `net_recv`) or sensor
(`linguru_volt_reply`). The shared state between contexts is the reply list,
the completion and the voltage, the ring, and the boot table. PROJECT.json
lists the hazards at their lines.

<a name="modules"></a>
## 2. Modules

| module | models | composed with |
|---|---|---|
| `CanguruNet` | transmit path of all CAN interfaces of an adapter, the reply list, enable commands | |
| `CanguruNetInv` | its inductive invariant, in named parts | extends `CanguruNet` |
| `TxService` | what an interface promises the network stack: one frame at a time, each reported once | abstract |
| `CanguruNetService` | the refinement mapping of `CanguruNet` onto `TxService` | instantiates `TxService` |
| `CanguruNetProofs` | proofs about `CanguruNet`, and that it implements `TxService` | |
| `GuruDevice`, `GuruDeviceProofs` | USB transport from probe to disconnect; proofs | |
| `LinguruVoltage`, `LinguruVoltageProofs` | voltage sensor, with its inductive invariant; proofs | |
| `GuruBoot` | minor table, nodes, cdevs and open files of many adapters | |
| `GuruDrv` | loading and unloading the module around them | extends `GuruBoot`: composes both |
| `GuruBootProofs` | proofs about both, with their inductive invariants | |
| `GuruConfig`, `GuruConfigProofs` | configuration of one CAN or LIN interface, command by command; proofs | |
| `GuruFrames`, `GuruFramesProofs` | a frame between two drivers, and its time stamp; proofs | |
| `GuruQueue` | what the driver expects of its lists: a queue | abstract |
| `GuruLists`, `GuruListsProofs` | `send_reply_list` and `msg_list`, store by store; proofs | instantiates `GuruQueue` |
| `GuruProbe`, `GuruProbeProofs` | building up and tearing down the three products, under use; proofs | |
| `MC*` | symmetry sets for TLC | |

Definitions keep the names of the code. Where a handler lets other contexts in
between two of its steps, each such step is an action and a variable says where
the handler stands (`xmit` and `rx` in `CanguruNet`, `handler` in `GuruDevice`,
`soft` in `GuruLists`, `at` in the others); what no other context can observe is one action.
Definitions named `X_suffix` under a comment "Mutant:" are not part of `Next`:
each is `X` with a plausible bug, and shows that a property can fail.

**CanguruNet.** `start_xmit` is `XmitStop` (the queue is stopped), `XmitSend`
(submitted, or woken again on an error), `XmitEcho` (`can_put_echo_skb`, or the
error path, which returns with the queue stopped), `XmitWait`
(`list_add_tail`), `XmitSent` (`netdev_sent_queue`). A reply is `RecvReply`
(lookup), `SendCallbackEcho` (echo slot and counters), `SendCallbackWake` (BQL,
wake-up), `ReplyUnlink` (`list_del`). With `SMP = FALSE` a section with bottom
halves off is not interrupted (`Free`). A reply stays at the head of `pipe`
until its handler ends. `frame_len` of an empty echo slot is never written by
the code: the model chooses any value. Frame lengths are abstracted to one per
frame. After `kernel` has become `"bug"` (BUG_ON) or `"corrupt"` (an entry
linked twice) nothing happens any more. Two ghosts record what broke the
pairing of replies and frames (`slips`), and which interfaces were closed with a reply
outstanding (`abandoned`): the properties say what holds without such an event.

**GuruDevice.** An RX URB is in `queue` (with the controller), in `done`
(completed, handler to come) or in the hands of the handler, or it is lost to
the ring. Buffers hold the number of a message. `log` is what was dispatched.
`tx` follows the buffer of each send: a completed send keeps its buffer. The
USB core is external: ordered completion, `usb_kill_anchored_urbs`, endpoints
disabled before `disconnect`, devres release.

**LinguruVoltage.** The voltage of an answer is the number of the request it
answers, so that a returned value has an age. `pending` holds the requests not
answered; the device answers in order, and any may be lost.

**GuruBoot, GuruDrv.** `Scan` is one entry of the table at a time;
`device_create` refuses a number in use; `cdev_del` removes the foremost cdev,
because all have the same number. Adapters come and go at the same time; the
ghost `overlapped` says that two did so, `overtaken` that an adapter left before
a later one. `guru_boot_open` goes through the cdev in the inode or, when there
is none, the first one of the number (`Reached`). `GuruDrv` adds the loader: one
action per call of `guru_drv_init` and `guru_drv_exit`, with the error labels as
they stand. Label `err_boot` destroys the class twice; the model lets the machine
crash or survive it. `DrvNext` lets adapters arrive only while the driver is
registered, and `usb_deregister` waits until all are gone.

**GuruConfig.** A netlink message is a list of attributes handled one by one
(`todo`); an error drops the rest. `Send` hands commands to the device, of which
any may be lost, then named in `unsent` until one of its kind gets through. The
device is a record of what it was told last. A timing is the pair of rates it
was computed for.

**GuruFrames.** Frames are records of the fields the conversions touch; `Send`
converts one on the sending side, `recv_callback` checks the channel and
converts it back. `len8` is the control mode that shows raw DLCs, for sender and
receiver. Identifiers are numbers that `%` cuts to the masks of the code
(`CAN_STD_ID_MASK` and the like, here constants), time stamps to the number of
values the adapter's clock has (`Stamps`).

**GuruLists.** The fields of head and entries are one function, `ptr`; a list
operation reads its pointers, then owes a sequence of stores (`busy`), of which
each is a step. `machine` is one processor, several, or several that may show
stores in any order. `raced` is set when two operations under way use the same
pointer or a linked entry is linked again, which is what a lock would exclude,
and ends the behaviour. The walk over `msg_list` is `canguru_process_msg_list`,
one `WalkItem` per entry. `CanguruNet` takes list operations as atomic;
`IsQueue` says when they are.

**GuruProbe.** `Order(product)` and `Undo(product)` are the sequences of calls
of the init and deinit functions; creation of an interface may fail and the
loop goes on. `ops_open`, `start_xmit` and `net_recv` happen meanwhile. The
device may be talking for a channel from before. `kernel` names the step that
used a pointer that was not set.

<a name="runs"></a>
## 3. Runs

| run | instance | states | shows |
|---|---|---|---|
| `tx_up` | 2 interfaces, 2 frames each, uniprocessor | 1.2 M | `TypeInv`; `Pairing`: replies are credited to the interfaces they answer |
| `tx_smp` | 2 interfaces, 2 frames each, multiprocessor | 6.3 M | `Balance` of replies and waiters; `AwakeIsEmpty`; `KernelEnd`: the only ways to `BUG_ON` and to a corrupt list; `CountedOnce` |
| `tx_enable` | 2 interfaces, 3 commands under way | 5.9 k | `EnableAgrees`: the device is told what is up, unless the last command was lost |
| `tx_service` | 2 interfaces, 1 frame each, multiprocessor | 54 k | `KeepsService`: implements `TxService`; `QueueWakes`: a stopped queue is woken unless one of three slips happened |
| `urb_ring` | 2 URBs, 1 interface, 3 messages, 2 sends | 153 k | `RingConserved`, `InOrder`, `NotOverwritten`, `Lifetime`, `KeepsReceiving` |
| `urb_close_doc` | 2 URBs, 3 sends | | finding, see below |
| `volt_age` | 2 readers, 4 requests | 39 k | `LagBounded`, `QuietIsFresh`, `ReadReturns` |
| `boot` | 3 adapters, 2 minors, 2 open files, load and unload | 172 k | `NodeKept`, `NoStranger`, `TableAgrees`, `RefusedOnlyWhenFull`, `MapSound`; `OpenReachesPresent`: where opening a node leads; `NeedsClass`, `OutIsClean` |
| `probe_order` | 3 products, 2 channels per bus | 15 k | `UnsetOnlySo`, `FailedLeaves`, `NothingLeft` |
| `config` | 2 bit rates, 3 commands missing at a time | 2.1 M | `Configured`, `FdConfigured`, `SameRates`, `LinConfigured`, `TerminationAgrees`: what the device has is what the user set, and the exceptions |
| `frames` | masks of 1 and 3 bits, 4 lengths, both len8 modes | 185 k | `RoundTrip`: frames come out as they went in; `StampsExact` |
| `lists` | 4 entries, 3 kinds of machine, both lists | 144 k | `IsQueue`: implements `GuruQueue`; `CalledOnce`: a message finds its handler |

Why the bounds are enough:

- *Two interfaces* are what it takes for a reply to be credited to the wrong
  one; *two frames* let an interface send again while a late reply to its first
  frame is under way. The proofs cover any number of both. `tx_enable` sets
  `MaxFrames` to 0, since commands and frames meet nowhere in the code;
  `tx_service` needs one frame per interface, because the slips that could
  keep a queue asleep happen within one frame and no symmetry may be used with
  liveness.
- *Two URBs and three messages*: a buffer is used again while another URB is in
  the ring. The driver sets up `GURU_MAX_URBS` of them in a loop that treats
  all alike.
- *Two readers and four requests* let a late answer be taken by the other
  reader, several timeouts in a row, and a reader that starts afterwards with
  nothing outstanding. Once requests are used up `guru_send_data` fails.
- *Three adapters and two minors* fill the table and turn one away, and let two
  scan it while a third leaves; *two files* are one that keeps an old cdev alive
  and one that is opened through it.
- *Two bit rates* tell old from new and nominal from data; *three missing
  commands* are the configuration, the timing and one more.
- *Masks of 1 and 3 bits* have identifiers that fit each kind and some that do
  not; the lengths are one that every kind has, 8, the first that FD does not
  have and the last.
- *Four entries* let the first be unlinked and another be linked with two between
  them, and the walk has handlers before and after the one it wants.
- *Two channels per bus* give a channel that exists while its neighbour does
  not; the products have two, eight or ten, in loops that treat all alike.

`CHECK_DEADLOCK FALSE` is set where the system stops: after `kernel` is no
longer `"ok"`, when the bounds on frames or messages are used up, and when an
adapter is gone; in `lists` after a race, in `frames` at the
end of the clock, in `boot` after a crash. In `volt_age` it is set since a reader may stay idle for ever;
that nobody hangs in a read is the subject of `ReadReturns`.

<a name="fairness"></a>
## 4. Fairness

*CanguruNet.* Weak fairness of the steps of `start_xmit`, of the completion
handler and of `close_candev`: the kernel does not leave a function half way.
Strong fairness of `RecvReply`: on a uniprocessor it is disabled whenever
another section runs, but a raised softirq is served each time bottom halves
are enabled again; that a reply comes at all is asked of the device only for
what it received, and a lost transfer is a `slip`. Nothing is assumed about
users, and nothing about losses.

*GuruDevice.* Weak fairness of the handler (a softirq), strong fairness of
`Transfer`: a device given URBs again and again gets a message across. Nothing
is assumed about which transfers fail.

*LinguruVoltage.* Weak fairness of a reader's steps (the wait ends with its
timeout at the latest) and strong fairness of `Lock` (the mutex hands over in
FIFO order). Nothing is asked of the device: reads return without it.

<a name="proofs"></a>
## 5. Proofs

All are for arbitrary constants that satisfy the module's ASSUME. Each proof has
the same shape: an invariant `IInv` that is inductive (TLC checked it on the
run's instance before it was proved), one lemma per action that the invariant
is kept, and the properties from it. PROJECT.json lists the theorems.

**CanguruNetProofs.** `Inductive` proves `[]IInv`, with `IInv` in
`CanguruNetInv`. `KernelEnd` and `CountedOnce` are not inductive: that nothing
is completed which was not sent depends on where a frame can be. `Tidy(ch)`
says it for one interface by five conjuncts - the queue is stopped while a
frame is under way, BQL counts one frame exactly from the end of `start_xmit`
to the completion, the echo slot is full from `can_put_echo_skb` until the send
callback takes it, the callback then knows the length, and an interface that is
down is not in the list. `Ordered` adds that no entry is linked twice and, on a
uniprocessor, that one context is inside the driver at a time. `Tidy` is claimed
for interfaces not in `abandoned` only, and while the kernel runs. The proof
has a lemma per action for `Ordered`, and one each for what a step does to
`KernelEnd`, `CountedOnce` and `Pairing`. From it follow `TypeCorrect`,
`EndsOnlySo` (`KernelEnd`), `CountsOnce` (`CountedOnce`), `PairsReplies`
(`Pairing`) and `OneFrameAtATime` (`AwakeIsEmpty`).

`BalancesReplies` (`Balance`) compares two numbers, replies under way and
waiters. The interfaces between `ndo_start_xmit`'s submission and its
`list_add_tail` are counted as a set, `Window`, so that each step moves one
element in or out; `Balance` is then inductive on top of `IInv`.
`AgreesOnEnable` (`EnableAgrees`) speaks of an empty command queue only; its
invariant `Told` says for each interface that the last command under way, or
without one the device, carries the state of the interface, unless that command
was lost.

`Implements` is `Spec => KeepsService`: the initial
states of `CanguruNet` are initial states of `TxService`, and each of its steps is
one of the service's or a stutter. Under the mapping a frame is with the service from
`XmitSend` on and delivered by `SendCallbackEcho`. `IInv` is needed for the
latter: the interface whose echo slot is taken is one that has a frame, and
nothing else of the others moves (`Only`).

**GuruDeviceProofs.** `ConservesRing` (`RingConserved`) counts: `Tally` says
that the URBs set up are those in `queue`, those in `done` with a status that is
not fatal, the handler's, and the `faults`. It needs `Placed` - an URB is in one
place, and nowhere before it was set up - since URBs are counted by their
places. `DispatchesInOrder` (`InOrder`) rests on `Ordered`: what is under way
is newer than all that was dispatched, and older than what is behind it.
`ReadsBeforeResubmit` (`NotOverwritten`) rests on `Read`: a buffer that is with
the controller holds nothing, or a message already in the log. `OutlivedOnlySo`
(`Lifetime`) follows the phases of the disconnect (`Released`).

**LinguruVoltageProofs.** `LagBounded` needs a count that survives the whole
round trip: `Lag` relates the requests sent to the last answer handled, the
timeouts and a completion nobody consumed, for each place the holder of the
mutex can stand. `Exclusive` (the mutex), `InOrder` (answers come in order) and
`Latest` (who waits sent the last request) carry it; `Fresh` does the same for
a reader that began with nothing outstanding. From `[]IInv`: `TypeCorrect`,
`LagIsBounded`, `QuietReadsFresh`.

**GuruBootProofs.** Three invariants, for three questions. `IInv` is the types
of table and nodes with `NodeKept` and `NoStranger`, which are inductive
together: an adapter enters the table only after `device_create` gave it the
node, which a second adapter with the same minor cannot get. From it:
`KeepsNode`, `KnowsNoStranger`. `OneByOne` is about adapters that come and go
one at a time (`~overlapped`): one is at work (`Alone`), the table differs from
the nodes at most at the number it works on (`Behind`), and the entries it
passed over are in use (`Scanned`). From it: `AgreesWithNodes` (`TableAgrees`) and the action property
`RefusesWhenFull` (`RefusedOnlyWhenFull`). `CdevInv` is about the cdevs:
there are as many as adapters that added one (`Counted`), so that `cdev_del`
always finds one; `MapSound`; a file keeps the cdev it was opened through
(`Held`), and the inode remembers no other (`Remembered`). From it:
`TypeCorrect`, `MapsPresent` (`MapSound`), `OpensPresent`
(`OpenReachesPresent`).

`DriverRunsAdapters` shows that every behaviour of `GuruDrv` is one of
`GuruBoot`, so that all of this holds of the whole driver. For the class a
further invariant follows the loader: what is registered in each of its states,
and that adapters and files exist only in those in which the driver is
registered. From it: `ClassOutlivesAdapters`, `UnloadsClean`.

**GuruConfigProofs.** What the device has is what was sent last, so the
invariant is about what is still to come: `Pending` says which attributes can be
left in a netlink message (turning FD on is followed by a bit rate; only the
termination can be set while the interface is up), and `FdSent` that the
device knows of FD and its bit rate unless such an attribute is at the head of
`todo`. `ConfSent` and `RestSent` say what the device has, command by command,
unless it is in `unsent`. From them: `KeepsRates`, `ConfiguresLin`,
`KeepsTermination`, `ConfiguresFd`, `ConfiguresAll`.

**GuruProbeProofs.** The orders of the three products become numbers first:
`Place(p, step)` is where a step stands in `Order(p)`, `UndoPlace` in
`Undo(p)`. `Built` then says what exists at position `pos` of the probe,
`Undone` what is left at `pos` of the disconnect, for any number of channels and
whichever of them failed. From them: `UnsetPointers` (`UnsetOnlySo`),
`LeavesNothing` (`NothingLeft`), `FailedProbe` (`FailedLeaves`).

**GuruFramesProofs.** `KeepsFrames` (`RoundTrip`) is mostly lemmas about the
conversions: what the receiver makes of the fields the sender filled in, for each kind
of frame, identifier and length; the invariant only remembers that what is on
the wire was made by a sender (`Sent`). `StampsKeepDistance` (`StampsExact`) is
arithmetic of `%`: two receptions in one turn of the clock.

**GuruListsProofs.** `ListsAreQueues` (`IsQueue`) and `EachCalledOnce`
(`CalledOnce`) rest on one invariant: as long as nobody raced there is a sequence
`q` that the pointers hold (`Holds`). `Links` says that the `next` pointers link
`q`; since the recursion that follows them has one solution, `Chain` is `q`
(`ChainIs`). The operations under way are described by what they owe: one that links
an entry (`Adding`) has made exactly the stores it no longer owes (`Half`), in
any order on a weak machine, last the store that links on the others; one that unlinks
(`Deleting`) has its last k stores left. Each uses pointers no other one uses
(`Disjoint`), and the ends of the list that nobody uses are closed (`Closed`), which is
what a new operation relies on. The store to `next` of the last entry, or of the
head, is then the step `Wait` or `Take` of `GuruQueue`, every other store a
stutter. On one processor `OneAtATime` excludes the race. `Walk` relates the walk
to `q`: the handlers behind it, how often it called, and that the wanted one is
behind it or reachable.

Where an argument is by induction - over the length of the chain - it goes
by counting a finite set (`BoundedInduction`), with the library's facts about
cardinality.

Model-checked only:

- `QueueWakes`, `KeepsReceiving` and `ReadReturns` are liveness under fairness,
  which needs `ENABLED`. Both are out of the prover's reach.

The modules declare no RECURSIVE operator, which would cost the proofs their SMT
backend.

<a name="assumptions"></a>
## 6. Assumptions

- Completions of the RX URBs are handled one after the other in a softirq, in
  the order the URBs were submitted.
- The primitives of the list are atomic in `CanguruNet`; `GuruLists` shows that
  they are on one processor, and on several as long as no two of them touch the
  same pointer. The stores of a primitive are in the order of the kernel source
  as far as the same processor sees them.
- `linguru_start_xmit`, `linguru_send_callback` and the reply list of
  `linguru-msg-net.c` are line by line those of CAN but for the conversion of the
  frame: `CanguruNet` is their model too.
- `can_changelink` handles one attribute after the other and stops at the first
  error; only the termination can be set while the interface is up; FD comes in
  one message with both bit rates, and turning it off clears the data bit rate.
  `open_candev` wants a bit rate, with FD a data bit rate that is not lower.
- A command is executed or lost in the step that sends it: nothing in the
  configuration waits for the device, which takes commands in order.
- The bus carries the header of a message unchanged, and a LIN adapter sends at
  most 8 bytes.
- A cdev lives as long as a file refers to it, its inode keeps it until then, and
  an open file keeps the module loaded.
- The device answers sends and requests in order. It ends no transfer early
  with status 0: the handler goes by `transfer_buffer_length`, not by
  `actual_length`.
- The network stack has seen the last `start_xmit` return before `ndo_stop`.
- BQL never stops the queue by itself (`STACK_XOFF`): one frame is in flight.
- `dql_completed` is a BUG_ON when more completes than was queued.
- `unregister_candev` takes an interface down; `device_create` fails for a name
  in use; `cdev_del` removes the first entry of its number.
- Losing a transfer covers everything USB may do to it: neither completion
  handler repeats one.

<a name="findings"></a>
## 7. Findings

A comment in `canguru-net.c` promises what the code does not do.

- `urb_close_doc`: `canguru_ops_close` is said to free the URB resources when the last
  channel is closed (lines 300-302). It frees nothing, and the buffer of every
  completed send stays allocated: `canguru_write_bulk_callback` frees it only
  for a killed URB.

The conditions in `KernelEnd`, `Lifetime`, `UnsetOnlySo`, `FailedLeaves`,
`QueueWakes`, `MapSound`, `OpenReachesPresent`, `OutIsClean`, `Configured` and
`IsQueue` are reachable in the model. They are stated as exceptions of the
properties, since no document of the repository says otherwise, and are the
reading list for a maintainer.

<a name="plan"></a>
## 8. What is not modelled, and the plan

Not modelled, since nothing in the driver depends on them: log messages, `read`
and `ioctl` of the boot device (they change no state), the firmware version
answer, the metadata in `guru_drv.mod.c`. Not modelled, since the repository does
not say what would be right: the tq numbers computed from `brp + 1`, the contents
of the adapter's answers. Memory is modelled where its life is the question (send
buffers, the device structure), not as something that can run out: skbs dropped
without being freed in the error path of `start_xmit`, the candev that a failed
`net_create` leaves, and the unchecked `alloc_can_skb` are listed as hazards.

The driver's components are covered, and every safety property, action property
and refinement of the runs is proved. Liveness stays with TLC. A change of the
driver starts at the row of PROJECT.json's "map" that names its lines: change the
definition, run TLC, then the proofs.
