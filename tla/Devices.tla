------------------------------ MODULE Devices ------------------------------
(***************************************************************************)
(* The device table of the Cremona kernel module: device_store.c and the   *)
(* handlers of cremona/device.c, with the life of the agent processes that *)
(* call them (daemon/internal/driver/device.go, the tools' main.go).       *)
(*                                                                         *)
(* hpc[p] is where p's request stands inside the kernel: each step between *)
(* two of its values is one call of device_store.c, so the handlers of     *)
(* different agents interleave as the code lets them.                      *)
(***************************************************************************)
EXTENDS Netlink

CONSTANTS
    Names,   \* device names, i.e. users
    NameOf   \* NameOf[p]: the name the agent p registers

ASSUME NamesAssumption == NameOf \in [Agents -> Names]

VARIABLES
    dev,    \* store->devices: device id -> device_store_t, or NULL
    proc,   \* proc[p]: life of the agent process p
    known,  \* known[p]: Device.Id of the agent, NULL before it has one
    hpc,    \* hpc[p]: place of p's request in the kernel
    hid     \* hid[p]: device_id of that request

devVars == <<dev, proc, known, hpc, hid>>
deviceVars == <<netVars, devVars>>

(* device_store_t; sem is the holder of a write lock that is kept between  *)
(* two steps: the other critical sections are inside one step.             *)
Device ==
    [pid : Agents, name : Names, ready : BOOLEAN, attached : BOOLEAN,
     sem : Agents \cup {NULL}]

ASSUME NoDeviceAssumption == NULL \notin Device

(* Faulty: is_ready is what kmalloc left there. *)
NewDeviceUninitialised(p) ==
    [pid |-> p, name |-> NameOf[p], ready |-> NULL, attached |-> FALSE, sem |-> NULL]

NewDevice(p) ==
    [pid |-> p, name |-> NameOf[p], ready |-> FALSE, attached |-> FALSE, sem |-> NULL]

ProcStates == {"off", "connected", "creating", "up", "stopped", "destroying",
               "done", "exited"}
HandlerSteps == {"idle", "attach", "reply", "ready", "detach", "mark", "toots"}

Registered(d)  == dev[d] # NULL
Ready(d)       == Registered(d) /\ dev[d].ready
SemFree(d)     == dev[d].sem = NULL

(* Faulty: the flag is not written. *)
SetReadyLost(d, b) == SemFree(d) /\ UNCHANGED dev

(* down_write, one assignment, up_write. *)
SetReady(d, b) == SemFree(d) /\ dev' = [dev EXCEPT ![d].ready = b]

Goto(p, step) == hpc' = [hpc EXCEPT ![p] = step]
ProcTo(p, s)  == proc' = [proc EXCEPT ![p] = s]

-----------------------------------------------------------------------------
(* The agent process. *)

(* NewConnection, Connect. *)
AgentStart(p) ==
    /\ proc[p] = "off"
    /\ ProcTo(p, "connected")
    /\ OpenSocket(p)
    /\ UNCHANGED <<dev, known, hpc, hid>>

(* NewDevice: the answer to CREATE_DEVICE is the first message. *)
AgentCreated(p) ==
    /\ proc[p] = "creating" /\ hpc[p] = "idle"
    /\ HeadIs(p, {"CREATE_DEVICE_RESULT"})
    /\ Pop(p)
    /\ known' = [known EXCEPT ![p] = Head(inbox[p]).dev]
    /\ ProcTo(p, "up")
    /\ UNCHANGED <<dev, hpc, hid>>

(* NewDevice, DestroyDevice: another message first is an error on which    *)
(* the program disconnects and ends.                                       *)
AgentRefused(p) ==
    /\ hpc[p] = "idle" /\ inbox[p] # << >>
    /\ \/ proc[p] = "creating" /\ ~HeadIs(p, {"CREATE_DEVICE_RESULT"})
       \/ proc[p] = "destroying" /\ ~HeadIs(p, {"DESTROY_DEVICE_RESULT"})
    /\ ProcTo(p, "exited")
    /\ CloseSocket(p)
    /\ UNCHANGED <<dev, known, hpc, hid>>

(* GetDeviceHealth of the tools reads the answer it waits for; the message *)
(* loop of the daemon has no case for it, nor for NLMSG_ERROR, and ends,   *)
(* while StartAgent goes on waiting for its signal.                        *)
AgentReads(p) ==
    /\ proc[p] \in {"up", "done"} /\ hpc[p] = "idle"
    /\ HeadIs(p, {"GET_HEALTH_RESULT", "NLMSG_ERROR"})
    /\ Pop(p)
    /\ UNCHANGED proc \/ (proc[p] = "up" /\ ProcTo(p, "stopped"))
    /\ UNCHANGED <<dev, known, hpc, hid>>

(* DestroyDevice: its answer is the first message. *)
AgentDestroyed(p) ==
    /\ proc[p] = "destroying" /\ hpc[p] = "idle"
    /\ HeadIs(p, {"DESTROY_DEVICE_RESULT"})
    /\ Pop(p)
    /\ ProcTo(p, "done")
    /\ UNCHANGED <<dev, known, hpc, hid>>

(* The program ends, or is killed.  A process inside the kernel first      *)
(* leaves it.  Nothing in the module notices the end of a process.         *)
AgentExit(p) ==
    /\ hpc[p] = "idle"
    /\ \/ proc[p] = "done"
       \/ "crash" \in Faults /\ proc[p] \notin {"off", "done", "exited"}
    /\ ProcTo(p, "exited")
    /\ CloseSocket(p)
    /\ UNCHANGED <<dev, known, hpc, hid>>

-----------------------------------------------------------------------------
(* CREATE_DEVICE. *)

(* Faulty: the id is taken without looking whether it is free. *)
IsNextDeviceIdUsed(d) == d = MinorMin

(* idr_alloc_u32: the lowest free id, up to miner_max inclusive. *)
IsNextDeviceId(d) ==
    d \in DeviceIds /\ ~Registered(d) /\ \A j \in DeviceIds : j < d => Registered(j)

(* create_device calls add_device: memory and an id are there. *)
AddDevice(p) ==
    /\ proc[p] = "connected"
    /\ \E d \in DeviceIds :
         /\ IsNextDeviceId(d)
         /\ dev' = [dev EXCEPT ![d] = NewDevice(p)]
         /\ hid' = [hid EXCEPT ![p] = d]
    /\ ProcTo(p, "creating")
    /\ Goto(p, "attach")
    /\ UNCHANGED <<netVars, known>>

(* add_device returns false: no id or no memory. *)
AddDeviceFails(p) ==
    /\ proc[p] = "connected"
    /\ (\E d \in DeviceIds : IsNextDeviceId(d)) => "nomem" \in Faults
    /\ ProcTo(p, "creating")
    /\ Nack(p)
    /\ UNCHANGED <<dev, known, hpc, hid>>

(* cdev_device_add refuses a device whose name is taken. *)
NameTaken(d) ==
    \E j \in DeviceIds : Registered(j) /\ dev[j].attached /\ dev[j].name = dev[d].name

(* Faulty: the success path keeps the write lock as well. *)
AttachDeviceClassKeepsLock(p) ==
    /\ hpc[p] = "attach"
    /\ SemFree(hid[p]) /\ ~NameTaken(hid[p])
    /\ dev' = [dev EXCEPT ![hid[p]].attached = TRUE, ![hid[p]].sem = p]
    /\ Goto(p, "reply")
    /\ UNCHANGED <<netVars, proc, known, hid>>

(* Faulty: the device is ready before the agent is answered. *)
AttachDeviceClassReady(p) ==
    /\ hpc[p] = "attach"
    /\ SemFree(hid[p]) /\ ~NameTaken(hid[p])
    /\ dev' = [dev EXCEPT ![hid[p]].attached = TRUE, ![hid[p]].ready = TRUE]
    /\ Goto(p, "reply")
    /\ UNCHANGED <<netVars, proc, known, hid>>

AttachDeviceClass(p) ==
    /\ hpc[p] = "attach"
    /\ SemFree(hid[p]) /\ ~NameTaken(hid[p])
    /\ dev' = [dev EXCEPT ![hid[p]].attached = TRUE]
    /\ Goto(p, "reply")
    /\ UNCHANGED <<netVars, proc, known, hid>>

(* The early return keeps the write lock; create_device then calls         *)
(* remove_device.                                                          *)
AttachDeviceClassFails(p) ==
    /\ hpc[p] = "attach"
    /\ SemFree(hid[p]) /\ (NameTaken(hid[p]) \/ "noattach" \in Faults)
    /\ dev' = [dev EXCEPT ![hid[p]].sem = p]
    /\ Goto(p, "mark")
    /\ UNCHANGED <<netVars, proc, known, hid>>

(* create_device sends the id: set_device_ready is next. *)
ReplyCreated(p) ==
    /\ hpc[p] = "reply"
    /\ SendOk(p, CreateDeviceResult(hid[p]))
    /\ Goto(p, "ready")
    /\ UNCHANGED <<dev, proc, known, hid>>

(* Faulty: the failure is reported and the device forgotten about. *)
ReplyCreatedFailsKeeps(p) ==
    /\ hpc[p] = "reply"
    /\ MayFailToSend(p) /\ Nack(p)
    /\ Goto(p, "idle")
    /\ UNCHANGED <<dev, proc, known, hid>>

(* The answer cannot be sent: detach_device_class and remove_device. *)
ReplyCreatedFails(p) ==
    /\ hpc[p] = "reply"
    /\ SendFails(p)
    /\ Goto(p, "detach")
    /\ UNCHANGED <<dev, proc, known, hid>>

(* The last call of create_device, and of destroy_device. *)
SetDeviceReady(p) ==
    /\ hpc[p] = "ready"
    /\ SetReady(hid[p], TRUE)
    /\ Goto(p, "idle")
    /\ UNCHANGED <<netVars, proc, known, hid>>

-----------------------------------------------------------------------------
(* DESTROY_DEVICE. *)

StartsDestroy(p) ==
    /\ proc[p] \in {"up", "stopped"} /\ hpc[p] = "idle"
    /\ ProcTo(p, "destroying")
    /\ hid' = [hid EXCEPT ![p] = known[p]]
    /\ UNCHANGED <<dev, known>>

(* destroy_device answers first; when that works it sets the device ready. *)
DestroyDevice(p) ==
    /\ StartsDestroy(p)
    /\ SendOk(p, DestroyDeviceResult(known[p]))
    /\ Goto(p, "ready")

(* Only a failed answer makes destroy_device detach and remove. *)
DestroyDeviceFails(p) ==
    /\ StartsDestroy(p)
    /\ SendFails(p)
    /\ Goto(p, "detach")

-----------------------------------------------------------------------------
(* detach_device_class and remove_device, from either handler. *)

DetachDeviceClass(p) ==
    /\ hpc[p] = "detach"
    /\ SemFree(hid[p])
    /\ dev' = [dev EXCEPT ![hid[p]].attached = FALSE]
    /\ Goto(p, "mark")
    /\ UNCHANGED <<netVars, proc, known, hid>>

(* remove_device: is_ready = false under the semaphore. *)
MarkUnready(p) ==
    /\ hpc[p] = "mark"
    /\ SetReady(hid[p], FALSE)
    /\ Goto(p, "toots")
    /\ UNCHANGED <<netVars, proc, known, hid>>

(* remove_device, after its loop over the device's toots (module Toots):   *)
(* the id is free again, and the handler returns false.                    *)
ForgetDevice(p) ==
    /\ hpc[p] = "toots"
    /\ dev' = [dev EXCEPT ![hid[p]] = NULL]
    /\ Goto(p, "idle")
    /\ Nack(p)
    /\ UNCHANGED <<proc, known, hid>>

-----------------------------------------------------------------------------
(* GET_HEALTH. *)

(* Faulty: the pids are compared the wrong way round. *)
HealthyOther(p, d) == Ready(d) /\ dev[d].pid # p

Healthy(p, d) == Ready(d) /\ dev[d].pid = p

(* Asked by the daemon's timer or by a tool, one question at a time. *)
GetHealth(p) ==
    /\ proc[p] \in {"up", "done"} /\ hpc[p] = "idle"
    /\ \A m \in Pending(p) : m.type # "GET_HEALTH_RESULT"
    /\ \/ SendOk(p, GetHealthResult(known[p], Healthy(p, known[p])))
       \/ MayFailToSend(p) /\ Nack(p)
    /\ UNCHANGED devVars

-----------------------------------------------------------------------------
DevInit ==
    /\ NetInit
    /\ dev = [d \in DeviceIds |-> NULL]
    /\ proc = [p \in Agents |-> "off"]
    /\ known = [p \in Agents |-> NULL]
    /\ hpc = [p \in Agents |-> "idle"]
    /\ hid = [p \in Agents |-> NULL]

(* The steps inside the kernel, which go on by themselves: those of        *)
(* remove_device, and the others.                                          *)
RemoveStep(p) == MarkUnready(p) \/ ForgetDevice(p)

StoreStep(p) ==
    \/ AttachDeviceClass(p) \/ AttachDeviceClassFails(p)
    \/ ReplyCreated(p) \/ ReplyCreatedFails(p)
    \/ SetDeviceReady(p)
    \/ DetachDeviceClass(p)

KernelStep(p) == StoreStep(p) \/ RemoveStep(p)

(* The calls an agent makes, and what it does with the answers. *)
AgentStep(p) ==
    \/ AgentStart(p) \/ AgentCreated(p) \/ AgentRefused(p)
    \/ AgentReads(p) \/ AgentDestroyed(p) \/ AgentExit(p)
    \/ AddDevice(p) \/ AddDeviceFails(p)
    \/ DestroyDevice(p) \/ DestroyDeviceFails(p)
    \/ GetHealth(p)

DevNext == \E p \in Agents : KernelStep(p) \/ AgentStep(p)

DevSpec == DevInit /\ [][DevNext]_deviceVars

(* A system call runs until it returns: the kernel schedules its thread.   *)
DevFairSpec == DevSpec /\ \A p \in Agents : WF_deviceVars(KernelStep(p))

-----------------------------------------------------------------------------
(* Every variable has its type; the device table holds devices under their *)
(* own ids and no socket holds more than its buffer (store_internal.h,     *)
(* net_link_comm.c).                                                       *)
DevTypeOK ==
    /\ NetTypeOK
    /\ dev \in [DeviceIds -> Device \cup {NULL}]
    /\ proc \in [Agents -> ProcStates]
    /\ known \in [Agents -> DeviceIds \cup {NULL}]
    /\ hpc \in [Agents -> HandlerSteps]
    /\ hid \in [Agents -> DeviceIds \cup {NULL}]

(* An agent that was told its device id, and has not begun to destroy it,  *)
(* has a device that is its own, visible in /dev and ready: create_device  *)
(* answers before set_device_ready, and ids are given out again, yet no    *)
(* order of handlers lets the agent see the device in another state.       *)
UpIsServed ==
    \A p \in Agents : proc[p] \in {"up", "stopped"} =>
        /\ Ready(known[p])
        /\ dev[known[p]].pid = p
        /\ dev[known[p]].attached

(* A handler inside the kernel works on a device that is registered and    *)
(* belongs to the agent that called: idr_find never fails in it and no two *)
(* handlers work on one device.                                            *)
HandlerOwnsDevice ==
    \A p \in Agents : hpc[p] # "idle" => Registered(hid[p]) /\ dev[hid[p]].pid = p

(* The write lock that a failed attach_device_class keeps is on a device   *)
(* no file and no health check can reach, so that only the handler that    *)
(* lost it waits for it.                                                   *)
LockedIsUnreachable ==
    \A d \in DeviceIds : Registered(d) /\ ~SemFree(d) =>
        /\ ~dev[d].ready /\ ~dev[d].attached
        /\ hpc[dev[d].sem] = "mark" /\ hid[dev[d].sem] = d
        /\ \A p \in Agents : known[p] = d => proc[p] \notin {"up", "stopped", "done"}

(* A health answer "false" never waits for an agent whose device it is: an *)
(* agent is not told that its device failed while the device is served.    *)
NoFalseAlarm ==
    \A p \in Agents : proc[p] \in {"up", "stopped"} =>
        \A m \in Pending(p) : m.type = "GET_HEALTH_RESULT" => m.status

(* When CREATE_DEVICE or DESTROY_DEVICE returned without queueing its      *)
(* result, the kernel keeps nothing of the agent: every failing path of    *)
(* the two handlers that returns has freed the id, the name and the node,  *)
(* whether or not the NLMSG_ERROR could be delivered.                      *)
Answered(p, type) == \E m \in Pending(p) : m.type = type

FailureLeavesNothing ==
    \A p \in Agents :
        /\ hpc[p] = "idle"
        /\ \/ proc[p] = "creating" /\ ~Answered(p, "CREATE_DEVICE_RESULT")
           \/ proc[p] = "destroying" /\ ~Answered(p, "DESTROY_DEVICE_RESULT")
        => \A d \in DeviceIds : Registered(d) => dev[d].pid # p

(* An agent's handler has locked itself out: remove_device waits for the   *)
(* write lock that attach_device_class of the same handler kept.           *)
SelfLocked(p) == hpc[p] = "mark" /\ dev[hid[p]].sem = p

(* Every CREATE_DEVICE and DESTROY_DEVICE handler returns, except one that *)
(* locked itself out.                                                      *)
HandlerReturns ==
    \A p \in Agents : hpc[p] # "idle" ~> hpc[p] = "idle" \/ SelfLocked(p)

-----------------------------------------------------------------------------
(* What users see of an agent's device. *)
Attached(p) == \E d \in DeviceIds : Registered(d) /\ dev[d].pid = p /\ dev[d].attached

Openable(p) ==
    \E d \in DeviceIds : Ready(d) /\ dev[d].pid = p /\ dev[d].attached

NodeOf(p) ==
    CASE Openable(p) -> "served"
      [] Attached(p) /\ ~Openable(p) -> "shown"
      [] ~Attached(p) /\ (proc[p] \in {"off", "connected"} \/ hpc[p] = "attach") -> "none"
      [] OTHER -> "gone"

Node == INSTANCE DeviceNode WITH
    node <- [p \in Agents |-> NodeOf(p)],
    living <- {p \in Agents : proc[p] # "exited"}

(* The device table implements DeviceNode: over all interleavings of the   *)
(* handlers and all their failures a user has one node at a time, a node   *)
(* that appears can soon be opened and stays so until it disappears for    *)
(* good, and a handler is finished with it before its agent can end.       *)
KeepsNode == Node!Spec

-----------------------------------------------------------------------------
(* Three statements of the sources that the code does not keep. *)

(* main.c:9 says that MINOR_NUM is the number of minors and of devices:    *)
(* every device has a minor of the region create_store reserved, whose     *)
(* first minor is miner_min and whose length is miner_max.                 *)
MinorsReserved ==
    \A d \in DeviceIds : Registered(d) => d \in MinorMin .. MinorMin + MinorMax - 1

(* A create_device whose attach failed returns false to its caller (the    *)
(* failing test case of driver/test/create_device.cpp).                    *)
FailedCreateReturns ==
    \A p \in Agents : hpc[p] = "mark" ~> hpc[p] = "idle"

(* After a successful DESTROY_DEVICE the device is gone                    *)
(* (driver/test/destroy_device.cpp).                                       *)
DestroyedIsGone ==
    \A p \in Agents : proc[p] = "done" =>
        \A d \in DeviceIds : Registered(d) => dev[d].pid # p
=============================================================================
