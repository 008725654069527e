------------------------------- MODULE Toots -------------------------------
(***************************************************************************)
(* The Cremona kernel module as a whole: the file operations of a device   *)
(* (device_store.c), the actions they dispatch and the answers of the      *)
(* agents (cremona/toot.c), on the toot and element tables (toot_store.c,  *)
(* element_store.c), over the devices of module Devices.                   *)
(*                                                                         *)
(* A thread's system call and an agent's result handler advance one call   *)
(* of the stores at a time; each such call holds a spin lock for its       *)
(* writes, or only looks ids up, and is one step.  A toot has an identity  *)
(* of its own (TootObjs, the addresses kmalloc returns): a pointer to it   *)
(* outlives kfree, and kmalloc may return the address again.               *)
(***************************************************************************)
EXTENDS Devices

CONSTANTS
    Threads,   \* user threads that use /dev/crmna_*
    Files,     \* struct file: what an open(2) returns, until its release
    TootObjs   \* addresses of toot_store_t

ASSUME ThreadsAssumption == Threads \cap Agents = {} /\ NULL \notin Threads
ASSUME PoolAssumption == NULL \notin TootObjs /\ NULL \notin Files

(* element_store_t *)
ElementStates == {"READY", "SENT", "ERROR"}
Element == [toot : TootIds, state : ElementStates]

ASSUME NoElementAssumption == NULL \notin Element

VARIABLES
    toots,     \* store->toots: toot id -> address, or NULL
    toot,      \* the toot_store_t at each address; state "FREE" when none
    elements,  \* store->elements: element id -> element_store_t, or NULL
    file,      \* file[f]: stage of f, its private_data and its device
    thr,       \* thr[t]: the thread's place in its system call
    rm,        \* rm[a]: the remove_toot that a has in progress, or NULL
    ans,       \* ans[p]: the result handler of agent p in progress, or NULL
    cursor,    \* cursor[p]: next toot id of p's remove_device loop
    torn       \* a device was removed while a file of it was in use

tootVars == <<toots, toot, elements, file, thr, rm, ans, cursor, torn>>
vars == <<deviceVars, tootVars>>

TootStates == {"OPEN_RESULT_WAIT", "OPEND", "DESTROYED", "TOOT_ERROR", "FREE"}
FileStages == {"closed", "opening", "open", "closing"}
ThreadSteps ==
    {"idle", "addToot", "newToot", "openFind", "openWait", "addElement",
     "addText", "writeFind", "writeWait", "closeFind", "closeWait", "removeToot"}
Actors == Threads \cup Agents

(* toot_store_t, a struct file with its private_data, and what the calls   *)
(* in progress have in hand.                                               *)
Toot == [state : TootStates, id : TootIds \cup {NULL}, dev : DeviceIds \cup {NULL}]
File == [stage : FileStages, id : TootIds \cup {NULL}, dev : DeviceIds \cup {NULL}]
Call ==
    [step : ThreadSteps, file : Files \cup {NULL}, elem : ElementIds \cup {NULL},
     obj : TootObjs \cup {NULL}]
Removal == [id : TootIds, obj : TootObjs]
Answer ==
    [op : {"NEW_TOOT", "SEND_TOOT"}, toot : TootIds, ok : BOOLEAN, obj : TootObjs \cup {NULL}]

Live(o) == toot[o].state # "FREE"

(* get_toot_when_ready (CLOSE_RESULT_WAIT is never assigned). *)
TootReady(i) ==
    /\ i \in TootIds /\ toots[i] # NULL
    /\ toot[toots[i]].state \in {"OPEN_RESULT_WAIT", "OPEND"}
    /\ Ready(toot[toots[i]].dev)

(* check_toot_ready *)
TootOpend(i) == TootReady(i) /\ toot[toots[i]].state = "OPEND"

(* Faulty: the toot id is taken for the device id. *)
PidOfWrongId(i) == IF Registered(i) THEN dev[i].pid ELSE dev[toot[toots[i]].dev].pid

(* get_device_id_from_toot, get_device_pid_from_toot *)
DeviceOf(i) == toot[toots[i]].dev
PidOf(i)    == dev[DeviceOf(i)].pid

(* get_element_when_ready (ELEMENT_SEND_WAIT is never assigned). *)
ElementReady(e) ==
    /\ e \in ElementIds /\ elements[e] # NULL
    /\ elements[e].state = "READY"
    /\ TootOpend(elements[e].toot)

FreeToot == [state |-> "FREE", id |-> NULL, dev |-> NULL]

(* Faulty: a toot that failed is freed at once. *)
SetStateFrees(o, s) ==
    toot' = [toot EXCEPT ![o] = IF s = "TOOT_ERROR" THEN FreeToot
                                ELSE IF Live(o) THEN [@ EXCEPT !.state = s] ELSE @]

SetState(o, s) ==
    toot' = IF Live(o) THEN [toot EXCEPT ![o].state = s] ELSE toot

(* wait_event..._timeout returns at any time; what a waiter then reads     *)
(* through a pointer to freed memory is whatever is there.                 *)
MayRead(o, good) == Live(o) => good
At(t, step) == thr[t].step = step
StepTo(t, step) == thr' = [thr EXCEPT ![t].step = step]
Stage(f, s) == file' = [file EXCEPT ![f].stage = s]

IdleThread == [step |-> "idle", file |-> NULL, elem |-> NULL, obj |-> NULL]
ClosedFile == [stage |-> "closed", id |-> NULL, dev |-> NULL]

MyFile(t) == thr[t].file
MyToot(t) == file[MyFile(t)].id

(* The system call of t returns: its file is then at stage s. *)
Return(t, s) ==
    /\ thr' = [thr EXCEPT ![t] = IdleThread]
    /\ file' = [file EXCEPT ![MyFile(t)] =
                   IF s = "closed" THEN ClosedFile ELSE [@ EXCEPT !.stage = s]]

(* Faulty: the elements of a removed toot stay. *)
ElementsWithoutNone(i) == elements

ElementsWithout(i) ==
    [e \in ElementIds |->
        IF elements[e] # NULL /\ elements[e].toot = i THEN NULL ELSE elements[e]]

RemoveElement(e) == elements' = [elements EXCEPT ![e] = NULL]

-----------------------------------------------------------------------------
(* remove_toot, called by the thread or the agent a. *)

(* The toot is found, marked DESTROYED and its elements are removed. *)
StartRemove(a, i) ==
    /\ toots[i] # NULL /\ rm[a] = NULL
    /\ rm' = [rm EXCEPT ![a] = [id |-> i, obj |-> toots[i]]]
    /\ SetState(toots[i], "DESTROYED")
    /\ elements' = ElementsWithout(i)
    /\ UNCHANGED toots

(* Faulty: kfree without idr_remove. *)
FinishRemoveKeepsId(a) ==
    /\ rm[a] # NULL
    /\ toot' = [toot EXCEPT ![rm[a].obj] = FreeToot]
    /\ rm' = [rm EXCEPT ![a] = NULL]
    /\ UNCHANGED <<toots, elements>>

(* idr_remove and kfree. *)
FinishRemove(a) ==
    /\ rm[a] # NULL
    /\ toots' = [toots EXCEPT ![rm[a].id] = NULL]
    /\ toot' = [toot EXCEPT ![rm[a].obj] = FreeToot]
    /\ rm' = [rm EXCEPT ![a] = NULL]
    /\ UNCHANGED elements

RemoveToot(t) ==
    /\ At(t, "removeToot")
    /\ StartRemove(t, MyToot(t))
    /\ UNCHANGED <<deviceVars, file, thr, ans, cursor, torn>>

RemovedToot(t) ==
    /\ At(t, "removeToot")
    /\ FinishRemove(t)
    /\ Return(t, "closed")
    /\ UNCHANGED <<deviceVars, ans, cursor, torn>>

(* remove_toot finds nothing under the id. *)
NothingToRemove(t) ==
    /\ At(t, "removeToot") /\ rm[t] = NULL /\ toots[MyToot(t)] = NULL
    /\ Return(t, "closed")
    /\ UNCHANGED <<deviceVars, toots, toot, elements, rm, ans, cursor, torn>>

-----------------------------------------------------------------------------
(* open(2): toot_open, create_toot. *)

(* chrdev_open finds the device by its node; add_toot's check_device_ready. *)
OpenDevice(t, f, d) ==
    /\ At(t, "idle") /\ file[f].stage = "closed"
    /\ Ready(d) /\ dev[d].attached
    /\ file' = [file EXCEPT ![f] = [stage |-> "opening", id |-> NULL, dev |-> d]]
    /\ thr' = [thr EXCEPT ![t] = [IdleThread EXCEPT !.step = "addToot", !.file = f]]
    /\ UNCHANGED <<deviceVars, toots, toot, elements, rm, ans, cursor, torn>>

(* Faulty: the id is taken without looking whether it is free. *)
IsNextTootIdUsed(i) == i = 0

IsNextTootId(i) ==
    i \in TootIds /\ toots[i] = NULL /\ \A j \in TootIds : j < i => toots[j] # NULL

(* The rest of add_toot.  While f opens, its id is create_toot's toot_id. *)
AddToot(t) ==
    /\ At(t, "addToot")
    /\ \E i \in TootIds, o \in TootObjs :
         /\ IsNextTootId(i) /\ ~Live(o)
         /\ toots' = [toots EXCEPT ![i] = o]
         /\ toot' = [toot EXCEPT ![o] = [state |-> "OPEN_RESULT_WAIT", id |-> i,
                                         dev |-> file[MyFile(t)].dev]]
         /\ file' = [file EXCEPT ![MyFile(t)].id = i]
    /\ StepTo(t, "newToot")
    /\ UNCHANGED <<deviceVars, elements, rm, ans, cursor, torn>>

AddTootFails(t) ==
    /\ At(t, "addToot")
    /\ (\E i \in TootIds, o \in TootObjs : IsNextTootId(i) /\ ~Live(o)) => "nomem" \in Faults
    /\ Return(t, "closed")
    /\ UNCHANGED <<deviceVars, toots, toot, elements, rm, ans, cursor, torn>>

(* create_toot sends NEW_TOOT to the process of the toot's device. *)
NewToot(t) ==
    /\ At(t, "newToot") /\ TootReady(MyToot(t))
    /\ SendOk(PidOf(MyToot(t)), NewTootMsg(MyToot(t), file[MyFile(t)].dev))
    /\ StepTo(t, "openFind")
    /\ UNCHANGED <<devVars, toots, toot, elements, file, rm, ans, cursor, torn>>

NewTootFails(t) ==
    /\ At(t, "newToot")
    /\ TootReady(MyToot(t)) => MayFailToSend(PidOf(MyToot(t)))
    /\ StepTo(t, "removeToot")
    /\ UNCHANGED <<deviceVars, toots, toot, elements, file, rm, ans, cursor, torn>>

(* wait_toot_ready_or_failer finds the toot and begins to wait. *)
OpenFind(t) ==
    /\ At(t, "openFind") /\ TootReady(MyToot(t))
    /\ thr' = [thr EXCEPT ![t].step = "openWait", ![t].obj = toots[MyToot(t)]]
    /\ UNCHANGED <<deviceVars, toots, toot, elements, file, rm, ans, cursor, torn>>

OpenFindFails(t) ==
    /\ At(t, "openFind") /\ ~TootReady(MyToot(t))
    /\ StepTo(t, "removeToot")
    /\ UNCHANGED <<deviceVars, toots, toot, elements, file, rm, ans, cursor, torn>>

(* The wait is over and the toot is OPEND: set_toot_id, open(2) succeeds. *)
OpenReturns(t) ==
    /\ At(t, "openWait") /\ MayRead(thr[t].obj, toot[thr[t].obj].state = "OPEND")
    /\ Return(t, "open")
    /\ UNCHANGED <<deviceVars, toots, toot, elements, rm, ans, cursor, torn>>

(* Faulty: the wait has no timeout. *)
OpenGivesUpOnAnswer(t) ==
    /\ At(t, "openWait")
    /\ MayRead(thr[t].obj, toot[thr[t].obj].state \in {"TOOT_ERROR", "DESTROYED"})
    /\ StepTo(t, "removeToot")
    /\ UNCHANGED <<deviceVars, toots, toot, elements, file, rm, ans, cursor, torn>>

(* The agent refused, or a second passed, or a signal came, or set_toot_id *)
(* has no memory.                                                          *)
OpenGivesUp(t) ==
    /\ At(t, "openWait")
    /\ MayRead(thr[t].obj, toot[thr[t].obj].state = "OPEND" => "nomem" \in Faults)
    /\ StepTo(t, "removeToot")
    /\ UNCHANGED <<deviceVars, toots, toot, elements, file, rm, ans, cursor, torn>>

-----------------------------------------------------------------------------
(* write(2): toot_write, add_toot_element. *)

(* add_element's check_toot_ready; when it fails write(2) returns an error *)
(* and nothing changed.                                                    *)
WriteToot(t, f) ==
    /\ At(t, "idle") /\ file[f].stage = "open"
    /\ TootOpend(file[f].id)
    /\ thr' = [thr EXCEPT ![t] = [IdleThread EXCEPT !.step = "addElement", !.file = f]]
    /\ UNCHANGED <<deviceVars, toots, toot, elements, file, rm, ans, cursor, torn>>

IsNextElementId(e) ==
    e \in ElementIds /\ elements[e] = NULL /\ \A j \in ElementIds : j < e => elements[j] # NULL

(* Faulty: the state is what kmalloc left there. *)
NewElementUninitialised(i) == [toot |-> i, state |-> NULL]

NewElement(i) == [toot |-> i, state |-> "READY"]

(* The rest of add_element. *)
AddElement(t) ==
    /\ At(t, "addElement") /\ toots[MyToot(t)] # NULL
    /\ \E e \in ElementIds :
         /\ IsNextElementId(e)
         /\ elements' = [elements EXCEPT ![e] = NewElement(MyToot(t))]
         /\ thr' = [thr EXCEPT ![t].step = "addText", ![t].elem = e]
    /\ UNCHANGED <<deviceVars, toots, toot, file, rm, ans, cursor, torn>>

AddElementFails(t) ==
    /\ At(t, "addElement")
    /\ toots[MyToot(t)] # NULL /\ (\E e \in ElementIds : IsNextElementId(e)) => "nomem" \in Faults
    /\ Return(t, "open")
    /\ UNCHANGED <<deviceVars, toots, toot, elements, rm, ans, cursor, torn>>

(* add_toot_element sends ADD_TOOT_TEXT to the process of the toot's device. *)
AddText(t) ==
    /\ At(t, "addText") /\ TootReady(MyToot(t))
    /\ SendOk(PidOf(MyToot(t)), AddTextMsg(MyToot(t), DeviceOf(MyToot(t)), thr[t].elem))
    /\ StepTo(t, "writeFind")
    /\ UNCHANGED <<devVars, toots, toot, elements, file, rm, ans, cursor, torn>>

(* The text is not UTF-8 or the message is not sent: the element goes.     *)
AddTextFails(t) ==
    /\ At(t, "addText") /\ TootReady(MyToot(t))
    /\ MayFailToSend(PidOf(MyToot(t)))
    /\ RemoveElement(thr[t].elem)
    /\ Return(t, "open")
    /\ UNCHANGED <<deviceVars, toots, toot, rm, ans, cursor, torn>>

(* get_device_id_from_toot fails: write(2) fails and the element stays.    *)
AddTextNoToot(t) ==
    /\ At(t, "addText") /\ ~TootReady(MyToot(t))
    /\ Return(t, "open")
    /\ UNCHANGED <<deviceVars, toots, toot, elements, rm, ans, cursor, torn>>

(* wait_element_sent_or_failer finds the element and begins to wait. *)
WriteFind(t) ==
    /\ At(t, "writeFind") /\ ElementReady(thr[t].elem)
    /\ StepTo(t, "writeWait")
    /\ UNCHANGED <<deviceVars, toots, toot, elements, file, rm, ans, cursor, torn>>

(* It finds no waiting element, perhaps because it was answered already.   *)
WriteFindFails(t) ==
    /\ At(t, "writeFind") /\ ~ElementReady(thr[t].elem)
    /\ RemoveElement(thr[t].elem)
    /\ Return(t, "open")
    /\ UNCHANGED <<deviceVars, toots, toot, rm, ans, cursor, torn>>

MayReadElement(e, good) == elements[e] # NULL => good

WriteReturns(t) ==
    /\ At(t, "writeWait")
    /\ MayReadElement(thr[t].elem, elements[thr[t].elem].state = "SENT")
    /\ Return(t, "open")
    /\ UNCHANGED <<deviceVars, toots, toot, elements, rm, ans, cursor, torn>>

WriteGivesUp(t) ==
    /\ At(t, "writeWait")
    /\ MayReadElement(thr[t].elem, elements[thr[t].elem].state # "SENT")
    /\ RemoveElement(thr[t].elem)
    /\ Return(t, "open")
    /\ UNCHANGED <<deviceVars, toots, toot, rm, ans, cursor, torn>>

-----------------------------------------------------------------------------
(* The last close(2): toot_close, send_toot.  It comes when no write uses  *)
(* the file.                                                               *)

(* Faulty: the file is released while a write uses it. *)
StartsCloseInUse(t, f) == At(t, "idle") /\ file[f].stage = "open"

StartsClose(t, f) ==
    /\ At(t, "idle") /\ file[f].stage = "open"
    /\ \A u \in Threads : MyFile(u) # f

ClosingAt(t, f, step) ==
    /\ thr' = [thr EXCEPT ![t] = [IdleThread EXCEPT !.step = step, !.file = f]]
    /\ Stage(f, "closing")

(* send_toot looks the device up under create_toot_result.toot_id, a field *)
(* of the union that create_action_send_toot did not write: any number g.  *)
(* Its device is put into SEND_TOOT, which goes to the file's own process. *)
CloseToot(t, f) ==
    /\ StartsClose(t, f)
    /\ TootReady(file[f].id)
    /\ \E g \in TootIds :
         /\ TootReady(g)
         /\ SendOk(PidOf(file[f].id), SendTootMsg(file[f].id, DeviceOf(g)))
    /\ ClosingAt(t, f, "closeFind")
    /\ UNCHANGED <<devVars, toots, toot, elements, rm, ans, cursor, torn>>

CloseTootFails(t, f) ==
    /\ StartsClose(t, f)
    /\ \E g \in TootIds : TootReady(g)
    /\ TootReady(file[f].id) => MayFailToSend(PidOf(file[f].id))
    /\ ClosingAt(t, f, "removeToot")
    /\ UNCHANGED <<deviceVars, toots, toot, elements, rm, ans, cursor, torn>>

(* g is not the id of a toot: send_toot returns at once.  The file is gone *)
(* and its toot stays.                                                     *)
CloseTootLost(t, f) ==
    /\ StartsClose(t, f)
    /\ file' = [file EXCEPT ![f] = ClosedFile]
    /\ UNCHANGED <<deviceVars, toots, toot, elements, thr, rm, ans, cursor, torn>>

CloseFind(t) ==
    /\ At(t, "closeFind") /\ TootReady(MyToot(t))
    /\ thr' = [thr EXCEPT ![t].step = "closeWait", ![t].obj = toots[MyToot(t)]]
    /\ UNCHANGED <<deviceVars, toots, toot, elements, file, rm, ans, cursor, torn>>

CloseFindFails(t) ==
    /\ At(t, "closeFind") /\ ~TootReady(MyToot(t))
    /\ StepTo(t, "removeToot")
    /\ UNCHANGED <<deviceVars, toots, toot, elements, file, rm, ans, cursor, torn>>

(* Faulty: a close(2) that failed leaves the file as it was. *)
CloseReturnsKeeps(t) ==
    /\ At(t, "closeWait")
    /\ Return(t, "open")
    /\ UNCHANGED <<deviceVars, toots, toot, elements, rm, ans, cursor, torn>>

(* Sent, refused or timed out: send_toot removes the toot. *)
CloseReturns(t) ==
    /\ At(t, "closeWait")
    /\ StepTo(t, "removeToot")
    /\ UNCHANGED <<deviceVars, toots, toot, elements, file, rm, ans, cursor, torn>>

-----------------------------------------------------------------------------
(* The answers of an agent: processNewtoot, processAddText, processSendText *)
(* send them; create_toot_result, add_toot_element_result and               *)
(* send_toot_result handle them.                                            *)

CanAnswer(p, type) == proc[p] = "up" /\ hpc[p] = "idle" /\ ans[p] = NULL /\ HeadIs(p, {type})

(* create_toot_result accepts only the toot's own device and process.      *)
AcceptsNew(p, m) ==
    TootReady(m.toot) /\ PidOf(m.toot) = p /\ DeviceOf(m.toot) = m.dev

(* The other two refuse only another device of the same process.           *)
AcceptsOther(p, m) ==
    TootReady(m.toot) /\ ~(PidOf(m.toot) = p /\ DeviceOf(m.toot) # m.dev)

Accepts(p, m) == IF m.type = "NEW_TOOT" THEN AcceptsNew(p, m) ELSE AcceptsOther(p, m)

(* The message is taken and its answer is refused with NLMSG_ERROR. *)
PopAndNack(p) ==
    /\ inbox' = [inbox EXCEPT ![p] = Append(Tail(@), NlMsgError)]
    /\ UNCHANGED sock

AnswerToot(p, ok) ==
    /\ CanAnswer(p, "NEW_TOOT") \/ CanAnswer(p, "SEND_TOOT")
    /\ Accepts(p, Head(inbox[p]))
    /\ Pop(p)
    /\ ans' = [ans EXCEPT ![p] = [op |-> Head(inbox[p]).type, toot |-> Head(inbox[p]).toot,
                                  ok |-> ok, obj |-> NULL]]
    /\ UNCHANGED <<devVars, toots, toot, elements, file, thr, rm, cursor, torn>>

AnswerRefused(p) ==
    /\ \E type \in {"NEW_TOOT", "ADD_TOOT_TEXT", "SEND_TOOT"} : CanAnswer(p, type)
    /\ ~Accepts(p, Head(inbox[p]))
    /\ PopAndNack(p)
    /\ UNCHANGED <<devVars, tootVars>>

(* The handler returns, false after a negative answer to NEW_TOOT.         *)
AnswerDone(p) ==
    /\ ans' = [ans EXCEPT ![p] = NULL]
    /\ IF ans[p].op = "NEW_TOOT" /\ ~ans[p].ok THEN Nack(p) ELSE UNCHANGED netVars

(* set_toot_ready, set_toot_sent, set_toot_failer look the toot up again.  *)
AnswerFind(p) ==
    /\ ans[p] # NULL /\ ans[p].obj = NULL
    /\ TootReady(ans[p].toot)
    /\ ans' = [ans EXCEPT ![p].obj = toots[ans[p].toot]]
    /\ UNCHANGED <<deviceVars, toots, toot, elements, file, thr, rm, cursor, torn>>

AnswerTooLate(p) ==
    /\ ans[p] # NULL /\ ans[p].obj = NULL
    /\ ~TootReady(ans[p].toot)
    /\ AnswerDone(p)
    /\ UNCHANGED <<devVars, toots, toot, elements, file, thr, rm, cursor, torn>>

AnsweredState(a) ==
    IF ~a.ok THEN "TOOT_ERROR" ELSE IF a.op = "NEW_TOOT" THEN "OPEND" ELSE "DESTROYED"

(* The state is written through the pointer, under the toot's own lock.    *)
AnswerSet(p) ==
    /\ ans[p] # NULL /\ ans[p].obj # NULL
    /\ SetState(ans[p].obj, AnsweredState(ans[p]))
    /\ AnswerDone(p)
    /\ UNCHANGED <<devVars, toots, elements, file, thr, rm, cursor, torn>>

(* add_toot_element_result: its element_id was never assigned, so that any *)
(* element e, or none, takes the answer.  With e arbitrary the lookup and  *)
(* the write are one step.                                                 *)
AnswerText(p, ok) ==
    /\ CanAnswer(p, "ADD_TOOT_TEXT")
    /\ Accepts(p, Head(inbox[p]))
    /\ Pop(p)
    /\ \/ \E e \in ElementIds :
            /\ ElementReady(e)
            /\ elements' = [elements EXCEPT ![e].state = IF ok THEN "SENT" ELSE "ERROR"]
       \/ UNCHANGED elements
    /\ UNCHANGED <<devVars, toots, toot, file, thr, rm, ans, cursor, torn>>

-----------------------------------------------------------------------------
(* remove_device over the toots of the device: idr_for_each_entry visits   *)
(* the ids in order, cursor[p] being the next one.                         *)

InUse(d) == \E f \in Files : file[f].stage # "closed" /\ file[f].dev = d

MarkDeviceUnready(p) ==
    /\ MarkUnready(p)
    /\ torn' = (torn \/ InUse(hid[p]))
    /\ UNCHANGED <<toots, toot, elements, file, thr, rm, ans, cursor>>

IsVisited(p, i) ==
    i >= cursor[p] /\ toots[i] # NULL /\ toot[toots[i]].dev = hid[p]

RemoveDeviceToot(p) ==
    /\ hpc[p] = "toots"
    /\ \E i \in TootIds :
         /\ IsVisited(p, i) /\ \A j \in TootIds : IsVisited(p, j) => i <= j
         /\ StartRemove(p, i)
         /\ cursor' = [cursor EXCEPT ![p] = i + 1]
    /\ UNCHANGED <<deviceVars, file, thr, ans, torn>>

RemovedDeviceToot(p) ==
    /\ FinishRemove(p)
    /\ UNCHANGED <<deviceVars, file, thr, ans, cursor, torn>>

ForgetEmptyDevice(p) ==
    /\ rm[p] = NULL /\ \A i \in TootIds : ~IsVisited(p, i)
    /\ ForgetDevice(p)
    /\ cursor' = [cursor EXCEPT ![p] = 0]
    /\ UNCHANGED <<toots, toot, elements, file, thr, rm, ans, torn>>

DeviceStep(p) ==
    /\ ans[p] = NULL
    /\ StoreStep(p) \/ AgentStep(p)
    /\ UNCHANGED tootVars

-----------------------------------------------------------------------------
Init ==
    /\ DevInit
    /\ toots = [i \in TootIds |-> NULL]
    /\ toot = [o \in TootObjs |-> FreeToot]
    /\ elements = [e \in ElementIds |-> NULL]
    /\ file = [f \in Files |-> ClosedFile]
    /\ thr = [t \in Threads |-> IdleThread]
    /\ rm = [a \in Actors |-> NULL]
    /\ ans = [p \in Agents |-> NULL]
    /\ cursor = [p \in Agents |-> 0]
    /\ torn = FALSE

(* A system call that has begun goes on; every wait has its timeout.       *)
OtherCallStep(t) ==
    \/ AddTootFails(t) \/ NewToot(t) \/ NewTootFails(t)
    \/ OpenFind(t) \/ OpenFindFails(t) \/ OpenReturns(t) \/ OpenGivesUp(t)
    \/ AddElementFails(t) \/ AddTextFails(t) \/ AddTextNoToot(t)
    \/ WriteFind(t) \/ WriteFindFails(t) \/ WriteGivesUp(t)
    \/ CloseFind(t) \/ CloseFindFails(t) \/ CloseReturns(t)
    \/ RemoveToot(t) \/ RemovedToot(t) \/ NothingToRemove(t)

CallStep(t) ==
    AddToot(t) \/ AddElement(t) \/ AddText(t) \/ WriteReturns(t) \/ OtherCallStep(t)

UserStep(t) ==
    \E f \in Files :
        \/ \E d \in DeviceIds : OpenDevice(t, f, d)
        \/ WriteToot(t, f)
        \/ CloseToot(t, f) \/ CloseTootFails(t, f) \/ CloseTootLost(t, f)

HandlerStep(p) ==
    \/ AnswerFind(p) \/ AnswerTooLate(p) \/ AnswerSet(p)
    \/ MarkDeviceUnready(p) \/ RemoveDeviceToot(p) \/ RemovedDeviceToot(p)
    \/ ForgetEmptyDevice(p)

AnswerStep(p) ==
    \/ \E ok \in BOOLEAN : AnswerToot(p, ok) \/ AnswerText(p, ok)
    \/ AnswerRefused(p)

Next ==
    \/ \E t \in Threads : CallStep(t) \/ UserStep(t)
    \/ \E p \in Agents : DeviceStep(p) \/ HandlerStep(p) \/ AnswerStep(p)

Spec == Init /\ [][Next]_vars

FairSpec == Spec /\ \A t \in Threads : WF_vars(CallStep(t))

-----------------------------------------------------------------------------
(* Every variable has its type (store_internal.h). *)
TypeOK ==
    /\ DevTypeOK
    /\ toots \in [TootIds -> TootObjs \cup {NULL}]
    /\ toot \in [TootObjs -> Toot]
    /\ elements \in [ElementIds -> Element \cup {NULL}]
    /\ file \in [Files -> File]
    /\ thr \in [Threads -> Call]
    /\ rm \in [Actors -> Removal \cup {NULL}]
    /\ ans \in [Agents -> Answer \cup {NULL}]
    /\ cursor \in [Agents -> 0 .. MaxToots]
    /\ torn \in BOOLEAN

(* The toot ids that open files and running calls hold. *)
Holds(f, i) == file[f].stage # "closed" /\ file[f].id = i

(* As long as no device is removed under its files, the id in a file's     *)
(* private_data names a toot of the file's own device, and no two files    *)
(* have the same one, although ids are given out again at once and any     *)
(* call may time out, fail or be refused half way.                         *)
FileOwnsToot ==
    ~torn => \A f \in Files, i \in TootIds : Holds(f, i) =>
        /\ toots[i] # NULL /\ Live(toots[i])
        /\ toot[toots[i]].dev = file[f].dev
        /\ \A g \in Files \ {f} : ~Holds(g, i)

(* The toot table and the toots allocated are the same set: no entry of    *)
(* the table is freed memory, no toot is lost, none is under two ids.      *)
TableSound ==
    ~torn =>
        /\ \A i \in TootIds : toots[i] # NULL => Live(toots[i]) /\ toot[toots[i]].id = i
        /\ \A o \in TootObjs : Live(o) => toots[toot[o].id] = o

(* A thread that sleeps on a toot's wait queue sleeps on the toot of its   *)
(* own file, which nobody frees under it.                                  *)
SleepersSafe ==
    ~torn => \A t \in Threads :
        At(t, "openWait") \/ At(t, "closeWait") =>
            toots[MyToot(t)] = thr[t].obj /\ Live(thr[t].obj)

(* A write(2) that has its element keeps it to the end: the element is in  *)
(* the table, on the write's own toot, and is no other thread's.           *)
WriterOwnsElement ==
    ~torn => \A t \in Threads : thr[t].elem # NULL =>
        /\ elements[thr[t].elem] # NULL
        /\ elements[thr[t].elem].toot = MyToot(t)
        /\ \A u \in Threads \ {t} : thr[u].elem # thr[t].elem

(* Removing a toot takes all its elements along: no element is left under  *)
(* an id that a later toot will be given.                                  *)
ElementsHaveToot ==
    ~torn => \A e \in ElementIds : elements[e] # NULL => toots[elements[e].toot] # NULL

(* The first message an agent gets is the answer to its CREATE_DEVICE,     *)
(* which NewDevice relies on, although users may open the device before    *)
(* the agent has read it.                                                  *)
CreateAnswerFirst ==
    \A p \in Agents : proc[p] = "creating" /\ inbox[p] # << >> =>
        HeadIs(p, {"CREATE_DEVICE_RESULT", "NLMSG_ERROR"})

(* NEW_TOOT and ADD_TOOT_TEXT reach the process that owns the device they  *)
(* name, as long as no device is removed under its files: the handlers     *)
(* take the device and the process from different lookups of the toot id.  *)
RequestsToOwner ==
    ~torn => \A p \in Agents : proc[p] \in {"up", "stopped"} =>
        \A m \in Pending(p) : m.type \in {"NEW_TOOT", "ADD_TOOT_TEXT"} => m.dev = known[p]

(* open, write and close return, whatever the agents do. *)
CallsReturn == \A t \in Threads : ~At(t, "idle") ~> At(t, "idle")

-----------------------------------------------------------------------------
(* Statements of the sources that the code does not keep. *)

(* Closing a file ends its toot (driver/test/close_toot.cpp:162): a toot   *)
(* in the table belongs to a file or to a handler that removes it.         *)
ClosedIsRemoved ==
    ~torn => \A i \in TootIds : toots[i] # NULL => \E f \in Files : Holds(f, i)

(* An answer to ADD_TOOT_TEXT completes the write it answers, and no other *)
(* (driver/test/add_text.cpp:160).                                         *)
AckNamesElement ==
    [][\A e \in ElementIds :
         /\ elements[e] # NULL /\ elements'[e] # NULL
         /\ elements'[e].state # elements[e].state
         => \E p \in Agents :
              /\ HeadIs(p, {"ADD_TOOT_TEXT"}) /\ Head(inbox[p]).elem = e
              /\ inbox'[p] = Tail(inbox[p])]_vars

(* Only the process of a toot's device settles its state: the others are   *)
(* refused as "not same pid and device id" (toot.c:84, 201).               *)
OnlyOwnerSettles ==
    [][\A p \in Agents : ans[p] # NULL /\ ans'[p] = NULL =>
         \A o \in TootObjs : toot'[o].state # toot[o].state => dev[toot[o].dev].pid = p]_vars
=============================================================================
