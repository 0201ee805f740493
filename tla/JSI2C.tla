------------------------------- MODULE JSI2C --------------------------------
(***************************************************************************)
(* class JSI2C (esp32/QuickJS.h): the table of buses behind the handles    *)
(* that I2C.open returns.  The JS task reads the table to check a handle   *)
(* when a call is made; the worker task changes it when the call's entry   *)
(* is processed, some time later.  JSWorker.tla shows that entries are     *)
(* processed one at a time in the order of the calls and settled after     *)
(* that, which is all this module assumes of the worker: `waiting` is the  *)
(* line of entries, and an entry is settled some time after it has been    *)
(* processed.  (That settling a close() entry uses freed functions is the  *)
(* subject of JSWorker's CloseSettles; here it settles like the others.)   *)
(* No name here is one of JSWorker, so that a module can extend both.      *)
(***************************************************************************)
EXTENDS Naturals, Sequences, FiniteSets

CONSTANTS
  Calls,  \* calls a program may make, each at most once
  Pins    \* the (sda, scl, freq) triples a program may open a bus with

NoHandle == 0      \* e.busHandle = -1; handles are numbered from 1 here
None == "none"     \* no pins

ASSUME I2CAssumption == None \notin Pins /\ IsFiniteSet(Calls)

VARIABLES
  buses,    \* JSI2C::buses, a sequence of [pins, installed]
  driver,   \* the pins the ESP-IDF driver of I2C_NUM_0 is installed with, or None
  waiting,  \* the entries the worker has yet to process
  entry,    \* [Calls -> Entry], see EntryType
  growing   \* is the worker inside buses.push_back?

ivars == <<buses, driver, waiting, entry, growing>>

Kinds == {"open", "close", "transfer"}
Handles == 0..Cardinality(Calls)

(* An Entry: the call's arguments, the state of its promise and what the   *)
(* worker wrote.  `used` is a history variable: the pins a transfer was    *)
(* carried out on.                                                         *)
EntryType ==
  [kind : Kinds \union {None}, pins : Pins \union {None}, handle : Handles,
   status : {"none", "waiting", "ok", "error", "fulfilled", "rejected"},
   busHandle : Nat, used : Pins \union {None}]

Unused ==
  [kind |-> None, pins |-> None, handle |-> NoHandle, status |-> "none",
   busHandle |-> NoHandle, used |-> None]

I2CInit ==
  /\ buses = <<>>
  /\ driver = None
  /\ waiting = <<>>
  /\ entry = [e \in Calls |-> Unused]
  /\ growing = FALSE

-----------------------------------------------------------------------------
(* The JS task.                                                            *)

(* A new entry is created with the arguments of the call and submitted.    *)
Enqueue(e, k, p, h) ==
  /\ entry[e].status = "none"
  /\ entry' = [entry EXCEPT ![e] =
                 [kind |-> k, pins |-> p, handle |-> h, status |-> "waiting",
                  busHandle |-> NoHandle, used |-> None]]
  /\ waiting' = Append(waiting, e)
  /\ UNCHANGED <<buses, driver, growing>>

JsOpen(e, p) == Enqueue(e, "open", p, NoHandle)

(* js_close takes any number and leaves the check to the worker. *)
JsClose(e, h) == Enqueue(e, "close", None, h)

Installed(h) == h \in 1..Len(buses) /\ buses[h].installed

(* js_write, js_read and js_write_read check the handle against the table  *)
(* as it is when the call is made and throw if it is not installed.  While *)
(* the worker is growing the vector the unlocked read races with it, and   *)
(* any handle may pass or be refused.                                      *)
JsTransfer(e, h) ==
  /\ Installed(h) \/ (growing /\ h \in 1..Len(buses) + 1)
  /\ Enqueue(e, "transfer", None, h)

(* The same call, refused: it throws and nothing is queued. *)
JsTransferThrows(h) ==
  /\ ~Installed(h) \/ growing
  /\ UNCHANGED ivars

Finish(e, status) ==
  entry' = [entry EXCEPT ![e] = [entry[e] EXCEPT !.status = status]]

(* loop() settles the promise of a processed entry.                        *)
Settle(e) ==
  /\ entry[e].status \in {"ok", "error"}
  /\ Finish(e, IF entry[e].status = "ok" THEN "fulfilled" ELSE "rejected")
  /\ UNCHANGED <<buses, driver, waiting, growing>>

-----------------------------------------------------------------------------
(* The worker task: processEntry.                                          *)

(* Bug, for a mutant: the handle taken after the push. *)
FinishOpenOffByOneBug(e, h) ==
  entry' = [entry EXCEPT ![e] = [entry[e] EXCEPT !.status = "ok", !.busHandle = h + 1]]

FinishOpen(e, h) ==
  entry' = [entry EXCEPT ![e] = [entry[e] EXCEPT !.status = "ok", !.busHandle = h]]

First(S) == CHOOSE i \in S : \A j \in S : i <= j

InstalledBuses == {i \in 1..Len(buses) : buses[i].installed}

(* Bug, for a mutant: the pins are left out of the comparison.             *)
SameIgnoringPinsBug(p) == InstalledBuses

(* The buses OP_OPEN may reuse. *)
Same(p) == {i \in 1..Len(buses) : buses[i].installed /\ buses[i].pins = p}

(* OP_OPEN on a bus already installed with the same parameters. *)
OpenExisting ==
  /\ waiting # <<>> /\ ~growing
  /\ LET e == Head(waiting)
     IN /\ entry[e].kind = "open"
        /\ Same(entry[e].pins) # {}
        /\ FinishOpen(e, First(Same(entry[e].pins)))
  /\ waiting' = Tail(waiting)
  /\ UNCHANGED <<buses, driver, growing>>

(* Bug, for a mutant: the driver is installed without asking whether it is. *)
OpenInstallsAlwaysBug ==
  /\ waiting # <<>> /\ ~growing
  /\ LET e == Head(waiting)
     IN /\ entry[e].kind = "open"
        /\ Same(entry[e].pins) = {}
        /\ driver' = entry[e].pins
        /\ growing' = TRUE
        /\ UNCHANGED <<waiting, entry, buses>>

(* OP_OPEN on other parameters: i2c_driver_install succeeds only while no  *)
(* driver is installed on the port; then i2c_set_pin, and the push on the  *)
(* table, which ends in OpenPushed.  When i2c_set_pin fails the driver is  *)
(* deleted; if that fails too it stays, on any pins and in no table.       *)
OpenInstall ==
  /\ waiting # <<>> /\ ~growing
  /\ LET e == Head(waiting)
     IN /\ entry[e].kind = "open"
        /\ Same(entry[e].pins) = {}
        /\ \/ /\ driver = None
              /\ driver' = entry[e].pins
              /\ growing' = TRUE
              /\ UNCHANGED <<waiting, entry>>
           \/ /\ Finish(e, "error")
              /\ waiting' = Tail(waiting)
              /\ driver' = driver \/ (driver = None /\ driver' \in Pins)
              /\ UNCHANGED growing
  /\ UNCHANGED buses

(* Bug, for a mutant: the slot of a closed bus with the same pins is used  *)
(* again.                                                                  *)
OpenReusesSlotBug ==
  /\ growing
  /\ LET e == Head(waiting)
         old == {i \in 1..Len(buses) : buses[i].pins = entry[e].pins}
     IN IF old = {}
        THEN /\ buses' = Append(buses, [pins |-> entry[e].pins, installed |-> TRUE])
             /\ FinishOpen(e, Len(buses) + 1)
        ELSE /\ buses' = [buses EXCEPT ![First(old)] = [buses[First(old)] EXCEPT !.installed = TRUE]]
             /\ FinishOpen(e, First(old))
  /\ waiting' = Tail(waiting)
  /\ growing' = FALSE
  /\ UNCHANGED driver

OpenPushed ==
  /\ growing
  /\ LET e == Head(waiting)
     IN /\ buses' = Append(buses, [pins |-> entry[e].pins, installed |-> TRUE])
        /\ FinishOpen(e, Len(buses) + 1)
  /\ waiting' = Tail(waiting)
  /\ growing' = FALSE
  /\ UNCHANGED driver

(* Bug, for a mutant: close takes the bus out of the table. *)
CloseErasesBug ==
  /\ waiting # <<>> /\ ~growing
  /\ LET e == Head(waiting)
         h == entry[e].handle
     IN /\ entry[e].kind = "close"
        /\ IF Installed(h)
           THEN /\ buses' = SubSeq(buses, 1, h - 1) \o SubSeq(buses, h + 1, Len(buses))
                /\ driver' = None
                /\ Finish(e, "ok")
           ELSE Finish(e, "error") /\ UNCHANGED <<buses, driver>>
  /\ waiting' = Tail(waiting)
  /\ UNCHANGED growing

(* OP_CLOSE: the slot is marked free for good, whether i2c_driver_delete   *)
(* succeeds or not.                                                        *)
Close ==
  /\ waiting # <<>> /\ ~growing
  /\ LET e == Head(waiting)
         h == entry[e].handle
     IN /\ entry[e].kind = "close"
        /\ IF Installed(h)
           THEN /\ buses' = [buses EXCEPT ![h] = [buses[h] EXCEPT !.installed = FALSE]]
                /\ \/ driver' = None /\ Finish(e, "ok")
                   \/ driver' = driver /\ Finish(e, "error")
           ELSE Finish(e, "error") /\ UNCHANGED <<buses, driver>>
  /\ waiting' = Tail(waiting)
  /\ UNCHANGED growing

(* OP_WRITE, OP_READ, OP_WRITE_READ: on the first installed bus, whatever  *)
(* the handle was; the transfer itself may fail.                           *)
Transfer ==
  /\ waiting # <<>> /\ ~growing
  /\ LET e == Head(waiting)
     IN /\ entry[e].kind = "transfer"
        /\ IF InstalledBuses = {}
           THEN Finish(e, "error")
           ELSE \E status \in {"ok", "error"} :
                  entry' = [entry EXCEPT ![e] =
                              [entry[e] EXCEPT !.status = status,
                                               !.used = buses[First(InstalledBuses)].pins]]
  /\ waiting' = Tail(waiting)
  /\ UNCHANGED <<buses, driver, growing>>

-----------------------------------------------------------------------------
ProgramStep ==
  \/ \E e \in Calls :
       \/ \E p \in Pins : JsOpen(e, p)
       \/ \E h \in Handles : JsClose(e, h) \/ JsTransfer(e, h)
       \/ Settle(e)
  \/ \E h \in Handles : JsTransferThrows(h)

EntryStep == OpenExisting \/ OpenInstall \/ OpenPushed \/ Close \/ Transfer

I2CNext == ProgramStep \/ EntryStep

I2CSpec == I2CInit /\ [][I2CNext]_ivars

-----------------------------------------------------------------------------
I2CTypeOK ==
  /\ buses \in Seq([pins : Pins, installed : BOOLEAN])
  /\ driver \in Pins \union {None}
  /\ waiting \in Seq(Calls)
  /\ entry \in [Calls -> EntryType]
  /\ \A e \in Calls : entry[e].busHandle <= Len(buses)
  /\ growing \in BOOLEAN

(* There is one port: whatever a program opens and closes, at most one bus *)
(* is installed, and the driver runs on its pins.  It is what makes "the   *)
(* first installed bus" of processEntry the only one.                      *)
OneBus ==
  \A i \in InstalledBuses : driver = buses[i].pins /\ InstalledBuses = {i}

(* A handle names the same pins for ever: the table only grows, so a       *)
(* handle a program kept never comes to stand for another bus.             *)
HandlesKeepTheirPins ==
  [][\A h \in 1..Len(buses) : h <= Len(buses') /\ buses'[h].pins = buses[h].pins]_ivars

(* The handle open() resolves with stands for the pins it was given, also  *)
(* when an installed bus is reused.                                        *)
OpenGivesItsPins ==
  \A e \in Calls :
    entry[e].kind = "open" /\ entry[e].busHandle # NoHandle =>
      buses[entry[e].busHandle].pins = entry[e].pins

(* A handle whose bus was closed is never installed again: a call with it  *)
(* is refused for ever (js_write and the others throw).                    *)
ClosedStaysClosed ==
  [][\A h \in 1..Len(buses) : ~buses[h].installed => ~buses'[h].installed]_ivars

(* I2C.write(busHandle, addr, data), read and writeRead: a transfer is     *)
(* carried out on the bus its handle stands for.                           *)
TransferUsesItsBus ==
  \A e \in Calls :
    entry[e].kind = "transfer" /\ entry[e].used # None =>
      entry[e].used = buses[entry[e].handle].pins
=============================================================================
