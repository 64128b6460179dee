-------------------------------- MODULE Usb --------------------------------
(***************************************************************************)
(* The USB server: the devices it knows, the enumeration that compares     *)
(* them with what is plugged in and tells the hardware wallet servers, and *)
(* single transfers. Enumeration, by the server's loop or by a goroutine   *)
(* that waits for a device, and transfers exclude each other by            *)
(* operation_mutex; opening and forgetting a device do not take it.        *)
(***************************************************************************)
EXTENDS Naturals, Sequences

CONSTANTS
  Ledgers, Trezors,  \* USB ids
  Tasks,             \* goroutines of the hardware wallet servers
  Loop,              \* the loop of the USB server
  Nobody

ASSUME GoroutinesAssumption == Nobody \notin Tasks \cup {Loop} /\ Loop \notin Tasks

VARIABLES
  plugged,          \* the devices on the bus
  usb_devices,      \* what the server holds of each device
  operation_mutex,  \* who holds it
  presented,        \* what the running enumeration has found
  told,             \* "connected" and "disconnected", sent and not yet handled
  missed            \* for how long the enumerations have not found a device

usb == <<plugged, usb_devices, operation_mutex, presented, told, missed>>

Devices == Ledgers \cup Trezors

\* here: connected. just, long: not, for less or more than SHORT_DISCONNECT_PERIOD.
\* A handle is stale once its device has been unplugged.
USB_DEV == [state : {"here", "just", "long"}, handle : {"none", "good", "stale"}]
Unknown == [state |-> "none", handle |-> "none"]

UsbTypeOK ==
  /\ plugged \subseteq Devices
  /\ usb_devices \in [Devices -> USB_DEV \cup {Unknown}]
  /\ operation_mutex \in Tasks \cup {Loop, Nobody}
  /\ presented \subseteq Devices
  /\ told \in [Devices -> Seq({"connected", "disconnected", "late"})]
  /\ missed \in [Devices -> {"no", "just", "long"}]

UsbInit(there) ==
  /\ plugged = there
  /\ usb_devices = [d \in Devices |-> IF d \in there THEN [state |-> "here", handle |-> "none"]
                                                      ELSE Unknown]
  /\ operation_mutex = Nobody
  /\ presented = {}
  /\ told = [d \in Devices |-> <<>>]
  /\ missed = [d \in Devices |-> IF d \in there THEN "no" ELSE "long"]

(***************************************************************************)
(* What happens on the bus itself.                                         *)
(***************************************************************************)
Plug(d) ==
  /\ d \notin plugged
  /\ plugged' = plugged \cup {d}
  /\ UNCHANGED <<usb_devices, operation_mutex, presented, told, missed>>

Unplug(d) ==
  /\ d \in plugged
  /\ plugged' = plugged \ {d}
  /\ usb_devices' = [usb_devices EXCEPT ![d].handle = IF @ = "good" THEN "stale" ELSE @]
  /\ UNCHANGED <<operation_mutex, presented, told, missed>>

\* SHORT_DISCONNECT_PERIOD has passed since an enumeration missed d.
PeriodPasses(d) ==
  /\ "just" \in {usb_devices[d].state, missed[d]}
  /\ usb_devices' = [usb_devices EXCEPT ![d].state = IF @ = "just" THEN "long" ELSE @]
  /\ missed' = [missed EXCEPT ![d] = IF @ = "just" THEN "long" ELSE @]
  /\ UNCHANGED <<plugged, operation_mutex, presented, told>>

(***************************************************************************)
(* enumerate, in two steps: look at the bus and take in what is there;     *)
(* then deal with what is not. Between them a transfer may end and forget  *)
(* its device, and devices come and go.                                    *)
(***************************************************************************)
\* Variant: nothing is said of a device while the last message about it is not handled.
TellIdle(news, ds) ==
  [d \in Devices |-> IF d \in ds /\ told[d] = <<>> THEN <<news>> ELSE told[d]]

Tell(news, ds) == [d \in Devices |-> IF d \in ds THEN Append(told[d], news) ELSE told[d]]

EnumerateScan(p) ==
  /\ operation_mutex = Nobody
  /\ operation_mutex' = p
  /\ presented' = plugged
  /\ usb_devices' = [d \in Devices |->
       IF d \notin plugged THEN usb_devices[d]
       ELSE IF usb_devices[d] = Unknown THEN [state |-> "here", handle |-> "none"]
       ELSE [usb_devices[d] EXCEPT !.state = "here"]]
  /\ told' = Tell("connected", {d \in plugged : usb_devices[d] = Unknown})
  /\ missed' = [d \in Devices |-> IF d \in plugged THEN "no" ELSE missed[d]]
  /\ UNCHANGED plugged

NotPresented == {d \in Devices \ presented : usb_devices[d] # Unknown}

\* Variant: a Ledger is not waited for.
DroppedAtOnce == NotPresented

\* Anything but a Ledger is dropped as soon as it is missed.
Dropped == {d \in NotPresented : usb_devices[d].state = "long" \/ d \notin Ledgers}

EnumerateSweep(p) ==
  /\ operation_mutex = p
  /\ operation_mutex' = Nobody
  /\ presented' = {}
  /\ usb_devices' = [d \in Devices |->
       IF d \in Dropped THEN Unknown
       ELSE IF d \in NotPresented /\ usb_devices[d].state = "here"
            THEN [state |-> "just", handle |-> "none"]
       ELSE usb_devices[d]]
  /\ told' = Tell("disconnected", Dropped)
  /\ missed' = [d \in Devices |-> IF d \notin presented /\ missed[d] = "no" THEN "just"
                                                                          ELSE missed[d]]
  /\ UNCHANGED plugged

(***************************************************************************)
(* OpenDevice, write and read for task p. A device that is not open is     *)
(* opened first; opening and transfers may fail for other reasons.         *)
(***************************************************************************)
CanOpen(d) ==
  /\ usb_devices[d] # Unknown
  /\ usb_devices[d].handle = "none" => d \in plugged

OpenDevice(d) ==
  [usb_devices EXCEPT ![d].handle = IF @ = "none" THEN "good" ELSE @]

removeUSBDevice(d) == [usb_devices EXCEPT ![d] = Unknown]

\* The bytes are with the device.
Write(p, d) ==
  /\ operation_mutex = Nobody
  /\ CanOpen(d)
  /\ OpenDevice(d)[d].handle = "good"
  /\ usb_devices' = OpenDevice(d)
  /\ UNCHANGED <<plugged, operation_mutex, presented, told, missed>>

\* "no device": the handle is of a device that has gone, and the server forgets it.
WriteNoDevice(p, d) ==
  /\ operation_mutex = Nobody
  /\ CanOpen(d)
  /\ OpenDevice(d)[d].handle = "stale"
  /\ usb_devices' = removeUSBDevice(d)
  /\ UNCHANGED <<plugged, operation_mutex, presented, told, missed>>

BeginRead(p, d) ==
  /\ operation_mutex = Nobody
  /\ CanOpen(d)
  /\ operation_mutex' = p
  /\ usb_devices' = OpenDevice(d)
  /\ UNCHANGED <<plugged, presented, told, missed>>

EndRead(p, d) ==
  /\ operation_mutex = p
  /\ usb_devices[d].handle = "good"
  /\ operation_mutex' = Nobody
  /\ UNCHANGED <<plugged, usb_devices, presented, told, missed>>

ReadNoDevice(p, d) ==
  /\ operation_mutex = p
  /\ usb_devices[d].handle # "good"
  /\ operation_mutex' = Nobody
  /\ usb_devices' = removeUSBDevice(d)
  /\ UNCHANGED <<plugged, presented, told, missed>>

\* OnCancel: the time limit of the request ends the transfer.
CancelRead(p) ==
  /\ operation_mutex = p
  /\ operation_mutex' = Nobody
  /\ UNCHANGED <<plugged, usb_devices, presented, told, missed>>

is_connected(d) == usb_devices[d].state = "here"

(***************************************************************************)
(* A Ledger restarts when it changes application. The server says that a   *)
(* Ledger has gone only if no enumeration has found it for the whole       *)
(* period; the entry of one that comes back in time is kept.               *)
(***************************************************************************)
NoSpuriousDisconnect ==
  [][\A d \in Ledgers :
       Len(told'[d]) > Len(told[d]) /\ told'[d][Len(told'[d])] = "disconnected"
         => missed[d] = "long" /\ d \notin presented]_usb
=============================================================================
