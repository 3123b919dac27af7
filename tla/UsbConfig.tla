----------------------------- MODULE UsbConfig -----------------------------
(***************************************************************************)
(* How UsbSyncServer.openDevice finds the two endpoints to talk to: the    *)
(* initialisation routine of the device, then the descriptors of its       *)
(* interface (src/sync-servers/usb-sync-server.ts).                        *)
(*                                                                         *)
(* A device is a record: initType from its entry in USB_DEVICE_CONFIGS;    *)
(* ports, a sequence of <<in, out>> with hotSync the index of its HotSync  *)
(* port; bulk, the <<in, out>> of its first bulk endpoints; and ext, info, *)
(* numBytes, standard: whether it answers those control requests.          *)
(***************************************************************************)
EXTENDS Naturals, Sequences

CONSTANT None

HotSyncEndpoints(d) == d.ports[d.hotSync]

\* getConnectionConfigUsingGetExtConnectionInfo.
ConfigFromExtConnectionInfo(d) == IF d.ext THEN HotSyncEndpoints(d) ELSE None

\* getConnectionConfigUsingGetConnectionInfo: one number stands for both.
ConfigFromConnectionInfo(d) ==
    IF d.info THEN <<HotSyncEndpoints(d)[1], HotSyncEndpoints(d)[1]>> ELSE None

\* Mutated form of GenericConfig: the two requests in the other order.
GenericConfigInfoFirst(d) ==
    IF ConfigFromConnectionInfo(d) # None
    THEN IF d.numBytes THEN ConfigFromConnectionInfo(d) ELSE None
    ELSE ConfigFromExtConnectionInfo(d)

\* USB_INIT_FNS[GENERIC].  A GetNumBytesAvailable that fails throws, and takes
\* the configuration with it.
GenericConfig(d) ==
    IF ConfigFromExtConnectionInfo(d) # None THEN ConfigFromExtConnectionInfo(d)
    ELSE IF d.numBytes THEN ConfigFromConnectionInfo(d)
    ELSE None

\* USB_INIT_FNS; NONE and EARLY_SONY_CLIE find nothing.
InitConfig(d) == IF d.initType = "GENERIC" THEN GenericConfig(d) ELSE None

\* openDevice, step 3, with getConnectionConfigFromUsbDeviceInfo behind it.
ConnectionConfig(d) == IF InitConfig(d) # None THEN InitConfig(d) ELSE d.bulk

\* What is wrong with a device: it leaves a request unanswered that its kind
\* should answer, or it has no endpoints at all.
Failures(d) ==
    IF \/ d.initType = "GENERIC" /\ ~d.ext /\ ~(d.info /\ d.numBytes)
       \/ ConnectionConfig(d) = None
    THEN 1 ELSE 0

\* A device as the code expects one: it has HotSync endpoints; one that answers
\* no GetExtConnectionInfo has one number for both of them; and the first bulk
\* endpoints, if any, of one that needs no request are the HotSync ones.
Regular(d) ==
    /\ HotSyncEndpoints(d) # None
    /\ d.initType = "GENERIC" /\ ~d.ext =>
          HotSyncEndpoints(d) = <<HotSyncEndpoints(d)[1], HotSyncEndpoints(d)[1]>>
    /\ d.initType # "GENERIC" => d.bulk \in {None, HotSyncEndpoints(d)}
=============================================================================
