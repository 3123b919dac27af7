---------------------------- MODULE MCSyncServer ----------------------------
EXTENDS SyncServer

UsbDevice(initType, ext, info, numBytes, ports, hotSync, bulk) ==
    [initType |-> initType, ext |-> ext, info |-> info, numBytes |-> numBytes,
     ports |-> ports, hotSync |-> hotSync, bulk |-> bulk]

\* Devices of two ports with the HotSync port second, which only the control
\* requests can tell; one of them answers both requests, one fails in the
\* middle.  Devices of one port need no request; the last one is not a device
\* to sync with at all.
TwoPorts == << <<1, 2>>, <<3, 4>> >>
SamePorts == << <<1, 1>>, <<2, 2>> >>
OnePort == << <<1, 2>> >>

Devices == {
    UsbDevice("GENERIC", TRUE, TRUE, TRUE, TwoPorts, 2, TwoPorts[1]),
    UsbDevice("GENERIC", FALSE, TRUE, TRUE, SamePorts, 2, SamePorts[1]),
    UsbDevice("GENERIC", FALSE, TRUE, FALSE, SamePorts, 2, SamePorts[1]),
    UsbDevice("EARLY_SONY_CLIE", FALSE, FALSE, FALSE, OnePort, 1, OnePort[1]),
    UsbDevice("NONE", FALSE, FALSE, FALSE, OnePort, 1, None) }

\* They are devices as the proof about endpoints takes them to be.
ASSUME DevicesAreRegular == \A d \in Devices : Regular(d)
=============================================================================
