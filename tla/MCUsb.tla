------------------------------- MODULE MCUsb -------------------------------
(* The two roles of the USB controller, host and device.  It has one at a    *)
(* time: a behaviour is one of one of them, and the other stays as it is.    *)
EXTENDS UsbHost, UsbDevice

\* Of a descriptor of two packets, a full and a short packet, or all of it,
\* which is too much; of the EEPROM, one full packet, or too much.
MCAsk == {<<"address">>, <<"configure">>, <<"unconfigure">>, <<"missing">>,
          <<"get", 4, 3>>, <<"get", 4, 4>>, <<"read", 2>>, <<"read", 4>>,
          <<"reset">>, <<"dtr", TRUE>>, <<"dtr", FALSE>>}

VARIABLE part
bothVars == <<usbVars, usbdVars, part>>

BothInit == UsbInit /\ DeviceInit /\ part \in {"host", "device"}

\* Bounds of the device's part: not all of starts, resets and opens are two,
\* and a host that has configured the device is done with its descriptors.
Within ==
  /\ starts + resets + opens <= 5
  /\ host.configured /\ host.ask # <<>> => Head(host.ask) \notin {"get", "missing"}

BothNext ==
  /\ UNCHANGED part
  /\ \/ part = "host" /\ HostNext /\ UNCHANGED usbdVars
     \/ part = "device" /\ DeviceNext /\ Within' /\ UNCHANGED usbVars

BothSpec == BothInit /\ [][BothNext]_bothVars
=============================================================================
