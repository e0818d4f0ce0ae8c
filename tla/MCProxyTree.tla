---------------------------- MODULE MCProxyTree -----------------------------
(* Small instances of ProxyTree and ProxyCalls: values for the structured  *)
(* constants.                                                              *)
EXTENDS ProxyCalls

(* Two adapters, the name of one beginning that of the other, a device of  *)
(* each, and a service.                                                    *)
Adapter1 == <<"hci1">>
Adapter10 == <<"hci10">>
Device1 == <<"hci1", "dev">>
Device10 == <<"hci10", "dev">>
Service1 == <<"hci1", "dev", "service">>

MCObjectSeq == <<Adapter1, Device1, Service1, Adapter10, Device10>>
MCNamePrefixes == {<<"hci1", "hci10">>}
MCExtra == {Device1}
=============================================================================
