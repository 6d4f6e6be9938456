------------------------------ MODULE MCClient ------------------------------
EXTENDS Client

Ifs(type, conn, clients) == [type |-> type, conn |-> conn, clients |-> clients]
Other   == Ifs("P3_MDM_DATA", "a0", <<"c1", "c2">>)
Camera  == Ifs("P3_DEVICE_BOTH", "a1", <<"c3">>)
Moved   == Ifs("P3_DEVICE_BOTH", "a2", <<>>)
Manager == Ifs("P3_CM", "a3", <<>>)
NoAddr  == Ifs("P3_CM", "none", <<>>)

Says(cpu, from, resp, s) == [cpu |-> cpu, from |-> from, resp |-> resp, ifs |-> s]
Ours == [cpu |-> "cpu", from |-> "none"]
Announced ==
    { Says("cpu", "ip1", TRUE, <<Other, Manager, Camera>>),
      Says("cpu", "ip2", TRUE, <<Other, Moved, NoAddr, Camera>>),
      Says("cpu", "ip1", TRUE, <<Other, Manager>>),
      Says("other", "ip3", TRUE, <<Other, Camera>>),
      Says("cpu", "ip1", FALSE, <<>>) }

F(key, val) == [key |-> key, val |-> val]
Packets4 ==
    { <<F("P3_ABI_ID_T", flow), F("DEVICE_ABI_REQUEST_T", 3), F("DEVICE_ABI_FRAME_DATA_T", 2)>> : flow \in {"JPEG", "FACE_DEV"} }
    \cup { <<F("DEVICE_ABI_REQUEST_T", 3)>>, <<F("DEVICE_ABI_FRAME_DATA_T", 1)>>,
           <<F("P3_ABI_ID_T", "FACES"), F("P3_ABI_2D_BARS_T", 0)>> }
=============================================================================
