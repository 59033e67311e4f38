---------------------------- MODULE MCTorrentInit ----------------------------
(* Instances of TorrentInit for TLC.                                       *)
EXTENDS TorrentInit

CONSTANTS udp, http, wss, other, a1, a2

MCTrackerIds == {udp, http, wss, other}
MCScheme == [t \in MCTrackerIds |->
               CASE t = udp -> "udp" [] t = http -> "http"
                 [] t = wss -> "wss" [] t = other -> "other"]
MCTrackerLists == {<<>>, <<udp, http>>, <<wss, udp, other>>}
MCAddresses == {a1, a2}
MCDHTPeers == {a2}
MCLeftovers == {<<0, {}>>, <<1, {a2}>>}
=============================================================================
