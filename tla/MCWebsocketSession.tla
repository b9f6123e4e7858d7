------------------------ MODULE MCWebsocketSession ------------------------
(* Instances of WebsocketSession for TLC; the .cfg files give the bound.    *)
EXTENDS WebsocketSession
=============================================================================
