---------------------------- MODULE MCWebServer -----------------------------
(***************************************************************************)
(* An instance of WebServer: more connections than blocks, a table of      *)
(* neighbours that needs a flush in its middle, sends of several segments. *)
(***************************************************************************)
EXTENDS WebServer

MCNbrLine == <<2, 2, 1>>
MCRouteLine == <<2, 1>>
=============================================================================
