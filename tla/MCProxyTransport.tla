-------------------------- MODULE MCProxyTransport --------------------------
(* One transport, with as many cancellations as the configuration allows. *)
EXTENDS ProxyTransport
=============================================================================
