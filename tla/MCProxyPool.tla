----------------------------- MODULE MCProxyPool -----------------------------
(* Three proxies, one HTTP client and two WebSocket dials.                  *)
EXTENDS ProxyPool
=============================================================================
