----------------------------- MODULE MCConnect -----------------------------
(***************************************************************************)
(* Options and servers for Connect, each chosen for the path it opens.     *)
(***************************************************************************)
EXTENDS Connect

Options(ssl, via, password, key, queries) ==
  [ssl |-> ssl, via |-> via, password |-> password, key |-> key, allowed |-> {},
   session |-> queries, compress |-> FALSE, pipelining |-> TRUE]

MCConfigs == {
  \* without TLS: over the network, to a local socket, in a stream of the client
  [Options("none", "tcp", TRUE, "retrieve", <<"variables", "timeout">>) EXCEPT !.pipelining = FALSE],
  Options("none", "tcp", TRUE, "configured", <<"timeout">>),
  Options("none", "tcp", TRUE, "none", <<>>),
  Options("none", "pipe", TRUE, "none", <<"charset", "autozone">>),
  Options("none", "stream", FALSE, "none", <<"timezone">>),
  \* with TLS: any certificate, a valid one, one of the given authority
  [Options("trust", "tcp", TRUE, "none", <<"init", "timeout">>) EXCEPT !.compress = TRUE],
  Options("verify", "tcp", TRUE, "none", <<"charset">>),
  Options("verify", "pipe", TRUE, "none", <<>>),
  Options("verify", "tcp", FALSE, "none", <<>>),
  [Options("ca", "tcp", TRUE, "none", <<"version">>) EXCEPT !.allowed = {"client_ed25519", "dialog"}] }

Server(first, mariadb, valid, named, genuine) ==
  [first |-> first, tls |-> TRUE, compress |-> mariadb, mariadb |-> mariadb, valid |-> valid,
   named |-> named, tlsNamed |-> named, genuine |-> genuine, redirects |-> FALSE]

MCServers == {
  [Server("mysql_native_password", TRUE, TRUE, TRUE, TRUE) EXCEPT !.redirects = TRUE],
  Server("client_ed25519", TRUE, FALSE, TRUE, TRUE),     \* its certificate is its own
  Server("mysql_native_password", TRUE, FALSE, FALSE, FALSE),  \* somebody between the two
  Server("mysql_clear_password", TRUE, FALSE, FALSE, FALSE),
  Server("mysql_native_password", TRUE, TRUE, FALSE, FALSE),   \* the certificate of another host
  Server("mysql_native_password", TRUE, TRUE, FALSE, TRUE),    \* the same, but the right server
  \* The certificate of the name that tls.connect goes by, but not of this host.
  [Server("mysql_native_password", TRUE, TRUE, FALSE, TRUE) EXCEPT !.tlsNamed = TRUE],
  Server("caching_sha2_password", FALSE, TRUE, TRUE, TRUE),    \* MySQL
  [Server("mysql_clear_password", TRUE, TRUE, TRUE, FALSE) EXCEPT !.tls = FALSE] }

=============================================================================
