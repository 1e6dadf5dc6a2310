---------------------------- MODULE AuthPlugins ----------------------------
(***************************************************************************)
(* The authentication plugins of lib/cmd/handshake: what each one says     *)
(* when the server asks for it (start) and when the server goes on talking *)
(* (response), and which packets a server may send in return.              *)
(*                                                                         *)
(* What is said is reduced to its form: "hash", a proof computed with a    *)
(* seed of the server; "clear", the password itself; "rsa", the password   *)
(* encrypted with a public key; "key?", a request for that key; "empty", a *)
(* packet without content; "blank", the end of a string alone; "literal",  *)
(* a constant; "nothing", no packet at all.                                *)
(***************************************************************************)
EXTENDS Sequences

Plugins == {"mysql_native_password", "mysql_clear_password", "client_ed25519", "parsec",
            "dialog", "sha256_password", "caching_sha2_password"}

(***************************************************************************)
(* The options of a connection that matter here: ssl is "none", "trust"    *)
(* (rejectUnauthorized: false), "verify" (true or an object) or "ca", with *)
(* the certificates to verify with; via is "tcp", "pipe" (a local socket)  *)
(* or "stream"; key says where the public key of the server comes from;    *)
(* allowed is restrictedAuth, every name when it is not set.               *)
(***************************************************************************)
RequireValidCert(o) == o.ssl \in {"verify", "ca"}
IsSecureConnection(o) == o.ssl # "none" \/ o.via = "pipe"

RequireSecureClearOnly(p) == p = "mysql_clear_password"
RequireSecure(p) == p \in {"mysql_clear_password", "dialog"}
MitmProof == {"mysql_native_password", "client_ed25519", "parsec"}

\* What a plugin does with a packet: what it says, who reads the next packet, its new state.
Says(form, reads, stage) == [says |-> form, reads |-> reads, stage |-> stage, fails |-> FALSE]
Fails == [says |-> "nothing", reads |-> "none", stage |-> "", fails |-> TRUE]

Proof(o) == IF o.password THEN "hash" ELSE "empty"
ClearOrBlank(o) == IF o.password THEN "clear" ELSE "blank"

NativeStart(o) == Says(Proof(o), "result", "")
Ed25519Start(o) == Says(Proof(o), "result", "")
ClearStart(o) == Says(ClearOrBlank(o), "response", "")
PamExchange(o) == Says(ClearOrBlank(o), "response", "")

\* Parsec asks for a salt first, and signs with a key derived from the password.
ParsecStart == Says("empty", "salt", "")
SendScramble == Says("hash", "result", "")

\* Sha256PasswordAuth.exchange() in its initial state.
Sha256Start(o) ==
  IF ~o.password THEN Says("empty", "response", "initial")
  ELSE IF o.ssl # "none" THEN Says("clear", "response", "initial")
  ELSE CASE o.key = "configured" -> Says("rsa", "response", "initial")
         [] o.key = "retrieve"   -> Says("key?", "response", "asked")
         [] OTHER                -> Fails

\* The answer of CachingSha2PasswordAuth when the server wants the password after all.
CachingFull(o) ==
  IF IsSecureConnection(o) THEN
    Says(ClearOrBlank(o), "response", "FAST_AUTH_RESULT")
  ELSE CASE o.key = "configured" -> Says("rsa", "response", "FAST_AUTH_RESULT")
         [] o.key = "retrieve"   -> Says("key?", "response", "REQUEST_SERVER_KEY")
         [] OTHER                -> Fails

CachingStart(o) == Says(Proof(o), "response", "FAST_AUTH_RESULT")

Start(p, o) ==
  CASE p = "mysql_native_password" -> NativeStart(o)
    [] p = "client_ed25519"        -> Ed25519Start(o)
    [] p = "mysql_clear_password"  -> ClearStart(o)
    [] p = "dialog"                -> PamExchange(o)
    [] p = "parsec"                -> ParsecStart
    [] p = "sha256_password"       -> Sha256Start(o)
    [] p = "caching_sha2_password" -> CachingStart(o)

(***************************************************************************)
(* response() for a packet that is neither OK nor an error.  selfSigned is *)
(* for a certificate that had to be valid and is not.                      *)
(***************************************************************************)
Unheard(stage) == Says("nothing", "response", stage)
ClearResponse == Says("literal", "response", "")

Sha256Response(stage, o) ==
  IF stage = "asked" THEN Says("rsa", "response", stage) ELSE Sha256Start(o)

CachingResponse(stage, packet, o, selfSigned) ==
  CASE stage = "FAST_AUTH_RESULT" /\ packet = "full" ->
         IF IsSecureConnection(o) /\ selfSigned THEN Fails ELSE CachingFull(o)
    [] stage = "REQUEST_SERVER_KEY" -> Says("rsa", "response", "SEND_AUTH")
    [] OTHER -> Unheard(stage)

Response(p, stage, packet, o, selfSigned) ==
  CASE p = "mysql_clear_password"  -> ClearResponse
    [] p = "dialog"                -> PamExchange(o)
    [] p = "sha256_password"       -> Sha256Response(stage, o)
    [] p = "caching_sha2_password" -> CachingResponse(stage, packet, o, selfSigned)

(***************************************************************************)
(* The server: what it may send once it has read what plugin p said.  It   *)
(* may ask for another plugin (several are allowed for one user), and a    *)
(* dialog goes on as long as it has questions.                             *)
(***************************************************************************)
Verdicts == {"ok", "err", "switch"}
Packets == Verdicts \cup {"greeting", "salt", "key", "fast", "full", "question"}
ServerMaySend(p, said) ==
  CASE p = "parsec" /\ said = "empty" -> {"salt", "err"}
    [] p \in {"sha256_password", "caching_sha2_password"} /\ said = "key?" -> {"key", "err"}
    [] p = "caching_sha2_password" /\ said \in {"hash", "empty"} -> {"fast", "full", "err"}
    [] p = "caching_sha2_password" /\ said = "nothing" -> {"ok", "err"}
    [] p = "dialog" -> Verdicts \cup {"question"}
    [] OTHER -> Verdicts

=============================================================================
