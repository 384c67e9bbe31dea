----------------------------- MODULE NodeFormats -----------------------------
(***************************************************************************)
(* Proxy nodes and their formats: parseURI and parseVMess of               *)
(* internal/subscription/subscription.go, validate, and toURI, toLoon and  *)
(* toEgern of export.go.                                                   *)
(*                                                                         *)
(* A node is a function from all fields to texts, and None where it does   *)
(* not have the field; a link is one from the parts of a URI (or the keys  *)
(* of a vmess document), and so is what is written for Loon and Egern.     *)
(* Nested objects are flattened, booleans are "true" and "false".  Name,   *)
(* server and port, which every format has, are left out, as are values of *)
(* the wrong type, which validate refuses.                                 *)
(*                                                                         *)
(* An operator named ...Mutant is the one below it with a plausible bug.   *)
(***************************************************************************)
EXTENDS Naturals

CONSTANTS
    Types,          \* protocols to look at
    MaxExtra        \* bound: optional fields or parameters of one node or link

Protocols == {"ss", "trojan", "vmess", "vless", "http", "socks5", "hysteria2", "tuic", "anytls"}

None       == "absent"
Fail       == [k \in {"error"} |-> "error"]
Has(f, k)  == f[k] # None
Used(f)    == {k \in DOMAIN f : Has(f, k)}
Blank      == ""
Text(f, k) == IF Has(f, k) THEN f[k] ELSE Blank
Given(f, k) == Text(f, k) # Blank
Flag(f, k) == f[k] = "true"
Opt(p, v)  == IF p THEN v ELSE None
Said(v)    == Opt(v # Blank, v)
Bool(p)    == IF p THEN "true" ELSE "false"

\* ws-opts: whether there is a path, a Host header ("both"), or other headers ("other").
WsPath(n)   == IF n["ws-opts"] \in {"path", "both", "other"} THEN "/p" ELSE "/"
WsHost(n)   == IF n["ws-opts"] \in {"host", "both", "other"} THEN "h" ELSE Blank
HostOnly(n) == n["ws-opts"] # "other"
WsOf(path, host) == IF path \in {Blank, "/"} THEN (IF host = Blank THEN "none" ELSE "host")
                    ELSE (IF host = Blank THEN "path" ELSE "both")
\* reality-opts: the public key ("key"), and whether there is a short id ("both").
PublicKey(n) == Opt(Has(n, "reality-opts"), "key")
\* A bug: a short id is only looked for under another name.
ShortIdMutant(n) == None
ShortId(n)   == Opt(n["reality-opts"] = "both", "id")

-----------------------------------------------------------------------------
(* validate, and what all targets but Clash require.                         *)

TlsFields == {"tls", "servername", "sni", "skip-cert-verify"}
Transports == {"network", "ws-opts", "reality-opts", "alpn", "client-fingerprint", "udp", "tfo"} \cup TlsFields

FieldsFor(type) == {"type"} \cup
    CASE type = "ss"        -> {"cipher", "password", "udp", "tfo"}
      [] type = "anytls"    -> {"password", "packet-encoding"} \cup (Transports \ {"ws-opts"})
      [] type = "trojan"    -> {"password"} \cup Transports
      [] type = "vmess"     -> {"uuid", "cipher", "alterId", "grpc-opts"} \cup Transports
      [] type = "vless"     -> {"uuid", "flow", "packet-encoding", "grpc-opts"} \cup Transports
      [] type = "http"      -> {"username", "password", "tfo"} \cup TlsFields
      [] type = "socks5"    -> {"username", "password", "udp", "tfo"} \cup TlsFields
      [] type = "hysteria2" -> {"password", "obfs", "obfs-password", "up", "down"} \cup TlsFields
      [] type = "tuic"      -> {"uuid", "password", "alpn", "udp-relay-mode"} \cup TlsFields
Fields == {"plugin"} \cup UNION {FieldsFor(t) : t \in Protocols}

Required(type) == CASE type = "ss" -> {"cipher", "password"}
                    [] type \in {"trojan", "hysteria2", "anytls"} -> {"password"}
                    [] type \in {"vmess", "vless"} -> {"uuid"}
                    [] type = "tuic" -> {"uuid", "password"}
                    [] OTHER -> {}
Validated(n) == \A k \in Required(n["type"]) : Given(n, k)

AlwaysSecure == {"anytls", "trojan", "hysteria2", "tuic"}
Secure(n)    == Flag(n, "tls") \/ n["type"] \in AlwaysSecure
Transport(n) == IF Given(n, "network") THEN n["network"] ELSE "tcp"
ServerName(n) == IF Given(n, "servername") THEN n["servername"] ELSE Text(n, "sni")

RealityOk(n) ==
    Has(n, "reality-opts") =>
        Secure(n) /\ Transport(n) \in {"tcp", "grpc"} /\ ~Flag(n, "skip-cert-verify")

\* validateTransport.
Exportable(n) ==
    /\ Validated(n) /\ Used(n) \subseteq FieldsFor(n["type"])
    /\ Has(n, "packet-encoding") => n["packet-encoding"] \in {"none", "xudp", "packetaddr"}
    /\ Given(n, "servername") /\ Given(n, "sni") => n["servername"] = n["sni"]
    /\ Text(n, "alpn") # "bad"
    /\ n["type"] = "anytls" => Transport(n) = "tcp"
    /\ Transport(n) \in {"tcp", "ws", "grpc"}
    /\ Has(n, "ws-opts") => Transport(n) = "ws"
    /\ Has(n, "grpc-opts") => Transport(n) = "grpc"
    /\ n["type"] = "hysteria2" /\ Given(n, "obfs") => Given(n, "obfs-password")
    /\ RealityOk(n)
    /\ Given(n, "flow") => n["flow"] = "xtls-rprx-vision" /\ Transport(n) = "tcp" /\ Secure(n)
    /\ ~Secure(n) => Used(n) \cap {"sni", "servername", "skip-cert-verify", "alpn", "client-fingerprint"} = {}
    /\ n["type"] \in AlwaysSecure => n["tls"] # "false"

ObfsOk(n) == /\ Has(n, "obfs") => n["obfs"] = "salamander"
             /\ Has(n, "obfs-password") => Has(n, "obfs")

-----------------------------------------------------------------------------
(* toURI.  The user is under "user", the password after it under "secret".   *)

Streams == {"trojan", "vless", "anytls"}

Portable(n) ==
    /\ Exportable(n) /\ n["type"] # "tuic"
    /\ ~Has(n, "tfo")
    /\ Has(n, "udp") => n["type"] = "anytls" \/ (n["type"] = "vless" /\ Flag(n, "udp"))
    /\ Flag(n, "skip-cert-verify") => n["type"] \in {"hysteria2", "anytls"}
    /\ n["type"] = "vmess" =>
        /\ ~Has(n, "reality-opts") /\ ~Has(n, "client-fingerprint") /\ HostOnly(n)
        /\ Transport(n) = "grpc" => Has(n, "grpc-opts")
    /\ n["type"] \in {"http", "socks5"} => ServerName(n) = Blank /\ ~Has(n, "skip-cert-verify")
    /\ n["type"] = "socks5" => ~Secure(n)
    /\ n["type"] \in Streams =>
        /\ HostOnly(n)
        /\ Transport(n) = "grpc" => n["type"] # "trojan" /\ Has(n, "grpc-opts")
    /\ n["type"] = "hysteria2" => ~Has(n, "up") /\ ~Has(n, "down") /\ ObfsOk(n)

KeysOf(scheme) ==
    CASE scheme = "vless"  -> {"sni", "security", "type", "path", "host", "serviceName", "flow", "pbk", "sid",
                               "fp", "encryption", "alpn", "packetEncoding"}
      [] scheme = "trojan" -> {"sni", "security", "type", "path", "host", "pbk", "sid", "fp", "alpn"}
      [] scheme = "anytls" -> {"sni", "security", "type", "insecure", "udp", "packetEncoding", "packet_encoding",
                               "xudp", "alpn", "fp"}
      [] scheme = "hysteria2" -> {"sni", "insecure", "obfs", "obfs-password"}
      [] scheme = "vmess"  -> {"v", "id", "aid", "scy", "net", "type", "host", "path", "tls", "sni", "alpn", "fp"}
      [] OTHER -> {}
Keys == {"scheme", "user", "secret", "plugin"} \cup UNION {KeysOf(s) : s \in Protocols}

VMessLink(n) ==
    [k \in Keys |->
        CASE k = "scheme" -> "vmess"
          [] k = "id"     -> n["uuid"]
          [] k = "v"      -> "2"
          [] k = "type"   -> "none"
          [] k = "aid"    -> IF Has(n, "alterId") THEN n["alterId"] ELSE "0"
          [] k = "scy"    -> IF Given(n, "cipher") THEN n["cipher"] ELSE "auto"
          [] k = "net"    -> Transport(n)
          [] k = "tls"    -> IF Secure(n) THEN "tls" ELSE Blank
          [] k = "sni"    -> Said(ServerName(n))
          [] k = "alpn"   -> Said(Text(n, "alpn"))
          [] k = "path"   -> IF Transport(n) = "ws" THEN WsPath(n)
                             ELSE Opt(Transport(n) = "grpc", Text(n, "grpc-opts"))
          [] k = "host"   -> Opt(Transport(n) = "ws", WsHost(n))
          [] OTHER        -> None]

\* A proxy that need not ask for a name and a password.
Login(n) == n["type"] \in {"http", "socks5"} /\ (Has(n, "username") \/ Has(n, "password"))
User(n) == CASE n["type"] = "ss"    -> n["cipher"]
             [] n["type"] = "vless" -> n["uuid"]
             [] n["type"] \in AlwaysSecure -> n["password"]
             [] OTHER -> Opt(Login(n), Text(n, "username"))
Secret(n) == IF n["type"] = "ss" THEN n["password"] ELSE Opt(Login(n), Text(n, "password"))

Link(n) ==
    LET stream == n["type"] \in Streams IN
    [k \in Keys |->
        CASE k = "scheme"      -> IF n["type"] = "http" /\ Secure(n) THEN "https" ELSE n["type"]
          [] k = "user"        -> User(n)
          [] k = "secret"      -> Secret(n)
          [] k = "encryption"  -> Opt(n["type"] = "vless", "none")
          [] k = "packetEncoding" -> Said(Text(n, "packet-encoding"))
          [] k = "udp"         -> Opt(n["type"] = "anytls", n["udp"])
          [] k = "insecure"    -> IF n["type"] = "anytls" THEN n["skip-cert-verify"]
                                  ELSE Opt(n["type"] = "hysteria2" /\ Flag(n, "skip-cert-verify"), "true")
          [] k = "security"    -> Opt(stream /\ Secure(n), IF Has(n, "reality-opts") THEN "reality" ELSE "tls")
          [] k = "flow"        -> n["flow"]
          [] k = "fp"          -> Said(Text(n, "client-fingerprint"))
          [] k = "type"        -> Opt(stream /\ Transport(n) # "tcp", Transport(n))
          [] k = "path"        -> Opt(stream /\ Transport(n) = "ws", WsPath(n))
          [] k = "host"        -> Opt(stream /\ Transport(n) = "ws", Said(WsHost(n)))
          [] k = "serviceName" -> Opt(stream /\ Transport(n) = "grpc", Text(n, "grpc-opts"))
          [] k = "pbk"         -> PublicKey(n)
          [] k = "sid"         -> ShortId(n)
          [] k = "sni"         -> Said(ServerName(n))
          [] k = "alpn"        -> Said(Text(n, "alpn"))
          [] k \in {"obfs", "obfs-password"} -> n[k]
          [] OTHER             -> None]

ToURI(n) == IF ~Portable(n) THEN Fail ELSE IF n["type"] = "vmess" THEN VMessLink(n) ELSE Link(n)

-----------------------------------------------------------------------------
(* toLoon and toEgern.                                                       *)

LoonCipher(c) == IF c = Blank THEN "auto" ELSE IF c = "chacha20-poly1305" THEN "chacha20-ietf-poly1305" ELSE c
LoonOk(n) ==
    /\ Exportable(n) /\ n["type"] # "tuic" /\ Transport(n) # "grpc"
    /\ n["type"] = "ss" => n["cipher"] \in {"aes-128-gcm", "aes-256-gcm", "chacha20-ietf-poly1305"}
    /\ n["type"] = "vmess" =>
        LoonCipher(Text(n, "cipher")) \in {"none", "auto", "aes-128-cfb", "aes-128-gcm", "chacha20-ietf-poly1305"}
    /\ n["type"] = "hysteria2" => ~Has(n, "up") /\ ObfsOk(n)
    /\ n["type"] \in {"vmess", "vless", "trojan"} => HostOnly(n)
    /\ Given(n, "client-fingerprint") => n["client-fingerprint"] = "chrome"
    \* quoted: a quote in a password cannot be written
    /\ \A k \in {"password", "uuid", "username", "obfs-password"} : Text(n, k) # "quote"

LoonKeys == {"kind", "user", "password", "cipher", "alterId", "flow", "download-bandwidth", "alpn",
             "salamander-password", "transport", "path", "host", "over-tls", "sni", "tls-profile",
             "public-key", "short-id", "udp", "tfo", "skip-cert-verify"}

LoonLine(n) ==
    LET stream == n["type"] \in {"vmess", "vless", "trojan"} IN
    [k \in LoonKeys |->
        CASE k = "kind"     -> IF n["type"] = "http" /\ Secure(n) THEN "https" ELSE n["type"]
          [] k = "user"     -> IF Login(n) THEN Text(n, "username") ELSE Said(Text(n, "uuid"))
          [] k = "password" -> IF Login(n) THEN Text(n, "password") ELSE Said(Text(n, "password"))
          [] k = "cipher"   -> CASE n["type"] = "vmess" -> LoonCipher(Text(n, "cipher"))
                                 [] n["type"] = "ss"    -> n["cipher"]
                                 [] OTHER               -> None
          [] k = "alterId"  -> Opt(n["type"] = "vmess", IF Has(n, k) THEN n[k] ELSE "0")
          [] k \in {"flow", "alpn"}      -> Said(Text(n, k))
          [] k = "download-bandwidth"    -> Said(Text(n, "down"))
          [] k = "salamander-password"   -> n["obfs-password"]
          [] k = "transport"   -> Opt(stream, Transport(n))
          [] k = "path"        -> Opt(Transport(n) = "ws", WsPath(n))
          [] k = "host"        -> Opt(Transport(n) = "ws", Said(WsHost(n)))
          [] k = "over-tls"    -> Opt(n["type"] \in {"vmess", "vless", "socks5"} /\ Has(n, "tls"), Bool(Secure(n)))
          [] k = "sni"         -> Said(ServerName(n))
          [] k = "tls-profile" -> Opt(Has(n, "client-fingerprint"), "chrome")
          [] k = "public-key"  -> PublicKey(n)
          [] k = "short-id"    -> ShortId(n)
          [] k \in {"udp", "tfo", "skip-cert-verify"} -> n[k]]

ToLoon(n) == IF LoonOk(n) THEN LoonLine(n) ELSE Fail

EgernOk(n) ==
    /\ Exportable(n)
    /\ n["type"] = "ss" => n["cipher"] \in {"aes-128-gcm", "aes-256-gcm"}
    /\ n["type"] = "vmess" =>
        /\ Given(n, "alterId") => n["alterId"] = "0"
        /\ Given(n, "cipher") => n["cipher"] \in {"auto", "aes-128-gcm", "chacha20-poly1305", "none", "zero"}
    /\ Transport(n) = "grpc" => n["type"] \in {"vmess", "vless"} /\ Secure(n) /\ Has(n, "grpc-opts")
    /\ n["type"] = "trojan" => HostOnly(n)
    /\ n["type"] = "hysteria2" => ~Has(n, "down") /\ ObfsOk(n)
    /\ Has(n, "udp-relay-mode") => n["udp-relay-mode"] \in {"native", "quic"}

EgernKeys == {"protocol", "udp_relay", "tfo", "user_id", "flow", "username", "password", "udp-relay-mode",
              "obfs", "obfs-password", "bandwidth", "method", "security", "sni", "skip_tls_verify",
              "public_key", "short_id", "alpn", "path", "host", "more", "transport", "service_name"}

EgernProtocol(n) ==
    CASE n["type"] = "ss" -> "shadowsocks"
      [] n["type"] = "http" /\ Secure(n) -> "https"
      [] n["type"] = "socks5" /\ Secure(n) -> "socks5_tls"
      [] OTHER -> n["type"]

EgernTransport(n) ==
    Opt(n["type"] \in {"vmess", "vless"},
        CASE Transport(n) = "tcp" -> Opt(Secure(n), "tls")
          [] Transport(n) = "ws"  -> IF Secure(n) THEN "wss" ELSE "ws"
          [] OTHER                -> "grpc")

\* A bug: the path is left to its default when no host goes with it.
EgernPathMutant(n) == Opt(Transport(n) = "ws" /\ WsHost(n) # Blank, WsPath(n))
EgernPath(n) == Opt(Transport(n) = "ws", WsPath(n))

EgernProxy(n) ==
    [k \in EgernKeys |->
        CASE k = "protocol"     -> EgernProtocol(n)
          [] k = "udp_relay"    -> n["udp"]
          [] k \in {"tfo", "flow", "username", "password", "udp-relay-mode", "obfs", "obfs-password"} -> n[k]
          [] k = "user_id"      -> n["uuid"]
          [] k = "bandwidth"    -> Said(Text(n, "up"))
          [] k = "method"       -> Opt(n["type"] = "ss", n["cipher"])
          [] k = "security"     -> Opt(n["type"] = "vmess", IF Given(n, "cipher") THEN n["cipher"] ELSE "auto")
          [] k = "sni"          -> Said(ServerName(n))
          [] k = "skip_tls_verify" -> IF n["type"] = "anytls" /\ ~Has(n, "skip-cert-verify") THEN "false"
                                      ELSE n["skip-cert-verify"]
          [] k = "public_key"   -> PublicKey(n)
          [] k = "short_id"     -> ShortId(n)
          [] k = "alpn"         -> Opt(n["type"] = "tuic", n["alpn"])
          [] k = "path"         -> EgernPath(n)
          [] k = "host"         -> Opt(Transport(n) = "ws", WsHost(n))
          [] k = "more"         -> Opt(Transport(n) = "ws", Bool(~HostOnly(n)))
          [] k = "transport"    -> EgernTransport(n)
          [] k = "service_name" -> Opt(Transport(n) = "grpc", Text(n, "grpc-opts"))]

ToEgern(n) == IF EgernOk(n) THEN EgernProxy(n) ELSE Fail

-----------------------------------------------------------------------------
(* parseURI and parseVMess.                                                  *)

\* A bug: the other spelling is accepted but not read.
EncodingsMutant(q) == {Text(q, "packetEncoding")} \ {Blank}
\* The packet encodings a link asks for, by any of three names.
Encodings(q) == {Text(q, "packetEncoding"), Text(q, "packet_encoding"),
                 CASE q["xudp"] = "true" -> "xudp" [] q["xudp"] = "false" -> "none" [] OTHER -> Blank} \ {Blank}

QueryOk(q) ==
    /\ q["scheme"] \in {"ss", "trojan", "vless", "http", "https", "socks5", "hysteria2", "anytls"}
    /\ Used(q) \subseteq KeysOf(q["scheme"]) \cup {"scheme", "user", "secret"}
    /\ q["scheme"] \in AlwaysSecure => ~Has(q, "secret")
    /\ q["scheme"] = "ss" => Has(q, "secret")
    /\ \A e \in Encodings(q) : e \in {"none", "xudp", "packetaddr"} /\ \A d \in Encodings(q) : d = e
    /\ Given(q, "encryption") => q["encryption"] = "none"
    /\ Given(q, "security") => q["security"] \in {"none", "tls", "reality"}
    /\ q["security"] = "reality" => Given(q, "pbk")
    /\ q["security"] # "reality" => ~Given(q, "pbk") /\ ~Given(q, "sid")
    /\ q["type"] # "ws" => ~Given(q, "path") /\ ~Given(q, "host")
    /\ q["type"] # "grpc" => ~Given(q, "serviceName")

UdpByDefault == {"vless", "anytls"}

Tls(q) == IF Given(q, "security") THEN Bool(q["security"] # "none")
          ELSE Opt(q["scheme"] \in AlwaysSecure \cup {"https"}, "true")
\* What a link leaves open is settled for the types in UdpByDefault.
Settled(q, given, default) == IF given = Blank THEN Opt(q["scheme"] \in UdpByDefault, default) ELSE given

FromURI(q) ==
    IF ~QueryOk(q) THEN Fail
    ELSE [k \in Fields |->
        CASE k = "type"     -> IF q["scheme"] = "https" THEN "http" ELSE q["scheme"]
          [] k = "cipher"   -> Opt(q["scheme"] = "ss", Text(q, "user"))
          [] k = "uuid"     -> Opt(q["scheme"] = "vless", Text(q, "user"))
          [] k = "username" -> Opt(q["scheme"] \in {"http", "https", "socks5"}, Said(Text(q, "user")))
          [] k = "password" -> CASE q["scheme"] \in AlwaysSecure -> Text(q, "user")
                                 [] q["scheme"] = "vless"        -> None
                                 [] OTHER                        -> q["secret"]
          [] k = "tls"      -> Tls(q)
          [] k = "servername" -> Said(Text(q, "sni"))
          [] k = "client-fingerprint" -> Said(Text(q, "fp"))
          [] k \in {"flow", "obfs", "obfs-password", "alpn"} -> Said(Text(q, k))
          [] k = "packet-encoding"    -> IF Encodings(q) = {} THEN None ELSE CHOOSE e \in Encodings(q) : TRUE
          [] k = "reality-opts" -> Opt(q["security"] = "reality", IF Given(q, "sid") THEN "both" ELSE "key")
          [] k = "network"  -> Opt(Text(q, "type") # "tcp", Said(Text(q, "type")))
          [] k = "ws-opts"  -> Opt(q["type"] = "ws", WsOf(Text(q, "path"), Text(q, "host")))
          [] k = "grpc-opts" -> Opt(q["type"] = "grpc", Text(q, "serviceName"))
          [] k = "udp"      -> Settled(q, Text(q, "udp"), "true")
          [] k = "skip-cert-verify" -> Settled(q, Text(q, "insecure"), Opt(Tls(q) = "true", "false"))
          [] OTHER          -> None]

VMessOk(q) ==
    /\ Used(q) \subseteq KeysOf("vmess") \cup {"scheme"}
    /\ Has(q, "v") => q["v"] = "2"
    /\ Given(q, "type") => q["type"] = "none"
    /\ Given(q, "tls") => q["tls"] \in {"none", "tls"}
    /\ q["net"] \notin {"ws", "grpc"} => ~Given(q, "path") /\ ~Given(q, "host")

FromVMess(q) ==
    IF ~VMessOk(q) THEN Fail
    ELSE [k \in Fields |->
        CASE k = "type"       -> "vmess"
          [] k = "uuid"       -> Text(q, "id")
          [] k = "alterId"    -> q["aid"]
          [] k = "cipher"     -> q["scy"]
          [] k = "servername" -> Said(Text(q, "sni"))
          [] k = "client-fingerprint" -> Said(Text(q, "fp"))
          [] k = "alpn"       -> Said(Text(q, "alpn"))
          [] k = "tls"        -> Opt(q["tls"] = "tls", "true")
          [] k = "network"    -> Opt(Text(q, "net") # "tcp", Said(Text(q, "net")))
          [] k = "ws-opts"    -> Opt(q["net"] = "ws", WsOf(Text(q, "path"), Text(q, "host")))
          [] k = "grpc-opts"  -> Opt(q["net"] = "grpc", Text(q, "path"))
          [] OTHER            -> None]

Parse(q) ==
    LET n == IF q["scheme"] = "vmess" THEN FromVMess(q) ELSE FromURI(q) IN
    IF n = Fail \/ ~Validated(n) THEN Fail ELSE n

-----------------------------------------------------------------------------
(* The documents one may be given: a Clash node or a link, which gets its    *)
(* fields or parameters one after the other.                                 *)

VARIABLES form, doc, extra      \* "node" or "link", what it has, and how many were added

vars == <<form, doc, extra>>

Values(k) ==
    CASE k \in {"tls", "skip-cert-verify", "udp", "tfo", "insecure", "xudp"} -> {"true", "false"}
      [] k \in {"servername", "sni"} -> {"a", "b"}
      [] k = "network"         -> {"tcp", "ws", "grpc", "h2"}
      [] k = "ws-opts"         -> {"none", "path", "host", "both", "other"}
      [] k = "reality-opts"    -> {"key", "both"}
      [] k = "grpc-opts"       -> {Blank, "s"}
      [] k = "serviceName"     -> {"s"}
      [] k = "alpn"            -> {"h2", "bad"}
      [] k \in {"client-fingerprint", "fp"} -> {"chrome", "safari"}
      [] k \in {"cipher", "scy"} -> {"auto", "aes-128-gcm", "chacha20-poly1305", "odd"}
      [] k \in {"alterId", "aid"} -> {"0", "4"}
      [] k = "flow"            -> {"xtls-rprx-vision", "odd"}
      [] k \in {"packet-encoding", "packetEncoding", "packet_encoding"} -> {"xudp", "none", "odd"}
      [] k = "obfs"            -> {"salamander", "odd"}
      [] k = "udp-relay-mode"  -> {"native", "odd"}
      [] k \in {"up", "down"}  -> {"50"}
      [] k = "security"        -> {"none", "tls", "reality", "odd"}
      [] k = "encryption"      -> {"none", "odd"}
      [] k = "net"             -> {"tcp", "ws", "grpc"}
      [] k = "path"            -> {"/", "/p"}
      [] k = "pbk"             -> {"key"}
      [] k = "sid"             -> {"id"}
      [] k = "v"               -> {"1", "2"}
      [] OTHER                 -> {"p", "quote"}

\* What has another meaning in a link than in a node.
LinkValues(k) == CASE k = "tls"  -> {"none", "tls"}
                   [] k = "type" -> {"none", "tcp", "ws", "grpc"}
                   [] OTHER      -> Values(k)

\* What nodes and links of a type begin with.
Bases(type) ==
    LET base == [k \in Fields |-> IF k = "type" THEN type
                                  ELSE Opt(k \in Required(type), IF k = "cipher" THEN "aes-128-gcm" ELSE "p")] IN
    {base}
    \cup (IF type \notin {"vmess", "vless", "trojan"} THEN {}
          ELSE {[base EXCEPT !["tls"] = "true", !["network"] = "ws", !["ws-opts"] = "both"],
                [base EXCEPT !["tls"] = "true", !["network"] = "grpc", !["grpc-opts"] = "s"],
                [base EXCEPT !["tls"] = "true", !["reality-opts"] = "both"]})

LinkBases(type) ==
    LET empty == [[k \in Keys |-> None] EXCEPT !["scheme"] = type]
        user  == [empty EXCEPT !["user"] = "p"] IN
    CASE type = "vmess" -> {[empty EXCEPT !["id"] = "p"], [empty EXCEPT !["id"] = "p", !["net"] = "ws"]}
      [] type \in {"http", "socks5"} -> {empty, [user EXCEPT !["scheme"] = "https"]}
      [] type = "ss" -> {[empty EXCEPT !["user"] = "aes-128-gcm", !["secret"] = "p"]}
      [] OTHER -> {user, [user EXCEPT !["type"] = "ws"], [user EXCEPT !["security"] = "reality", !["pbk"] = "key"]}

Init ==
    /\ extra = 0
    /\ \/ form = "node" /\ doc \in UNION {Bases(t) : t \in Types}
       \/ form = "link" /\ doc \in UNION {LinkBases(t) : t \in Types}

Add(k, values) == ~Has(doc, k) /\ \E v \in values : doc' = [doc EXCEPT ![k] = v]

AddField ==
    /\ form = "node" /\ extra < MaxExtra
    /\ \E k \in FieldsFor(doc["type"]) \cup {"plugin"} : Add(k, Values(k))
    /\ extra' = extra + 1 /\ UNCHANGED form

AddParameter ==
    /\ form = "link" /\ extra < MaxExtra
    /\ \E k \in KeysOf(doc["scheme"]) \cup {"plugin"} : Add(k, LinkValues(k))
    /\ extra' = extra + 1 /\ UNCHANGED form

Next == AddField \/ AddParameter
Spec == Init /\ [][Next]_vars

-----------------------------------------------------------------------------
(* Properties.                                                               *)

Formats == {"uri", "loon", "egern"}
Export(target, n) == CASE target = "uri" -> ToURI(n) [] target = "loon" -> ToLoon(n) [] target = "egern" -> ToEgern(n)

\* Fields that are hints to one client, which other targets leave out (README.md, toEgern).
Hints(target, type) ==
    CASE target = "loon"  -> {"packet-encoding"}
      [] target = "egern" -> {"packet-encoding", "client-fingerprint"} \cup (IF type = "tuic" THEN {} ELSE {"alpn"})
      [] OTHER            -> {}

\* What a field of a node means: two spellings of one thing are the same, and defaults are
\* filled in.
Sense(target, n, k) ==
    CASE k \in {"sni", "servername"} -> ServerName(n)
      [] k = "tls"      -> Bool(Secure(n))
      [] k = "network"  -> Transport(n)
      [] k = "ws-opts"  -> IF ~HostOnly(n) THEN "other" ELSE WsOf(WsPath(n), WsHost(n))
      [] k = "udp"      -> IF target = "uri" /\ n["type"] \in UdpByDefault THEN Bool(n["udp"] # "false")
                           ELSE Bool(Flag(n, "udp"))
      [] k \in {"skip-cert-verify", "tfo"} -> Bool(Flag(n, k))
      [] k = "cipher" /\ n["type"] = "vmess" -> LoonCipher(Text(n, k))
      [] k = "alterId"  -> IF Has(n, k) THEN n[k] ELSE "0"
      [] OTHER          -> Text(n, k)
Meaning(target, n) == [k \in Fields \ Hints(target, n["type"]) |-> Sense(target, n, k)]

\* What a node is given either shows in what is exported, or makes the export fail, or
\* changes nothing: no field is dropped silently.
KeepsMeaning ==
    form = "node" => \A t \in Formats :
        Export(t, doc) = Export(t, doc') /\ Export(t, doc) # Fail => Meaning(t, doc) = Meaning(t, doc')

NothingDropped == [][KeepsMeaning]_vars

\* A link that is written is read again as the same node.  Left out is AnyTLS with Reality,
\* whose link is written but not read.
RoundTrip ==
    form = "node" /\ ~(doc["type"] = "anytls" /\ Has(doc, "reality-opts")) =>
        LET q == ToURI(doc) IN
        q # Fail => Parse(q) # Fail /\ Meaning("uri", Parse(q)) = Meaning("uri", doc)

\* What a link need not say.
Default(scheme, k) ==
    CASE k = "encryption" -> "none"
      [] k = "v"          -> "2"
      [] k = "net"        -> "tcp"
      [] k = "tls"        -> "none"
      [] k = "path"       -> "/"
      [] k = "udp"        -> "true"
      [] k = "insecure"   -> "false"
      [] k = "security"   -> IF scheme \in AlwaysSecure THEN "tls" ELSE "none"
      [] k = "type"       -> IF scheme = "vmess" THEN "none" ELSE "tcp"
      [] OTHER            -> None

\* Nothing depends on it, or another parameter says the same.
Needless(q, k) ==
    \/ q[k] = Default(q["scheme"], k)
    \/ LET names == {"packetEncoding", "packet_encoding", "xudp"}
           said(j) == CASE q[j] = "true" -> "xudp" [] q[j] = "false" -> "none" [] OTHER -> q[j] IN
       k \in names /\ \E j \in names \ {k} : said(j) = said(k)

\* A parameter of a link that is accepted shows in the node, unless it says what is true
\* without it: none is ignored, except the host of a VMess link over gRPC.
ShowsOrFails ==
    form = "link" => \A k \in Used(doc') \ Used(doc) :
        Parse(doc) = Parse(doc') /\ Parse(doc') # Fail =>
            Needless(doc', k) \/ (doc["scheme"] = "vmess" /\ doc["net"] = "grpc" /\ k = "host")

NoneIgnored == [][ShowsOrFails]_vars
=============================================================================
