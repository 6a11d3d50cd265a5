------------------------------ MODULE OvpnPki ------------------------------
(***************************************************************************)
(* One OpenVPN instance (src/dros/ovpn.py): its CA, the database of        *)
(* "openssl ca" (index.txt, serial), the CRL, and for every profile the    *)
(* certificate directories, the latest link and the rendered output.       *)
(* A command is a list of steps, and can be cut at each of them.  gw ovpn  *)
(* commands hold the apply lock (src/dros/cli/main.py); the handlers of    *)
(* the web API run the same functions without it (src/dros/web/app.py).    *)
(* openssl is external: "ca" reads the database, works, and writes it.     *)
(***************************************************************************)
EXTENDS Naturals, FiniteSets, Sequences

CONSTANTS
    Clients,         \* names of client profiles; there is one server profile
    Cli,             \* sessions that run gw ovpn
    Web,             \* requests served by the web API
    MaxOps,          \* bound: commands run
    MaxCerts,        \* bound: certificates signed
    MaxCuts          \* bound: commands killed, openssl failures included

Server == "server"
Profile == Clients \cup {Server}
Session == Cli \cup Web
NoCert == [id |-> 0, serial |-> 0]
Absent == {0}                                      \* no crl.pem

VARIABLES
    configured,      \* config.yaml exists
    caKey, caCert,   \* ca.key and ca.crt exist
    index,           \* index.txt: the set of [serial, revoked]
    serial,          \* the file serial
    crl,             \* serials on crl.pem
    clientCert,      \* auth.client_cert is not "none"
    profiles,        \* profiles with a profile.yaml
    certs,           \* per profile, its certificates: certs/<id>/<name>.crt
    latest,          \* per profile, what certs/latest points to
    output,          \* per profile, the certificate in server.conf or the .ovpn files
    revokedLog,      \* state/revoked.jsonl: certificate ids
    op,              \* per session: the command, its steps left, what it has read
    lockedBy,        \* the session that holds gw-apply.lock
    ops, signed, cuts

ca == <<configured, caKey, caCert>>
database == <<index, serial>>
profileVars == <<profiles, certs, latest, output>>
bounds == <<ops, signed, cuts>>
vars == <<ca, database, crl, clientCert, profileVars, revokedLog, op, lockedBy, bounds>>

NoSession == "none"
Resting == [cmd |-> "none", p |-> Server, cert |-> NoCert, todo |-> <<>>, db |-> {}, next |-> 0,
            result |-> "none"]

Init ==
    /\ configured = FALSE /\ caKey = FALSE /\ caCert = FALSE /\ index = {} /\ serial = 0 /\ crl = Absent
    /\ clientCert \in BOOLEAN
    /\ profiles = {}
    /\ certs = [p \in Profile |-> {}]
    /\ latest = [p \in Profile |-> NoCert] /\ output = [p \in Profile |-> NoCert]
    /\ revokedLog = {}
    /\ op = [s \in Session |-> Resting] /\ lockedBy = NoSession
    /\ ops = 0 /\ signed = 0 /\ cuts = 0

Revoked(db) == {r.serial : r \in {x \in db : x.revoked}}

-----------------------------------------------------------------------------
(* The commands as lists of steps.                                         *)

\* _ensure_ca: a half-made CA is an error that no command repairs.
EnsureCa ==
    IF caKey \/ caCert THEN IF caKey /\ caCert THEN <<>> ELSE <<"error">>
                       ELSE <<"caInit", "caKey", "caCert", "crlRead", "crlWrite">>

\* _issue_cert.
Issue == <<"ensureCa", "signRead", "sign", "unlink", "link">>

UsesCert(p) == p = Server \/ clientCert

\* update_server and update_client: a certificate when there is no latest one, then the
\* outputs.
UpdateSteps(p) ==
    (IF UsesCert(p) /\ latest[p] = NoCert THEN Issue ELSE <<>>) \o <<"render">>

\* revoke_profile_cert.
\* Slip: the list of revoked certificates is written before openssl has agreed.
RevokeStepsLogFirst(cert) ==
    (IF cert.id \in revokedLog THEN <<>> ELSE <<"log", "revokeRead", "revoke">>)
        \o <<"crlRead", "crlWrite">>

RevokeSteps(cert) ==
    (IF cert.id \in revokedLog THEN <<>> ELSE <<"revokeRead", "revoke", "log">>)
        \o <<"crlRead", "crlWrite">>

\* The whole command ("init" is also gw ovpn bootstrap); "create" in the web API goes on
\* with an update.
Steps(s, cmd, p, cert) ==
    CASE cmd = "init"   -> <<"config", "ensureCa">>
      [] cmd = "create" -> <<"create">> \o (IF s \in Web THEN <<"update">> ELSE <<>>)
      [] cmd = "update" -> <<"update">>
      [] cmd = "renew"  -> Issue \o <<"update">>
      [] cmd = "revoke" -> RevokeSteps(cert)
      [] cmd = "crl"    -> <<"ensureCa", "crlRead", "crlWrite">>

\* resolve_instance, load_profile, _cert_dir_for_id and the other checks before anything
\* is written.
Accepted(cmd, p, cert) ==
    /\ cmd = "init" \/ configured
    /\ cmd = "create" => p \notin profiles
    /\ cmd \in {"update", "renew", "revoke"} => p \in profiles
    /\ cmd = "renew" => UsesCert(p)
    /\ cmd = "revoke" <=> cert \in certs[p]

Start(s) ==
    \E cmd \in {"init", "create", "update", "renew", "revoke", "crl"}, p \in Profile :
        \E cert \in certs[p] \cup {NoCert} :
            /\ cmd \in {"init", "crl"} => p = Server /\ s \in Cli
            /\ Accepted(cmd, p, cert)
            /\ op' = [op EXCEPT ![s] = [Resting EXCEPT !.cmd = cmd, !.p = p, !.cert = cert,
                                                       !.todo = Steps(s, cmd, p, cert)]]

\* Slip: gw ovpn does not take the lock.
BeginUnlocked(s) ==
    /\ op[s].cmd = "none" /\ ops < MaxOps
    /\ ops' = ops + 1
    /\ Start(s)
    /\ UNCHANGED <<ca, database, crl, clientCert, profileVars, revokedLog, lockedBy, signed, cuts>>

\* A command starts.  gw ovpn fails at once when another command has the lock; the web
\* API has no init and no crl.
Begin(s) ==
    /\ op[s].cmd = "none" /\ ops < MaxOps
    /\ s \in Cli => lockedBy = NoSession
    /\ lockedBy' = IF s \in Cli THEN s ELSE lockedBy
    /\ ops' = ops + 1
    /\ Start(s)
    /\ UNCHANGED <<ca, database, crl, clientCert, profileVars, revokedLog, signed, cuts>>

-----------------------------------------------------------------------------
(* The steps.                                                              *)

At(s, step) == op[s].todo # <<>> /\ Head(op[s].todo) = step

\* The command goes on with its next step, and remembers what it has read.
Advance(s, o) == op' = [op EXCEPT ![s] = [o EXCEPT !.todo = Tail(op[s].todo)]]

Config(s) ==
    /\ At(s, "config")
    /\ configured' = TRUE
    /\ Advance(s, op[s])
    /\ UNCHANGED <<caKey, caCert, database, crl, clientCert, profileVars, revokedLog, lockedBy, bounds>>

\* The tests of _ensure_ca, update_server and update_client.
Expand(s) ==
    /\ op[s].todo # <<>>
    /\ \/ At(s, "ensureCa")
          /\ op' = [op EXCEPT ![s].todo = EnsureCa \o Tail(op[s].todo)]
       \/ At(s, "update")
          /\ op' = [op EXCEPT ![s].todo = UpdateSteps(op[s].p)]
    /\ UNCHANGED <<ca, database, crl, clientCert, profileVars, revokedLog, lockedBy, bounds>>

CaInit(s) ==
    /\ At(s, "caInit")
    /\ index' = {} /\ serial' = 1
    /\ Advance(s, op[s])
    /\ UNCHANGED <<ca, crl, clientCert, profileVars, revokedLog, lockedBy, bounds>>

CaKey(s) ==
    /\ At(s, "caKey")
    /\ caKey' = TRUE
    /\ Advance(s, op[s])
    /\ UNCHANGED <<configured, caCert, database, crl, clientCert, profileVars, revokedLog, lockedBy, bounds>>

CaCert(s) ==
    /\ At(s, "caCert")
    /\ caCert' = TRUE
    /\ Advance(s, op[s])
    /\ UNCHANGED <<configured, caKey, database, crl, clientCert, profileVars, revokedLog, lockedBy, bounds>>

\* openssl ca has read index.txt and serial.
ReadDatabase(s) ==
    /\ \/ At(s, "signRead") \/ At(s, "crlRead")
       \/ At(s, "revokeRead") /\ op[s].cert.serial \notin Revoked(index)
    /\ Advance(s, [op[s] EXCEPT !.db = index, !.next = serial])
    /\ UNCHANGED <<ca, database, crl, clientCert, profileVars, revokedLog, lockedBy, bounds>>

\* openssl ca signs: the certificate, index.txt and serial.
Sign(s) ==
    LET cert == [id |-> signed + 1, serial |-> op[s].next] IN
    /\ At(s, "sign") /\ signed < MaxCerts
    /\ signed' = signed + 1
    /\ certs' = [certs EXCEPT ![op[s].p] = @ \cup {cert}]
    /\ index' = op[s].db \cup {[serial |-> cert.serial, revoked |-> FALSE]}
    /\ serial' = cert.serial + 1
    /\ Advance(s, [op[s] EXCEPT !.cert = cert])
    /\ UNCHANGED <<ca, crl, clientCert, profiles, latest, output, revokedLog, lockedBy, ops, cuts>>

\* _replace_latest_symlink.
Unlink(s) ==
    /\ At(s, "unlink")
    /\ latest' = [latest EXCEPT ![op[s].p] = NoCert]
    /\ Advance(s, op[s])
    /\ UNCHANGED <<ca, database, crl, clientCert, profiles, certs, output, revokedLog, lockedBy, bounds>>

Link(s) ==
    /\ At(s, "link")
    /\ latest' = [latest EXCEPT ![op[s].p] = op[s].cert]
    /\ Advance(s, op[s])
    /\ UNCHANGED <<ca, database, crl, clientCert, profiles, certs, output, revokedLog, lockedBy, bounds>>

\* create_server_profile, create_client_profile.
Create(s) ==
    /\ At(s, "create")
    /\ profiles' = profiles \cup {op[s].p}
    /\ Advance(s, op[s])
    /\ UNCHANGED <<ca, database, crl, clientCert, certs, latest, output, revokedLog, lockedBy, bounds>>

\* render_server_config and render_client_config: of the text, the certificate in it.
Rendered(p) == IF UsesCert(p) THEN latest[p] ELSE NoCert

\* A client needs a server profile; both need the certificate that they include.
CanRender(p) ==
    /\ p = Server \/ Server \in profiles
    /\ UsesCert(p) => latest[p] # NoCert

\* Everything is rendered before the first output is written.
\* Slip: an output that exists is kept.
RenderOnce(s) ==
    /\ At(s, "render")
    /\ output' = [output EXCEPT ![op[s].p] = IF @ = NoCert THEN Rendered(op[s].p) ELSE @]
    /\ Advance(s, op[s])
    /\ UNCHANGED <<ca, database, crl, clientCert, profiles, certs, latest, revokedLog, lockedBy, bounds>>

Render(s) ==
    /\ At(s, "render") /\ CanRender(op[s].p)
    /\ output' = [output EXCEPT ![op[s].p] = Rendered(op[s].p)]
    /\ Advance(s, op[s])
    /\ UNCHANGED <<ca, database, crl, clientCert, profiles, certs, latest, revokedLog, lockedBy, bounds>>

\* openssl ca -revoke, which adds a certificate that it does not know.
Revoke(s) ==
    /\ At(s, "revoke")
    /\ index' = {r \in op[s].db : r.serial # op[s].cert.serial}
                    \cup {[serial |-> op[s].cert.serial, revoked |-> TRUE]}
    /\ Advance(s, op[s])
    /\ UNCHANGED <<ca, serial, crl, clientCert, profileVars, revokedLog, lockedBy, bounds>>

\* _record_revocation.
Log(s) ==
    /\ At(s, "log")
    /\ revokedLog' = revokedLog \cup {op[s].cert.id}
    /\ Advance(s, op[s])
    /\ UNCHANGED <<ca, database, crl, clientCert, profileVars, lockedBy, bounds>>

\* openssl ca -gencrl.
WriteCrl(s) ==
    /\ At(s, "crlWrite")
    /\ crl' = Revoked(op[s].db)
    /\ Advance(s, op[s])
    /\ UNCHANGED <<ca, database, clientCert, profileVars, revokedLog, lockedBy, bounds>>

\* A step that raises: a half-made CA, openssl's refusal to revoke twice, a client that
\* cannot be rendered; or openssl fails, or the process is killed.
Refused(s) ==
    \/ At(s, "error")
    \/ At(s, "revokeRead") /\ op[s].cert.serial \in Revoked(index)
    \/ At(s, "render") /\ ~CanRender(op[s].p)

Fail(s) ==
    /\ op[s].todo # <<>>
    /\ \/ Refused(s) /\ UNCHANGED cuts
       \/ ~Refused(s) /\ cuts < MaxCuts /\ cuts' = cuts + 1
    /\ op' = [op EXCEPT ![s].todo = <<>>, ![s].result = "failed"]
    /\ UNCHANGED <<ca, database, crl, clientCert, profileVars, revokedLog, lockedBy, ops, signed>>

End(s) ==
    /\ op[s].cmd # "none" /\ op[s].todo = <<>>
    /\ op' = [op EXCEPT ![s] = Resting]
    /\ lockedBy' = IF lockedBy = s THEN NoSession ELSE lockedBy
    /\ UNCHANGED <<ca, database, crl, clientCert, profileVars, revokedLog, bounds>>

Next ==
    \E s \in Session :
        \/ Begin(s) \/ Config(s) \/ Expand(s) \/ CaInit(s) \/ CaKey(s) \/ CaCert(s)
        \/ ReadDatabase(s) \/ Sign(s) \/ Unlink(s) \/ Link(s) \/ Create(s) \/ Render(s)
        \/ Revoke(s) \/ Log(s) \/ WriteCrl(s) \/ Fail(s) \/ End(s)

Spec == Init /\ [][Next]_vars

-----------------------------------------------------------------------------
(* Properties *)

Cert == [id : 1..MaxCerts, serial : 1..MaxCerts] \cup {NoCert}

TypeOK ==
    /\ {configured, caKey, caCert, clientCert} \subseteq BOOLEAN
    /\ index \subseteq [serial : 1..MaxCerts, revoked : BOOLEAN]
    /\ serial \in 0..MaxCerts + 1
    /\ crl \subseteq 0..MaxCerts
    /\ profiles \subseteq Profile
    /\ \A p \in Profile : certs[p] \subseteq Cert /\ latest[p] \in Cert /\ output[p] \in Cert
    /\ revokedLog \subseteq 1..MaxCerts
    /\ lockedBy \in Cli \cup {NoSession}
    /\ ops \in 0..MaxOps /\ signed \in 0..MaxCerts /\ cuts \in 0..MaxCuts

\* A certificate in state/revoked.jsonl is revoked in openssl's database, from which
\* every CRL is made: a repeated revoke skips openssl for it, so that one which openssl
\* does not know would never reach a CRL (openvpn.md: the lock avoids concurrent
\* changes of the CA index, serial and CRL).
LoggedIsRevoked ==
    \A p \in Profile : \A c \in certs[p] : c.id \in revokedLog => c.serial \in Revoked(index)

\* No two certificates of an instance have the same serial number: a revocation names one.
SerialsUnique ==
    \A p, q \in Profile : \A c \in certs[p], d \in certs[q] : c.serial = d.serial => c = d

\* latest is a signed certificate of its profile or missing (then an update issues one),
\* whatever command was cut where.
LatestIsSigned == \A p \in Profile : latest[p] \in certs[p] \cup {NoCert}

Done(s, commands) == op[s].cmd \in commands /\ op[s].todo = <<>> /\ op[s].result = "none"

\* A revoke or crl command that ends without an error has put on the CRL everything
\* revoked so far, by commands that were cut too.
CrlIsComplete ==
    \A s \in Session : Done(s, {"revoke", "crl"}) =>
        /\ crl = Revoked(index)
        /\ op[s].cmd = "revoke" => op[s].cert.serial \in crl

\* After an update or a renewal without an error the output holds the latest certificate.
OutputIsLatest ==
    \A s \in Session : Done(s, {"update", "renew"}) /\ UsesCert(op[s].p) =>
        output[op[s].p] = latest[op[s].p] /\ output[op[s].p] # NoCert
=============================================================================
