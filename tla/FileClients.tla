---------------------------- MODULE FileClients -----------------------------
(***************************************************************************)
(* The clients that move a file over a session of commands: FTP and FTPS,  *)
(* SFTP and SCP.                                                           *)
(***************************************************************************)
EXTENDS Dialogue

CONSTANTS SshFile,    \* bound: units in the remote or local file
          SshChunk    \* SFTP_CHUNK, in units

-----------------------------------------------------------------------------
(***************************************************************************)
(* FTP and FTPS: login, optional AUTH TLS, the walk into the directory,    *)
(* the data connection (passive, or active with the server's callback),    *)
(* RETR or LIST, STOR with REST, APPE, and the completion reply.           *)
(***************************************************************************)
\* verb: the transfer command; dirs: components to CWD into; rest: -C for an upload;
\* mech: AUTH mechanisms left; data: the data connection's protection.
Jobs == [verb : {"RETR", "LIST", "STOR", "APPE"}, dirs : 0..1, create : BOOLEAN,
         rest : BOOLEAN, active : BOOLEAN, epsv : BOOLEAN]

Uploads == {"STOR", "APPE"}

FtpInit ==
    \E opt \in Options, j \in Jobs :
        /\ j.create \/ j.rest => j.verb \in Uploads
        /\ j.rest => j.verb = "STOR"
        /\ d = Opened("ftp", opt, [job |-> j, dirs |-> j.dirs, mech |-> 2, data |-> "none",
                                   prelim |-> FALSE])

is_positive(c) == c \in {"2xx", "3xx"}
Codes == {"1xx", "2xx", "3xx", "4xx/5xx"}

Banner ==
    /\ At("ftp", "greeting")
    /\ \E c \in Codes :
         d' = Expect(d, is_positive(c), IF ~d.tls /\ d.opt.required THEN "auth" ELSE "user")

\* AUTH TLS, then AUTH SSL; a refusal of both fails rather than going on in the clear.
auth_tls ==
    /\ At("ftp", "auth")
    /\ \E c \in {"234", "refused"}, pipelined \in BOOLEAN :
         d' = IF c = "234" THEN Upgrade(d, pipelined, "user")
              ELSE IF d.x.mech > 1 THEN [d EXCEPT !.x.mech = @ - 1]
              ELSE Fail(d)

User ==
    /\ At("ftp", "user")
    /\ \E c \in {"230", "331", "332", "other"} :
         d' = LET e == Said(d, "login") IN
              IF c = "331" THEN Then(e, "pass") ELSE Expect(e, c = "230", "protect")

Pass ==
    /\ At("ftp", "pass")
    /\ \E c \in {"230", "202", "other"} : d' = Expect(Said(d, "login"), c # "other", "protect")

\* PBSZ 0 and PROT P on a TLS control channel, then TYPE.
Protect ==
    /\ At("ftp", "protect")
    /\ \E pbsz, prot \in Codes, type200 \in BOOLEAN :
         /\ ~d.tls => pbsz = "2xx" /\ prot = "2xx"
         /\ d' = Expect(d, is_positive(pbsz) /\ is_positive(prot) /\ type200, "cwd")

cwd_path ==
    /\ At("ftp", "cwd")
    /\ IF d.x.dirs = 0 THEN d' = Then(d, "rest")
       ELSE \E first, again \in Codes :
              LET mkd == d.x.job.create /\ ~is_positive(first)
              IN  d' = Expect([d EXCEPT !.x.dirs = @ - 1],
                              is_positive(first) \/ (mkd /\ is_positive(again)), "cwd")

Rest ==
    /\ At("ftp", "rest")
    /\ IF d.x.job.rest
       THEN \E c350 \in BOOLEAN : d' = Expect(d, c350, "data")
       ELSE d' = Then(d, "data")

\* The data connection is protected exactly when the control channel is; a passive one is
\* dialled to the control peer whatever address the reply names.
Connected(e) == [e EXCEPT !.x.data = IF e.tls THEN "tls" ELSE "plain"]

open_passive ==
    /\ At("ftp", "data") /\ ~d.x.job.active
    /\ \E epsv \in {"229", "unparsable", "4xx/5xx", "other"}, pasv \in {"227", "bad"} :
         LET asked == d.x.job.epsv
             ok    == IF asked /\ epsv # "4xx/5xx" THEN epsv = "229" ELSE pasv = "227"
         IN  d' = Expect(Connected(d), ok, "command")

announce_active ==
    /\ At("ftp", "data") /\ d.x.job.active
    /\ \E eprt, port \in Codes, ipv4 \in BOOLEAN :
         d' = Expect(d, is_positive(eprt) \/ (ipv4 /\ is_positive(port)), "command")

\* A download also takes a completion straight away; an upload needs the 1xx.
Command ==
    /\ At("ftp", "command")
    /\ \E c \in Codes :
         LET prelim == c = "1xx"
             go == prelim \/ (d.x.job.verb \notin Uploads /\ is_positive(c))
         IN  d' = Expect([d EXCEPT !.x.prelim = prelim], go, "accept")

\* Active mode takes the server's callback only now, and only from the control peer.
into_stream ==
    /\ At("ftp", "accept")
    /\ \E from \in {"control peer", "another"} :
         d' = IF ~d.x.job.active THEN Then(d, "copy")
              ELSE IF from = "control peer" THEN Then(Connected(d), "copy") ELSE Fail(d)

\* The bytes move until the sender closes.
Copy ==
    /\ At("ftp", "copy")
    /\ d' = Then([d EXCEPT !.clear = IF d.x.data = "plain" THEN @ \cup {"data"} ELSE @], "final")

\* The completion reply, unless it came in place of the preliminary one.
Final ==
    /\ At("ftp", "final")
    /\ IF ~d.x.prelim THEN d' = Then(d, "quit")
       ELSE \E c \in Codes : d' = Expect(d, is_positive(c), "quit")

FtpNext == \/ Banner \/ auth_tls \/ User \/ Pass \/ Protect \/ cwd_path \/ Rest \/ open_passive
        \/ announce_active \/ Command \/ into_stream \/ Copy \/ Final

-----------------------------------------------------------------------------
(***************************************************************************)
(* SFTP and SCP: how the host key is judged, on two connections in a row   *)
(* with the known_hosts file between them, then the credentials and the    *)
(* transfer.  The SSH library's own part (looking a key up, saving it) is  *)
(* external.                                                               *)
(***************************************************************************)
Keys == 1..2
Missing == 0
Unreadable == -1

\* The SshOptions that matter, and what ~/.ssh holds at the start.
Setups == [pin : 0..2, insecure : BOOLEAN, accept_new : BOOLEAN,
           known : -1..2, explicit : BOOLEAN]

SshInit ==
    \E o \in Setups, op \in {"sftp get", "sftp put", "scp get", "scp put"}, key \in Keys,
       login \in BOOLEAN :
        /\ o.pin # 0 => o.known = Missing
        /\ d = Opened("ssh", [implicit |-> TRUE, required |-> FALSE, login |-> login],
                      [o |-> o, op |-> op, key |-> key, saved |-> {}, met |-> <<>>, trusted |-> {},
                       round |-> 1, offset |-> 0, out |-> <<>>])

host_key_mode(o) ==
    IF o.pin # 0 THEN "Pinned" ELSE IF o.insecure THEN "NoCheck"
    ELSE IF o.accept_new THEN "AcceptNew" ELSE "Strict"

\* The file plus what accept-new added to it.
Known(x) == x.saved \cup (IF x.o.known \in Keys THEN {x.o.known} ELSE {})

\* An unreadable file fails before the first byte; a missing one is an empty one.
build_config(x) == host_key_mode(x.o) \in {"Pinned", "NoCheck"} \/ x.o.known # Unreadable

\* @revoked, a changed key, an unknown host.
Accepts(x, revoked) ==
    CASE host_key_mode(x.o) = "Pinned"  -> x.key = x.o.pin
      [] host_key_mode(x.o) = "NoCheck" -> TRUE
      [] OTHER -> /\ ~revoked
                  /\ IF Known(x) = {} THEN host_key_mode(x.o) = "AcceptNew" ELSE x.key \in Known(x)

connect_auth ==
    /\ At("ssh", "greeting")
    /\ \E revoked \in BOOLEAN, loads \in BOOLEAN, welcome \in BOOLEAN :
         LET x     == d.x
             save  == host_key_mode(x.o) = "AcceptNew" /\ Known(x) = {}
             e     == [d EXCEPT !.x.saved = IF save THEN {x.key} ELSE @,
                                !.x.met = Append(@, x.key)]
             \* a named identity must load, a default one may be skipped
             creds == IF x.o.explicit THEN loads ELSE loads \/ d.opt.login
             offered == [e EXCEPT !.x.trusted = @ \cup {x.key}]
         IN  d' = IF ~build_config(x) THEN Fail(d)
                  ELSE IF ~Accepts(x, revoked) THEN Fail([d EXCEPT !.x.met = Append(@, x.key)])
                  ELSE IF ~creds THEN Fail(e)
                  ELSE IF ~welcome THEN Fail(offered) ELSE Then(offered, "move")

File == [k \in 1..SshFile |-> k]
From(s, offset, n) == SubSeq(s, offset + 1, offset + n)

\* After the first transfer a later invocation with the same options, perhaps to another
\* server at that address.
Finish(e, key) ==
    IF e.x.round = 2 THEN Succeed(e)
    ELSE [Then(e, "greeting") EXCEPT !.x.round = 2, !.x.key = key, !.x.offset = 0, !.x.out = <<>>]

\* Reads may come back short; only an empty one is the end.
sftp_download ==
    /\ At("ssh", "move") /\ d.x.op = "sftp get"
    /\ IF d.x.offset = SshFile THEN \E key \in Keys : d' = Finish(d, key)
       ELSE \E n \in 1..SshChunk :
              /\ n <= SshFile - d.x.offset
              /\ d' = [d EXCEPT !.x.out = @ \o From(File, d.x.offset, n), !.x.offset = @ + n]

\* The remote file is what was written, where it was written; a failed close is a failure.
sftp_upload ==
    /\ At("ssh", "move") /\ d.x.op = "sftp put"
    /\ IF d.x.offset >= SshFile
       THEN \E closed \in BOOLEAN, key \in Keys : d' = IF closed THEN Finish(d, key) ELSE Fail(d)
       ELSE LET n == IF SshFile - d.x.offset < SshChunk THEN SshFile - d.x.offset ELSE SshChunk
            IN  d' = [d EXCEPT !.x.out = SubSeq(@, 1, d.x.offset) \o From(File, d.x.offset, n),
                               !.x.offset = @ + n]

\* Through a file in a private temporary directory, which is removed on every way out.
scp ==
    /\ At("ssh", "move") /\ d.x.op \in {"scp get", "scp put"}
    /\ \E made, moved \in BOOLEAN, key \in Keys :
         d' = IF made /\ moved THEN Finish([d EXCEPT !.x.out = File], key) ELSE Fail(d)

SshNext == connect_auth \/ sftp_download \/ sftp_upload \/ scp

\* Without a pin or -k credentials go to one key only: the one known_hosts has, or, trusted
\* on first use, the first one met.
OneKeyTrusted ==
    d.proto = "ssh" /\ host_key_mode(d.x.o) \in {"Strict", "AcceptNew"} =>
        d.x.trusted \subseteq (IF d.x.o.known \in Keys THEN {d.x.o.known}
                               ELSE IF d.x.o.accept_new /\ d.x.met # <<>> THEN {d.x.met[1]} ELSE {})

\* The copy is a prefix of the file, and all of it on success.
CopyIntact ==
    d.proto = "ssh" =>
        /\ IsPrefix(d.x.out, File)
        /\ d.result = "ok" => d.x.out = File

=============================================================================
