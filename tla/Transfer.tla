------------------------------ MODULE Transfer ------------------------------
(***************************************************************************)
(* The front door for everything that is not HTTP: the scheme picks the    *)
(* client, and what every client promises is stated once.                  *)
(***************************************************************************)
EXTENDS Dialogue

CONSTANTS MailBytes,                                                     \* mail
          FileBlocks, Modulus, MaxRetries, NetFaults, MaxInFlight,       \* TFTP
          FilterTokens, PatternBytes, MaxFilterDepth, MaxEntries,        \* LDAP
          MaxFrames, MaxItems, SshFile, SshChunk                         \* RTSP, text, SSH

FileClient == INSTANCE FileClients
MailClient == INSTANCE Mail
LdapClient == INSTANCE Ldap
Simple == INSTANCE SimpleClients

\* transfer_url_with: the scheme picks the client.
TransferInit ==
    \/ FileClient!FtpInit \/ MailClient!SmtpInit \/ MailClient!Pop3Init \/ MailClient!ImapInit
    \/ Simple!TftpInit \/ LdapClient!Init \/ FileClient!SshInit
    \/ Simple!TextInit \/ Simple!MqttInit \/ Simple!RtspInit

Ended == d.pc = "end" /\ UNCHANGED d

TransferNext ==
    \/ FileClient!FtpNext \/ MailClient!SmtpNext \/ MailClient!Pop3Next \/ MailClient!ImapNext
    \/ Simple!TftpNext \/ LdapClient!Next \/ FileClient!SshNext
    \/ Simple!TextNext \/ Simple!MqttNext \/ Simple!RtspNext
    \/ Quit \/ Broken \/ Ended

\* Every read has an idle timeout, so some step is always taken; a peer may not chatter on
\* for ever without saying anything new.
TransferSpec == TransferInit /\ [][TransferNext]_d /\ WF_d(TransferNext)

-----------------------------------------------------------------------------
\* With --ssl-reqd nothing worth protecting, neither credentials nor the payload, leaves
\* in plaintext, whatever the server advertises, refuses or leaves out.
TlsRequiredHolds == d.opt.required => d.clear = {}

\* What was heard before the handshake is not acted on after it: the capabilities are asked
\* for again.  The exception is IMAP's PREAUTH, which a plaintext greeting may give and which
\* spares the login after STARTTLS (imap.rs:101, imap.rs:140).
NothingStaleTrusted == d.tainted \subseteq {"preauth"}

\* What arrives is what was sent: messages through dot-stuffing, files through TFTP's
\* datagrams and SFTP's short reads, Telnet's data between its commands, lengths, filters.
\* An RTSP answer is the answer to its own request.
PayloadIntact ==
    /\ MailClient!SmtpIntact /\ MailClient!Pop3Intact /\ Simple!FileIntact
    /\ Simple!LengthIntact /\ LdapClient!FilterIntact /\ Simple!AnswersMatch
    /\ FileClient!CopyIntact /\ Simple!TextIntact

\* SSH credentials go to the one key the policy settled on.
HostKeyHolds == FileClient!OneKeyTrusted

\* Nothing secret goes where it may be read, and nothing unauthenticated is believed.
TrustHolds == TlsRequiredHolds /\ NothingStaleTrusted /\ HostKeyHolds

\* The transfer has ended, or is an MQTT subscription that waits, with or without a ping
\* on its way.
TransferRests(ping) == d.pc = "end" \/ (d.proto = "mqtt" /\ d.pc = "wait" /\ d.x.ping = ping)
=============================================================================
