---------------------------- MODULE MCHttpSend ----------------------------
(* Requests chosen so that every pair that must not share a connection, and  *)
(* every retry decision, meets in two threads.                               *)
EXTENDS HttpSend

Base == [scheme |-> "https", host |-> "a", dial |-> "url", part |-> "none",
         posture |-> "default", via |-> "direct", pref |-> "auto", idem |-> TRUE,
         token |-> NoToken]

MCRequests ==
    { [Base EXCEPT !.pref = "h3", !.part = "site"],
      [Base EXCEPT !.idem = FALSE, !.token = "k"],
      [Base EXCEPT !.posture = "insecure", !.pref = "h1"],
      [Base EXCEPT !.scheme = "http", !.via = "resolved"],
      [Base EXCEPT !.scheme = "http", !.dial = "pinned"] }

\* A POST over HTTP/3 with fallback.
MCH3 == { [Base EXCEPT !.pref = "h3", !.idem = FALSE] }

=============================================================================
