------------------------------ MODULE RTSPClient ------------------------------
(* format/rtsp/client.go: one RTSP control connection, shared by the demuxer,  *)
(* which plays a stream, and by the muxer, which publishes one.                *)
(*                                                                             *)
(* The connection carries text (answers) and, once a stream plays, binary      *)
(* frames in the same bytes.  "wire" is what the server has sent and the       *)
(* client has not read, as a sequence of tokens: an answer, the SDP body of an *)
(* answer to DESCRIBE, the four bytes of a frame's header, the bytes of its    *)
(* payload, or junk.  The client is single threaded: a call is made by sending *)
(* a request and then reading lines, and the server acts in between.           *)
EXTENDS Integers, Sequences, FiniteSets

CONSTANTS Schemes,  \* the schemes of the challenges the server sends
          MaxTries, \* bound: how often one call is sent
          Tls       \* whether the URL is an rtsps one

\* "bare" is a Digest challenge without a realm.
ASSUME SchemesAssumption == Schemes \subseteq {"digest", "bare", "basic", "other"}
ASSUME TriesAssumption == MaxTries \in Nat \ {0} /\ Tls \in BOOLEAN

VARIABLES conn,     \* "none", "dialled" (no reader and writer yet), "up", "closed"
          seq,      \* the CSeq of the next request
          auth,     \* the schemes the client has answered a challenge of
          call,     \* the request being made
          plan,     \* the requests that follow it
          asked,    \* requests the server has not answered
          wire      \* tokens on their way to the client

clientVars == <<conn, seq, auth, call, plan, asked, wire>>

Ask(method, ch) == [method |-> method, ch |-> ch, tries |-> 0, phase |-> "send"]
NoCall == [Ask("none", 0) EXCEPT !.phase = "idle"]
Failed == [NoCall EXCEPT !.phase = "failed"]

ClientInit ==
    /\ conn = "none" /\ seq = 0 /\ auth = {} /\ call = NoCall
    /\ plan = <<>> /\ asked = <<>> /\ wire = <<>>

\* newClient, for an attempt to publish after another one.
NewClient == seq' = 0 /\ auth' = {} /\ plan' = <<>> /\ asked' = <<>> /\ wire' = <<>>

(* ----------------------------- The client ---------------------------------- *)

\* The URL cannot be parsed, the dial fails, or the TLS handshake fails after
\* it, when there is a connection but nothing to read and write it with.
EstablishFails ==
    /\ conn' \in {"none"} \union (IF Tls THEN {"dialled"} ELSE {})
    /\ call' = Failed

Establish == conn' = "up" /\ call' = Ask("OPTIONS", 0)

\* The call ends: every send of it that got out of Flush has its deferred seq++.
End(phase) ==
    /\ call' = [call EXCEPT !.phase = phase]
    /\ seq' = seq + call.tries

\* What a request looks like to the server.
Message(method, ch) == [method |-> method, ch |-> ch, seq |-> seq]

Request ==
    /\ call.phase = "send" /\ call.tries < MaxTries
    /\ asked' = Append(asked, Message(call.method, call.ch))
    /\ call' = [call EXCEPT !.phase = "wait", !.tries = @ + 1]
    /\ UNCHANGED <<conn, seq, auth, plan, wire>>

RequestFails ==
    /\ call.phase = "send"
    /\ End("failed")
    /\ UNCHANGED <<conn, auth, plan, asked, wire>>

\* A request whose answer nobody waits for (ping and TEARDOWN); the write may fail.
Fire(method) ==
    \/ asked' = Append(asked, Message(method, 0)) /\ seq' = seq + 1
    \/ UNCHANGED <<asked, seq>>

\* An answer without a challenge, or with the wrong CSeq: the call ends.  A 401
\* without a challenge counts as an answer that lacks the headers ("odd").
Answered ==
    /\ call.phase = "wait" /\ wire # <<>>
    /\ Head(wire).k = "answer" /\ Head(wire).what \notin Schemes
    /\ wire' = Tail(wire)
    /\ seq' = seq + call.tries
    /\ call' = [call EXCEPT
                  !.phase = IF Head(wire).seq # seq \/ Head(wire).what = "fail"
                            THEN "failed" ELSE Head(wire).what,
                  !.ch = Head(wire).ch]
    /\ UNCHANGED <<conn, auth, plan, asked>>

\* Digest is refused once there is a realm, Basic once there is an Authorization.
AnsweredBefore(scheme) == \/ scheme \in {"digest", "bare"} /\ "digest" \in auth
                          \/ scheme = "basic" /\ "basic" \in auth
Challenged ==
    /\ call.phase = "wait" /\ wire # <<>>
    /\ Head(wire).k = "answer" /\ Head(wire).what \in Schemes
    /\ wire' = Tail(wire)
    /\ IF Head(wire).seq # seq \/ AnsweredBefore(Head(wire).what)
       THEN End("failed") /\ UNCHANGED auth
       ELSE /\ call' = [call EXCEPT !.phase = "send"]
            /\ auth' = auth \union {Head(wire).what}
            /\ UNCHANGED seq
    /\ UNCHANGED <<conn, plan, asked>>

\* Bytes that are no answer are read as header lines.  They may do no harm, or
\* spoil the status line or the end of the answer.
Garbled ==
    /\ call.phase = "wait" /\ wire # <<>> /\ Head(wire).k # "answer"
    /\ wire' = Tail(wire)
    /\ End("failed") \/ UNCHANGED <<call, seq>>
    /\ UNCHANGED <<conn, auth, plan, asked>>

\* Nothing comes for readWriteTimeout, or the connection is reset.
NoAnswer ==
    /\ call.phase = "wait" /\ wire = <<>>
    /\ End("failed")
    /\ UNCHANGED <<conn, auth, plan, asked, wire>>

Continue(next) ==
    /\ call' = Head(next) /\ plan' = Tail(next)
    /\ UNCHANGED <<conn, seq, auth, asked, wire>>

\* Close: TEARDOWN if it can be sent, then the connection is closed and what was
\* under way on it is gone.  Without a reader and writer the TEARDOWN panics and
\* the connection stays open.
CloseClient ==
    /\ call' = NoCall /\ plan' = <<>> /\ asked' = <<>> /\ wire' = <<>>
    /\ IF conn = "up" THEN conn' = "closed" /\ seq' \in {seq, seq + 1}
                      ELSE UNCHANGED <<conn, seq>>

ClientStep == Request \/ Answered \/ Challenged \/ Garbled \/ NoAnswer

(* ------------------------- The server (external) --------------------------- *)

\* The server answers the oldest request: as asked, without the headers the call
\* needs, with an error, with another CSeq, or with a challenge (all the same to
\* the client when it does not wait for the answer).  The answer to DESCRIBE has a
\* body, and SETUP gives another channel than the one asked for.
Answer(what, s, ch) == [k |-> "answer", what |-> what, seq |-> s, ch |-> ch]

Reply(request) ==
    \/ \E what \in IF call.phase = "wait" THEN {"ok", "odd", "fail"} \union Schemes ELSE {"ok"} :
          wire' = wire \o <<Answer(what, request.seq, request.ch + 10)>>
                       \o (IF request.method = "DESCRIBE" /\ what = "ok"
                           THEN <<[k |-> "sdp"]>> ELSE <<>>)
    \/ call.phase = "wait" /\ wire' = Append(wire, Answer("ok", request.seq + 1, request.ch))

ServeOldest ==
    /\ asked # <<>> /\ conn = "up"
    /\ Reply(Head(asked))
    /\ asked' = Tail(asked)
    /\ UNCHANGED <<conn, seq, auth, call, plan>>

(* ------------------------------ Properties --------------------------------- *)

\* A call is sent again once, with credentials, and a second challenge ends it
\* (the comment of handleAuthentication, client.go:254-256).  It does not hold when
\* "other" or "bare" is among the schemes, as such a challenge sends the call again
\* and again, nor with both of Digest and Basic.
RetriedOnce == call.tries <= 2
===============================================================================
