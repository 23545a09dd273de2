----------------------------- MODULE HostfsLink -----------------------------
(***************************************************************************)
(* hostfsd's stream and its accept loop: recv_exact() and send_all() over  *)
(* a socket that delivers in pieces, serve_client() cutting it into        *)
(* requests by the length each header declares, and main() taking one      *)
(* client after another, or with --once only one.                          *)
(*                                                                         *)
(* A byte is <<f, k>>: the k'th of the f'th frame of this connection, so   *)
(* that a request can be compared with the frame that was sent.  A frame   *)
(* declares the length len and has size bytes; the two differ only when    *)
(* the declared length is one no frame may have.                           *)
(***************************************************************************)
EXTENDS Naturals, Sequences, FiniteSets

CONSTANTS
  Header,       (* HOSTFS_REQ_HDR: 16 bytes in the code.                   *)
  MaxFrame,     (* HOSTFS_MAX_FRAME.                                       *)
  BadLengths,   (* The lengths out of range that a header may declare.     *)
  Replies,      (* The sizes of the answers of serve().                    *)
  ErrorReply,   (* HOSTFS_REP_HDR.                                         *)
  Once,         (* --once was given.                                       *)
  MaxSent,      (* Bound: frames a client sends.                           *)
  MaxClients    (* Bound: clients that connect.                            *)

Lengths == Header..MaxFrame

ASSUME FrameAssumption ==
  /\ Header \in Nat \ {0}
  /\ MaxFrame \in Nat /\ Header <= MaxFrame
  /\ BadLengths \subseteq Nat \ Lengths
  /\ Replies \subseteq Nat \ {0}
  /\ ErrorReply \in Nat \ {0}
  /\ Once \in BOOLEAN
  /\ {MaxSent, MaxClients} \subseteq Nat

VARIABLES
  state,        (* Where the helper is; see States.                        *)
  client,       (* "none", or one that is "open" or has "closed".          *)
  clients,      (* How many have connected.                                *)
  frames,       (* What this client has sent.                              *)
  wire,         (* The bytes of it not received yet.                       *)
  buf,          (* req: the bytes received of the current request.         *)
  requests,     (* What serve() was given in this session.                 *)
  out,          (* The bytes of the answer that are still to be sent.      *)
  served        (* serve_client()'s count.                                 *)

conn == <<frames, wire, buf, requests, out, served>>
vars == <<state, client, clients, conn>>

\* "header" and "body": in recv_exact(); "answering": in send_all();
\* "dropping": sending the one error of a session that is out of step.
States == {"starting", "accepting", "header", "body", "answering", "dropping", "gone"}

Bytes == (1..MaxSent) \X (1..MaxFrame)

FrameBytes(f) == [k \in 1..frames[f].size |-> <<f, k>>]

TypeOK ==
  /\ state \in States
  /\ client \in {"none", "open", "closed"}
  /\ clients \in 0..MaxClients
  /\ frames \in Seq([len : Lengths \cup BadLengths, size : 1..MaxFrame])
  /\ Len(frames) <= MaxSent
  /\ {wire, buf} \subseteq Seq(Bytes)
  /\ requests \in Seq(Seq(Bytes))
  /\ out \in Nat
  /\ served \in Nat

-----------------------------------------------------------------------------
(* The client *)

Reset ==
  /\ frames' = <<>>
  /\ wire' = <<>>
  /\ buf' = <<>>
  /\ requests' = <<>>
  /\ out' = 0
  /\ served' = 0

\* The listener has a backlog: a client is connected before it is accepted.
ClientConnects ==
  /\ client = "none"
  /\ state \notin {"starting", "gone"}
  /\ clients < MaxClients
  /\ client' = "open"
  /\ clients' = clients + 1
  /\ UNCHANGED <<state, conn>>

ClientSends ==
  /\ client = "open"
  /\ Len(frames) < MaxSent
  /\ \E len \in Lengths \cup BadLengths, size \in 1..MaxFrame :
       /\ len \in Lengths => size = len
       /\ frames' = Append(frames, [len |-> len, size |-> size])
       /\ wire' = wire \o [k \in 1..size |-> <<Len(frames) + 1, k>>]
  /\ UNCHANGED <<state, client, clients, buf, requests, out, served>>

\* It may go at any moment: before it is accepted, in the middle of a frame
\* (whose rest is then lost) or of an answer.
ClientCloses ==
  /\ client = "open"
  /\ client' = "closed"
  /\ \E n \in 0..Len(wire) : wire' = SubSeq(wire, 1, n)
  /\ UNCHANGED <<state, clients, frames, buf, requests, out, served>>

-----------------------------------------------------------------------------
(* serve_client() *)

\* A mutant: --once ends with the first connection, whatever it carried.
SessionOver_AnyOnce ==
  /\ state' = IF Once THEN "gone" ELSE "accepting"
  /\ client' = "none"
  /\ Reset
  /\ UNCHANGED clients

\* Back to main()'s loop, which closes the connection.
SessionOver ==
  /\ state' = IF Once /\ served > 0 THEN "gone" ELSE "accepting"
  /\ client' = "none"
  /\ Reset
  /\ UNCHANGED clients

Accept ==
  /\ state = "accepting" /\ client # "none"
  /\ state' = "header"
  /\ UNCHANGED <<client, clients, conn>>

\* The length field of the header in buf.  A header that does not start with
\* a frame has other bytes there, and they may say anything.
Declared ==
  IF buf[1][2] = 1 THEN {frames[buf[1][1]].len} ELSE Lengths \cup BadLengths

\* What recv_exact() waits for in each of its two calls.
Needed == IF state = "header" THEN {Header} ELSE Declared

\* conn_recv() gives some of what was asked for, from one byte up.
Receive ==
  /\ state \in {"header", "body"}
  /\ \E needed \in Needed :
       /\ Len(buf) < needed
       /\ \E n \in 1..(needed - Len(buf)) :
            /\ n <= Len(wire)
            /\ buf' = buf \o SubSeq(wire, 1, n)
            /\ wire' = SubSeq(wire, n + 1, Len(wire))
  /\ UNCHANGED <<state, client, clients, frames, requests, out, served>>

\* The end of the stream, between two frames or inside one.
ReceiveEnds ==
  /\ state \in {"header", "body"}
  /\ \E needed \in Needed : Len(buf) < needed
  /\ wire = <<>> /\ client = "closed"
  /\ SessionOver

\* Mutants: only a length above HOSTFS_MAX_FRAME is refused, or only one below
\* the header's.
InRange_NoLower(len) == len <= MaxFrame
InRange_NoUpper(len) == Header <= len
InRange(len) == Header <= len /\ len <= MaxFrame

\* The header is complete: the count, and the check of the length.
HeaderRead ==
  /\ state = "header" /\ Len(buf) = Header
  /\ served' = served + 1
  /\ \E len \in Declared :
       \/ /\ ~InRange(len)
          /\ state' = "dropping"
          /\ out' = ErrorReply
       \/ /\ InRange(len)
          /\ state' = "body"
          /\ UNCHANGED out
  /\ UNCHANGED <<client, clients, frames, wire, buf, requests>>

\* The whole frame is there: serve() answers it.
Serve ==
  /\ state = "body"
  /\ \E len \in Declared : Len(buf) >= len
  /\ requests' = Append(requests, buf)
  /\ out' \in Replies
  /\ state' = "answering"
  /\ UNCHANGED <<client, clients, frames, wire, buf, served>>

\* conn_send() takes some of the answer, from one byte up.
Send ==
  /\ state \in {"answering", "dropping"}
  /\ client = "open" /\ out > 0
  /\ \E n \in 1..out : out' = out - n
  /\ UNCHANGED <<state, client, clients, frames, wire, buf, requests, served>>

\* The answer is complete: the next header, or the end of a dropped session.
Sent ==
  /\ out = 0
  /\ \/ state = "dropping" /\ SessionOver
     \/ /\ state = "answering"
        /\ state' = "header"
        /\ buf' = <<>>
        /\ UNCHANGED <<client, clients, frames, wire, requests, out, served>>

\* A mutant: the failed answer is tried again.
SendFails_Retries ==
  /\ state \in {"answering", "dropping"} /\ client = "closed" /\ out > 0
  /\ UNCHANGED vars

\* A client that is gone fails the write, whatever part of it had been sent
\* (SIGPIPE is ignored).
SendFails ==
  /\ state \in {"answering", "dropping"} /\ client = "closed" /\ out > 0
  /\ SessionOver

-----------------------------------------------------------------------------
\* listener_open() and signal_ready(), or the exit of a start that failed.
Listen ==
  /\ state = "starting"
  /\ state' \in {"accepting", "gone"}
  /\ UNCHANGED <<client, clients, conn>>

Init ==
  /\ state = "starting"
  /\ client = "none"
  /\ clients = 0
  /\ frames = <<>>
  /\ wire = <<>>
  /\ buf = <<>>
  /\ requests = <<>>
  /\ out = 0
  /\ served = 0

Helper ==
  \/ Listen \/ Accept \/ Receive \/ ReceiveEnds \/ HeaderRead \/ Serve
  \/ Send \/ Sent \/ SendFails

Next == ClientConnects \/ ClientSends \/ ClientCloses \/ Helper

Spec == Init /\ [][Next]_vars

\* The helper runs whenever it can: it has one thread and waits only for its
\* client.
FairSpec == Spec /\ WF_vars(Helper)

-----------------------------------------------------------------------------
(* Properties *)

\* What serve() is given are the frames the client sent, whole and in order,
\* in whatever pieces they arrived, and nothing from a frame with an impossible
\* length on: "there is no way to know where the next frame starts".  And no
\* frame, whatever it declares, is read beyond the buffer of MaxFrame bytes.
InStep ==
  /\ \A r \in DOMAIN requests : frames[r].len \in Lengths /\ requests[r] = FrameBytes(r)
  /\ Len(buf) <= MaxFrame

\* A client that is gone is let go, in the middle of a frame, of an answer or
\* of the error of a dropped session, and its place is free for the next:
\* "a guest that vanishes mid-reply must not kill the helper".
SessionEnds == client = "closed" ~> client = "none"
=============================================================================
