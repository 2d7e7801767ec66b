----------------------------- MODULE LocalAgent -----------------------------
(***************************************************************************)
(* The loopback probe (fidelity-core/src/capability/local_agent.rs): one   *)
(* connection, one request, and a bounded read of the answer of whatever   *)
(* listens on the port.                                                    *)
(*                                                                         *)
(* The answer of the peer is a stream of pieces: the status line of an     *)
(* upgrade, the three header lines that the probe looks for, the empty line*)
(* that ends the head, other text, the two halves of a character that takes*)
(* more than one byte, and bytes that are no UTF-8 text. A read returns any*)
(* number of the pieces that are next, because TCP keeps no boundaries, so *)
(* a read, or the end of the buffer, may fall between the two halves of a  *)
(* character. A line that arrives in part changes nothing that the loop or *)
(* the comparison tests, so no other piece is cut. The peer, and the way   *)
(* its answer is cut, are external. read() that was interrupted is repeated*)
(* at once, and takes no step here.                                        *)
(***************************************************************************)
EXTENDS Naturals, Sequences

CONSTANTS
  Streams,              \* what a peer may send before it closes or falls silent
  MAX_RESPONSE_BYTES    \* the room in the response buffer, in pieces

Pieces == {"status", "upgrade", "connection", "accept", "text", "end",
           "lead", "trail", "binary"}

ASSUME AgentAssumption ==
  /\ Streams \subseteq Seq(Pieces)
  /\ MAX_RESPONSE_BYTES \in Nat \ {0}

VARIABLES
  agentPc,    \* "connect", "write", "read", "match" or "done"
  stream,     \* what the peer of this connection sends
  arrived,    \* how many of its pieces were read
  response,   \* the response buffer
  answer      \* the observation, once the probe returned

agentVars == <<agentPc, stream, arrived, response, answer>>

-----------------------------------------------------------------------------
(* is_frida_websocket_response().                                          *)

Letters(s) == {s[i] : i \in DOMAIN s}

\* from_utf8() takes the whole buffer or nothing of it.
IsText(s) ==
  /\ "binary" \notin Letters(s)
  /\ \A i \in DOMAIN s :
       /\ s[i] = "lead" => i + 1 \in DOMAIN s /\ s[i + 1] = "trail"
       /\ s[i] = "trail" => i - 1 \in DOMAIN s /\ s[i - 1] = "lead"

\* s[e] is the first empty line, and the lines before it are the head.
EndsHead(s, e) == s[e] = "end" /\ \A i \in 1 .. e - 1 : s[i] # "end"

\* The status, and the three header lines in any order among others.
MatchingHead(s, e) ==
  /\ EndsHead(s, e)
  /\ s[1] = "status"
  /\ {"upgrade", "connection", "accept"} \subseteq {s[i] : i \in 2 .. e - 1}

\* Slip: the answer to the key is not compared.
MatchesWithoutKey(s) ==
  /\ IsText(s)
  /\ \E e \in DOMAIN s :
       /\ EndsHead(s, e)
       /\ s[1] = "status"
       /\ {"upgrade", "connection"} \subseteq {s[i] : i \in 2 .. e - 1}

Matches(s) == IsText(s) /\ \E e \in DOMAIN s : MatchingHead(s, e)

-----------------------------------------------------------------------------
\* Nothing was asked yet.
AgentInit ==
  /\ agentPc = "done"
  /\ stream = <<>>
  /\ arrived = 0
  /\ response = <<>>
  /\ answer = "none"

PeerAnswer(kind) ==
  /\ answer' = kind
  /\ agentPc' = "done"

\* connect_timeout(), and connection_failure() when it fails.
Connect ==
  /\ agentPc = "connect"
  /\ agentPc' = "write"
  /\ stream' \in Streams
  /\ UNCHANGED <<arrived, response, answer>>

ConnectRefused ==
  /\ agentPc = "connect"
  /\ PeerAnswer("Absent")
  /\ UNCHANGED <<stream, arrived, response>>

ConnectFails ==
  /\ agentPc = "connect"
  /\ PeerAnswer("Failed")
  /\ UNCHANGED <<stream, arrived, response>>

\* The two deadlines are set, and the request is written.
WriteRequest ==
  /\ agentPc = "write"
  /\ agentPc' = "read"
  /\ UNCHANGED <<stream, arrived, response, answer>>

WriteFails ==
  /\ agentPc = "write"
  /\ PeerAnswer("Failed")
  /\ UNCHANGED <<stream, arrived, response>>

\* Where the loop goes after a read: on, or to the comparison.
AfterRead(r) ==
  IF "end" \in Letters(r) \/ Len(r) >= MAX_RESPONSE_BYTES
  THEN "match" ELSE "read"

\* Slip: the room in the buffer does not limit the read.
ReadChunkUnbounded ==
  /\ agentPc = "read"
  /\ \E size \in 1 .. Len(stream) - arrived :
       /\ response' = response \o SubSeq(stream, arrived + 1, arrived + size)
       /\ arrived' = arrived + size
  /\ agentPc' = AfterRead(response')
  /\ UNCHANGED <<stream, answer>>

\* Slip: one read is taken for the whole answer.
ReadChunkOnce ==
  /\ agentPc = "read"
  /\ \E size \in 1 .. MAX_RESPONSE_BYTES - Len(response) :
       /\ arrived + size <= Len(stream)
       /\ response' = response \o SubSeq(stream, arrived + 1, arrived + size)
       /\ arrived' = arrived + size
  /\ agentPc' = "match"
  /\ UNCHANGED <<stream, answer>>

\* read() returns what arrived, at most the room that is left.
ReadChunk ==
  /\ agentPc = "read"
  /\ \E size \in 1 .. MAX_RESPONSE_BYTES - Len(response) :
       /\ arrived + size <= Len(stream)
       /\ response' = response \o SubSeq(stream, arrived + 1, arrived + size)
       /\ arrived' = arrived + size
  /\ agentPc' = AfterRead(response')
  /\ UNCHANGED <<stream, answer>>

\* read() returns 0: the peer closed, after everything it sent.
ReadClosed ==
  /\ agentPc = "read"
  /\ arrived = Len(stream)
  /\ agentPc' = "match"
  /\ UNCHANGED <<stream, arrived, response, answer>>

\* Slip: a read that reached its deadline is repeated, as an interrupted one is.
ReadFailsRetries ==
  /\ agentPc = "read"
  /\ UNCHANGED agentVars

\* The deadline of one read passes, or the read fails.
ReadFails ==
  /\ agentPc = "read"
  /\ PeerAnswer("Failed")
  /\ UNCHANGED <<stream, arrived, response>>

Match ==
  /\ agentPc = "match"
  /\ PeerAnswer(IF Matches(response) THEN "Present" ELSE "Absent")
  /\ UNCHANGED <<stream, arrived, response>>

\* Every full scan starts a new exchange, the first one too.
Again ==
  /\ agentPc = "done"
  /\ agentPc' = "connect"
  /\ stream' = <<>>
  /\ arrived' = 0
  /\ response' = <<>>
  /\ answer' = "none"

AgentNext ==
  \/ Connect \/ ConnectRefused \/ ConnectFails
  \/ WriteRequest \/ WriteFails
  \/ ReadChunk \/ ReadClosed \/ ReadFails
  \/ Match
  \/ Again

AgentSpec == AgentInit /\ [][AgentNext]_agentVars

\* connect_timeout() and write_all() return, and a read that brings nothing
\* ends at its deadline. Nothing is assumed of the peer: it need not send and
\* need not close. A scan need not ask again.
AgentFairSpec ==
  /\ AgentSpec
  /\ WF_agentVars(Connect \/ ConnectRefused \/ ConnectFails)
  /\ WF_agentVars(WriteRequest \/ WriteFails)
  /\ WF_agentVars(ReadFails)
  /\ WF_agentVars(Match)

-----------------------------------------------------------------------------
AgentTypeOK ==
  /\ agentPc \in {"connect", "write", "read", "match", "done"}
  /\ stream \in Seq(Pieces)
  /\ arrived \in 0 .. Len(stream)
  /\ response \in Seq(Pieces)
  /\ Len(response) <= MAX_RESPONSE_BYTES
  /\ answer \in {"none", "Present", "Absent", "Failed"}

\* The buffer is the beginning of what the peer sent, however it was cut, and the
\* loop goes on only while it has room and no empty line (local_agent.rs:69-107).
BufferIsPrefix ==
  /\ Len(response) = arrived
  /\ \A i \in 1 .. arrived : response[i] = stream[i]
  /\ agentPc = "connect" => stream = <<>>
  /\ agentPc \in {"connect", "write"} => arrived = 0
  /\ agentPc = "read" =>
       /\ "end" \notin Letters(response)
       /\ arrived < MAX_RESPONSE_BYTES

\* Nothing more of the answer would be read: the head ended, the buffer is full,
\* or the peer closed.
ReadIsOver ==
  \/ "end" \in Letters(response)
  \/ arrived >= MAX_RESPONSE_BYTES
  \/ arrived = Len(stream)

\* A verdict compares a buffer that nothing would be added to, and a refused
\* connection has no peer.
VerdictIsOfBuffer ==
  /\ agentPc = "match" => ReadIsOver
  /\ agentPc # "done" => answer = "none"
  /\ answer = "Present" => Matches(response)
  /\ answer = "Absent" => stream = <<>> \/ (ReadIsOver /\ ~Matches(response))

\* The inductive invariant behind VerdictIsExplained.
AgentInv == AgentTypeOK /\ BufferIsPrefix /\ VerdictIsOfBuffer

\* What the peer said, however it was cut: the head of its stream.
PeerMatches == \E e \in DOMAIN stream : MatchingHead(stream, e)

\* "A connection alone creates no finding": a finding means that the peer sent
\* the status, the upgrade headers and the answer to the key, whatever the
\* sizes of the reads (local_agent.rs:69-155).
PresentIsReal == answer = "Present" => PeerMatches

\* The last read ended between the two halves of a character.
CutsCharacter ==
  arrived \in 1 .. Len(stream) - 1 /\ stream[arrived] = "lead"

\* A matching peer that was reached reads as absent only when its head does not
\* fit the buffer, when it sent bytes that are no text, or when the bytes behind
\* its head were cut inside a character (local_agent.rs:69-121).
AbsentIsExplained ==
  answer = "Absent" /\ PeerMatches =>
    \/ ~IsText(stream)
    \/ \A e \in DOMAIN stream : EndsHead(stream, e) => e > MAX_RESPONSE_BYTES
    \/ CutsCharacter /\ \E e \in 1 .. arrived : EndsHead(stream, e)

\* What is reported was sent, and what is not reported was not sent or could not be
\* read. How TCP cut the answer changes the verdict in one way only: a cut inside a
\* character that follows the head in the same read hides a peer that matches
\* (local_agent.rs:69-155). No other split does.
VerdictIsExplained == PresentIsReal /\ AbsentIsExplained

\* The probe returns, even from a peer that accepts and stays silent, or that
\* answers one byte at a time (local_agent.rs:45-107).
ProbeEnds == agentPc = "connect" ~> agentPc = "done"

\* "The response must match the HTTP upgrade status, the upgrade headers, and
\* the answer for the fixed RFC 6455 key" (docs/plan/04): a peer whose text head
\* does, and that was read, is reported, however its answer was cut.
MatchingPeerReported ==
  answer = "Absent" =>
    ~\E e \in DOMAIN stream : /\ e <= MAX_RESPONSE_BYTES
                              /\ MatchingHead(stream, e)
                              /\ IsText(SubSeq(stream, 1, e))
=============================================================================
