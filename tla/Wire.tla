-------------------------------- MODULE Wire --------------------------------
(***************************************************************************)
(* One connection with a peer, byte by byte: the socket of connect.cpp,    *)
(* the messages of BitTorrentMessage.cpp, their reading in                 *)
(* PeerConnection::receiveMessage, and the bit field that bitField and     *)
(* have messages leave behind (utils.cpp).  PeerConnection has the same    *)
(* connection in outline, with many threads.                               *)
(*                                                                         *)
(* TCP keeps the order of the bytes and nothing else: a recv gets any      *)
(* number of those that were sent.  The peer sends what it likes from      *)
(* Messages, closes, or breaks the connection off.                         *)
(*                                                                         *)
(* Numbers have IntBytes bytes instead of 4, bytes have ByteBits bits      *)
(* instead of 8, and a handshake has 3 bytes instead of 68: the protocol,  *)
(* the info hash, the peer's identifier.                                   *)
(***************************************************************************)
EXTENDS Integers, Sequences

CONSTANTS
    ByteBits, IntBytes,
    NumPieces,
    Messages,    \* the messages the peer may send
    MaxSent      \* bound: how many it sends

(* 2 ^ n.                                                                  *)
Power2[n \in Nat] == IF n = 0 THEN 1 ELSE 2 * Power2[n - 1]

Base == Power2[ByteBits]
Byte == 0 .. Base - 1
Piece == 0 .. NumPieces - 1

(* MessageId, and what BitTorrentMessage makes of keepAlive = -1.          *)
have == 4
bitField == 5
keepAlive == Base - 1
MaxId == 10

ASSUME WidthAssumption == ByteBits \in Nat \ {0} /\ IntBytes \in Nat \ {0} /\ keepAlive > MaxId
(* The number of a piece fits in a message.                                *)
Numbers == 0 .. Power2[ByteBits * IntBytes] - 1
ASSUME PiecesAssumption == NumPieces \in Nat /\ Piece \subseteq Numbers /\ MaxSent \in Nat

(* What the peer means: a message of some kind, about some pieces; size is *)
(* the number of bytes it spends on a bit field, enough for the pieces it  *)
(* has.  (closeSock would leave the entry of a peer with an empty one      *)
(* behind.)                                                                *)
ASSUME MessagesAssumption ==
    /\ Messages \subseteq [id : Byte, pieces : SUBSET Piece, size : Nat]
    /\ \A m \in Messages : m.id = bitField =>
          m.size > 0 /\ \A i \in m.pieces : i \div ByteBits < m.size
    /\ \A m \in Messages : m.id = have => \E i \in Piece : m.pieces = {i}

VARIABLES
    phase,       \* how far PeerConnection::start has come with this peer
    loc,         \* the call it is in
    open,        \* the socket is open
    expected, buffer,   \* receiveData's expected_size, and what it has read
    received,    \* the messages receiveMessage has returned
    field,       \* the peer's entry in PieceManager::peers
    proc,        \* the process runs, was killed, or its behaviour is undefined
    sent,        \* the messages the peer has sent
    greeted,     \* it has sent its handshake
    queue,       \* the bytes it has sent that have not been read
    end,         \* what it has done to the connection
    provoked     \* data was sent to a peer that had closed

readVars == <<expected, buffer>>
clientVars == <<phase, loc, open, readVars, received, field, proc>>
peerVars == <<sent, greeted, end, provoked>>
vars == <<clientVars, peerVars, queue>>

Init ==
    /\ phase = "connect" /\ loc = "connect" /\ open = FALSE
    /\ expected = 0 /\ buffer = <<>>
    /\ received = <<>> /\ field = <<>> /\ proc = "running"
    /\ sent = <<>> /\ greeted = FALSE /\ queue = <<>>
    /\ end = "open" /\ provoked = FALSE

-----------------------------------------------------------------------------
(* Numbers and bit fields in bytes.                                        *)

(* Big-endian, as htonl and the loop of BitTorrentMessage::to_string.      *)
ToBytes(n) == [i \in 1 .. IntBytes |-> (n \div Power2[ByteBits * (IntBytes - i)]) % Base]

ToInt(bytes) ==
    LET value[k \in 0 .. Len(bytes)] == IF k = 0 THEN 0 ELSE value[k - 1] * Base + bytes[k]
    IN value[Len(bytes)]

(* The largest int; bytesToInt is stoi of a binary number.                 *)
IntLimit == Power2[ByteBits * IntBytes - 1]
StoiThrows(bytes) == bytes = <<>> \/ ToInt(bytes) >= IntLimit

Bit(byte, offset) == (byte \div Power2[ByteBits - 1 - offset]) % 2

(* One byte past its end a std::string has its terminator.                 *)
hasPiece(bits, index) ==
    LET byteIndex == index \div ByteBits IN
    byteIndex < Len(bits) /\ Bit(bits[byteIndex + 1], index % ByteBits) = 1

(* Mutant: = for |=.                                                       *)
setPiece_Assigns(bits, index) ==
    [bits EXCEPT ![index \div ByteBits + 1] = Power2[ByteBits - 1 - (index % ByteBits)]]

setPiece(bits, index) ==
    [bits EXCEPT ![index \div ByteBits + 1] =
        IF Bit(@, index % ByteBits) = 1 THEN @ ELSE @ + Power2[ByteBits - 1 - (index % ByteBits)]]

(* setPiece does not look at the length.                                   *)
OutOfField(bits, index) == index \div ByteBits >= Len(bits)

-----------------------------------------------------------------------------
(* Messages.                                                               *)

(* BitTorrentMessage::to_string.                                           *)
toString(id, payload) == ToBytes(Len(payload) + 1) \o <<id>> \o payload

(* What the protocol has for a message: of a bit field, the first bit of   *)
(* the first byte for the first piece.                                     *)
FieldByte(pieces, k) ==
    LET bits[i \in 0 .. ByteBits] ==
            IF i = 0 THEN 0
            ELSE 2 * bits[i - 1] + IF k * ByteBits + i - 1 \in pieces THEN 1 ELSE 0
    IN bits[ByteBits]

Payload(m) ==
    CASE m.id = bitField -> [k \in 1 .. m.size |-> FieldByte(m.pieces, k - 1)]
      [] m.id = have -> ToBytes(CHOOSE i \in m.pieces : TRUE)
      [] OTHER -> <<>>

Frame(m) == IF m.id = keepAlive THEN ToBytes(0) ELSE toString(m.id, Payload(m))

(* No message is longer than its length prefix can say.                    *)
ASSUME PrefixAssumption == \A m \in Messages : Len(Payload(m)) + 1 \in Numbers

(* createHandshakeMessage, of either side.                                 *)
HandshakeSize == 3
ourHash == 1
Handshake(hash) == <<0, hash, 0>>

-----------------------------------------------------------------------------
(* The client's calls.                                                     *)

At(place) == proc = "running" /\ loc = place

(* An exception.  establishNewConnection catches it and returns false: the *)
(* socket stays open.  start catches it and closes socket and entry.       *)
Throw ==
    /\ loc' = "end"
    /\ IF phase = "loop" THEN phase' = "closed" /\ open' = FALSE /\ field' = <<>>
       ELSE phase' = "failed" /\ UNCHANGED <<open, field>>

(* createConnection.  A connection that fails, or takes more than ten      *)
(* seconds, is closed; with an address that is none, or if fcntl fails,    *)
(* the socket is left open.                                                *)
CreateConnection ==
    /\ At("connect")
    /\ \/ phase' = "handshake" /\ loc' = "send" /\ open' = TRUE
       \/ phase' = "failed" /\ loc' = "end" /\ open' \in BOOLEAN
    /\ UNCHANGED <<readVars, received, field, proc, peerVars, queue>>

(* sendData: the handshake, the interested message or a request.           *)
SendData ==
    /\ At("send")
    /\ end \in {"open", "fin"}
    /\ \/ /\ phase = "handshake"
          /\ loc' = "body" /\ expected' = HandshakeSize
          /\ UNCHANGED phase
       \/ /\ phase \in {"interested", "loop"}
          /\ phase' = "loop" /\ loc' = "prefix"
          /\ UNCHANGED expected
    /\ buffer' = <<>>
    /\ provoked' = (provoked \/ end = "fin")
    /\ UNCHANGED <<open, received, field, proc, sent, greeted, end, queue>>

(* The connection is known to be broken.  If the peer had closed it before *)
(* it answered with a reset, the error is a broken pipe and comes with     *)
(* SIGPIPE, which nothing handles; otherwise send returns -1.              *)
SendFails ==
    /\ At("send")
    /\ \/ end = "aborted" /\ Throw /\ UNCHANGED proc
       \/ end = "reset" /\ proc' = "killed" /\ UNCHANGED <<phase, loc, open, field>>
    /\ UNCHANGED <<readVars, received, peerVars, queue>>

(* What one recv of at most n bytes can get.                               *)
Chunks(n) == {SubSeq(queue, 1, k) : k \in 1 .. IF n < Len(queue) THEN n ELSE Len(queue)}
Read(bytes) == queue' = SubSeq(queue, Len(bytes) + 1, Len(queue))

(* receiveData(sock, 0): the length prefix, by a single recv.  A length    *)
(* that is negative as an int throws too, in std::vector.                  *)
RecvPrefix ==
    /\ At("prefix")
    /\ \E chunk \in Chunks(IntBytes) :
          /\ Read(chunk)
          /\ \/ /\ Len(chunk) < IntBytes \/ ToInt(chunk) >= IntLimit
                /\ Throw
                /\ UNCHANGED <<readVars, received>>
             \/ /\ Len(chunk) = IntBytes /\ ToInt(chunk) = 0
                /\ received' = Append(received, [id |-> keepAlive, payload |-> <<>>])
                /\ Throw                 \* its identifier is above MaxId
                /\ UNCHANGED readVars
             \/ /\ Len(chunk) = IntBytes /\ ToInt(chunk) \in 1 .. IntLimit - 1
                /\ expected' = ToInt(chunk) /\ buffer' = <<>>
                /\ loc' = "body"
                /\ UNCHANGED <<phase, open, received, field>>
    /\ UNCHANGED <<proc, peerVars>>

(* Mutant: recv is not told how much of the message is there.              *)
RecvBody_AsksForAll ==
    /\ At("body")
    /\ \E chunk \in Chunks(expected) :
          /\ Read(chunk)
          /\ buffer' = buffer \o chunk
    /\ loc' = IF Len(buffer') >= expected THEN "handle" ELSE "body"
    /\ UNCHANGED <<phase, open, expected, received, field, proc, peerVars>>

(* The loop of receiveData.                                                *)
RecvBody ==
    /\ At("body")
    /\ \E chunk \in Chunks(expected - Len(buffer)) :
          /\ Read(chunk)
          /\ buffer' = buffer \o chunk
    /\ loc' = IF Len(buffer') >= expected THEN "handle" ELSE "body"
    /\ UNCHANGED <<phase, open, expected, received, field, proc, peerVars>>

(* recv returns 0 or -1, after everything that arrived has been read.      *)
RecvFails ==
    /\ At("prefix") \/ At("body")
    /\ queue = <<>> /\ end # "open"
    /\ Throw
    /\ UNCHANGED <<readVars, received, proc, peerVars, queue>>

(* The end of performHandshake.                                            *)
CheckHandshake ==
    /\ At("handle") /\ phase = "handshake"
    /\ \/ buffer[2] = ourHash /\ phase' = "bitfield" /\ loc' = "prefix" /\ UNCHANGED <<open, field>>
       \/ buffer[2] # ourHash /\ Throw
    /\ buffer' = <<>> /\ UNCHANGED <<expected, received, proc, peerVars, queue>>

Message == [id |-> buffer[1], payload |-> Tail(buffer)]

(* Mutant: whatever comes first is taken for a bit field.                  *)
ReceiveBitField_AnyMessage ==
    /\ At("handle") /\ phase = "bitfield"
    /\ received' = Append(received, Message)
    /\ field' = Message.payload
    /\ phase' = "interested" /\ loc' = "send"
    /\ buffer' = <<>> /\ UNCHANGED <<open, expected, proc, peerVars, queue>>

(* receiveBitField, after which interested is sent.                        *)
ReceiveBitField ==
    /\ At("handle") /\ phase = "bitfield"
    /\ received' = Append(received, Message)
    /\ \/ /\ Message.id = bitField
          /\ field' = Message.payload
          /\ phase' = "interested" /\ loc' = "send"
          /\ UNCHANGED open
       \/ Message.id # bitField /\ Throw
    /\ buffer' = <<>> /\ UNCHANGED <<expected, proc, peerVars, queue>>

(* The switch of start, and perhaps a request.                             *)
HandleMessage ==
    /\ At("handle") /\ phase = "loop"
    /\ received' = Append(received, Message)
    /\ \/ /\ \/ Message.id = bitField /\ field' = Message.payload
             \/ Message.id \in 0 .. MaxId \ {bitField, have} /\ UNCHANGED field
             \/ /\ Message.id = have /\ ~StoiThrows(Message.payload)
                /\ ~OutOfField(field, ToInt(Message.payload))
                /\ field' = setPiece(field, ToInt(Message.payload))
          /\ loc' \in {"prefix", "send"}
          /\ UNCHANGED <<phase, open, proc>>
       \/ /\ Message.id = have /\ ~StoiThrows(Message.payload)
          /\ OutOfField(field, ToInt(Message.payload))
          /\ proc' = "undefined"
          /\ UNCHANGED <<phase, loc, open, field>>
       \/ /\ Message.id > MaxId \/ (Message.id = have /\ StoiThrows(Message.payload))
          /\ Throw
          /\ UNCHANGED proc
    /\ buffer' = <<>> /\ UNCHANGED <<expected, peerVars, queue>>

-----------------------------------------------------------------------------
(* The peer and the network.                                               *)

Connected == proc = "running" /\ open /\ phase # "connect" /\ end = "open"

PeerGreets(hash) ==
    /\ Connected /\ ~greeted
    /\ greeted' = TRUE
    /\ queue' = queue \o Handshake(hash)
    /\ UNCHANGED <<clientVars, sent, end, provoked>>

PeerSends(m) ==
    /\ Connected /\ greeted /\ Len(sent) < MaxSent
    /\ sent' = Append(sent, m)
    /\ queue' = queue \o Frame(m)
    /\ UNCHANGED <<clientVars, greeted, end, provoked>>

(* The peer closes; what it sent before still arrives.                     *)
PeerCloses ==
    /\ Connected
    /\ end' = "fin"
    /\ UNCHANGED <<clientVars, sent, greeted, provoked, queue>>

(* Its system answers with a reset to what comes after that.               *)
PeerResets ==
    /\ proc = "running" /\ end = "fin" /\ provoked
    /\ end' = "reset"
    /\ UNCHANGED <<clientVars, sent, greeted, provoked, queue>>

(* The connection breaks: what is under way is lost.                       *)
ConnectionBreaks ==
    /\ Connected
    /\ end' = "aborted"
    /\ \E n \in 0 .. Len(queue) : queue' = SubSeq(queue, 1, n)
    /\ UNCHANGED <<clientVars, sent, greeted, provoked>>

Client ==
    \/ CreateConnection \/ SendData \/ SendFails \/ RecvPrefix \/ RecvBody \/ RecvFails
    \/ CheckHandshake \/ ReceiveBitField \/ HandleMessage

Peer ==
    \/ \E hash \in {ourHash, ourHash + 1} : PeerGreets(hash)
    \/ \E m \in Messages : PeerSends(m)
    \/ PeerCloses \/ PeerResets \/ ConnectionBreaks

Next == Client \/ Peer

WireSpec == Init /\ [][Next]_vars

-----------------------------------------------------------------------------
(* Properties.                                                             *)

WireTypeOK ==
    /\ phase \in {"connect", "handshake", "bitfield", "interested", "loop", "failed", "closed"}
    /\ loc \in {"connect", "send", "prefix", "body", "handle", "end"}
    /\ open \in BOOLEAN /\ greeted \in BOOLEAN /\ provoked \in BOOLEAN
    /\ expected \in Nat
    /\ buffer \in Seq(Byte) /\ queue \in Seq(Byte) /\ field \in Seq(Byte)
    /\ received \in Seq([id : Byte, payload : Seq(Byte)])
    /\ proc \in {"running", "killed", "undefined"}
    /\ sent \in Seq(Messages)
    /\ end \in {"open", "fin", "reset", "aborted"}

(* However TCP cuts the bytes into pieces, and however the connection      *)
(* ends, receiveMessage returns the messages the peer sent: the first      *)
(* ones, in their order, whole.                                            *)
DeliveredInOrder ==
    /\ Len(received) <= Len(sent)
    /\ \A k \in DOMAIN received :
          received[k] = [id |-> sent[k].id, payload |-> Payload(sent[k])]

(* The pieces the peer has announced in the messages that were received:   *)
(* by its last bit field, and one by one after that.                       *)
Announced ==
    LET got == SubSeq(sent, 1, Len(received)) IN
    {i \in Piece : \E k \in DOMAIN got :
        /\ got[k].id \in {bitField, have} /\ i \in got[k].pieces
        /\ got[k].id = have => \E j \in 1 .. k : got[j].id = bitField
        /\ \A j \in k + 1 .. Len(got) : got[j].id # bitField}

(* While the peer is known, hasPiece says of each piece, at each place in  *)
(* a byte and whatever the length of the bit field, whether it is one the  *)
(* peer has announced.                                                     *)
FieldIsAnnounced ==
    phase \in {"interested", "loop"} /\ proc = "running" =>
        \A i \in Piece : hasPiece(field, i) <=> i \in Announced

-----------------------------------------------------------------------------
(* Announcements: what the client takes the peer to have.                  *)

Knows ==
    IF proc # "running" \/ phase \in {"failed", "closed"} THEN "gone"
    ELSE IF phase \in {"interested", "loop"} THEN "pieces"
    ELSE "nothing"

KnownPieces == IF Knows = "pieces" THEN {i \in Piece : hasPiece(field, i)} ELSE {}

Heard == INSTANCE Announcements
    WITH said <- sent, heard <- Len(received), knows <- Knows, pieces <- KnownPieces

(* Of all that sockets, framing and bit operations do there remains that   *)
(* the client hears the messages one by one in the order in which they     *)
(* were sent, has exactly the pieces of a bit field, adds the one of a     *)
(* have message, and forgets everything when it leaves.                    *)
ImplementsAnnouncements == Heard!Spec
=============================================================================
