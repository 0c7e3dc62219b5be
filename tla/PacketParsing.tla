----------------------------- MODULE PacketParsing -----------------------------
(* What the parsers of one packet read and where they take a name from:      *)
(* PacketParser::parse (src/packet_parser.cpp), the offsets the engine        *)
(* computes a second time in createPacketJob (src/dpi_engine.cpp), and the   *)
(* TLS, QUIC, HTTP and DNS extractors (src/sni_extractor.cpp).  A packet is   *)
(* its length; a byte that decides something is chosen when it is read, any  *)
(* other is only known to be read.  Positions count from the first byte of   *)
(* the packet.                                                               *)
EXTENDS Integers

CONSTANTS
    Length,  (* lengths of captured packets                                    *)
    Nibble,  (* values of a header length in words                             *)
    Octet,   (* values of a length of one byte                                 *)
    Short    (* values of a length of two bytes                                *)

(* Their ranges, 0..15, 0..255 and 0..65535, are not needed.                 *)
ASSUME ParsingAssumption ==
    /\ Length \subseteq Nat /\ Nibble \subseteq Nat
    /\ Octet \subseteq Nat /\ Short \subseteq Nat

VARIABLES
    stage,    (* what is parsed next                                           *)
    len,      (* raw.data.size()                                               *)
    offset,   (* in the headers: offset; in an extractor: its offset           *)
    ihl, dataOffset,  (* header lengths of IPv4 and TCP, in words              *)
    protocol, (* what the packet turned out to be                              *)
    parsed,   (* payload position and length in ParsedPacket                   *)
    job,      (* the same in PacketJob                                         *)
    base, length,     (* the bytes the extractor was given                     *)
    end,      (* extensions_end                                                *)
    scan,     (* position of the QUIC and HTTP searches                        *)
    extractor,
    read,     (* history: the last bytes read, from read[1] up to read[2]      *)
    name      (* history: the bytes the name was taken from, if any            *)

headers == <<len, ihl, dataOffset, protocol, parsed, job>>
input == <<base, length, scan, extractor>>
vars == <<stage, headers, offset, input, end, read, name>>

Nothing == <<0, 0>>
HeaderStage == {"ethernet", "ipv4", "transport", "payload", "job", "inspect"}
ExtractStage == {"hello", "session", "cipher", "compression", "extensions", "extension",
                 "quic", "http", "query", "label"}

TypeOK ==
    /\ stage \in HeaderStage \cup ExtractStage \cup {"done"}
    /\ len \in Length /\ offset \in Nat
    /\ ihl \in Nibble \cup {5} /\ dataOffset \in Nibble \cup {5}
    /\ protocol \in {"none", "tcp", "udp"}
    /\ parsed \in Nat \X Nat /\ job \in Nat \X Nat
    /\ base \in Nat /\ length \in Nat /\ end \in Nat /\ scan \in Nat
    /\ extractor \in {"none", "tls", "quic", "http", "dns"}
    /\ read \in Nat \X Nat /\ name \in Nat \X Nat

Init ==
    /\ stage = "ethernet" /\ len \in Length /\ offset = 0
    /\ ihl = 5 /\ dataOffset = 5 /\ protocol = "none"
    /\ parsed = Nothing /\ job = Nothing
    /\ base = 0 /\ length = 0 /\ end = 0 /\ scan = 0 /\ extractor = "none"
    /\ read = Nothing /\ name = Nothing

-----------------------------------------------------------------------------
(* PacketParser::parse.  A packet that is too short, malformed, or neither   *)
(* TCP nor UDP over IPv4 goes no further.                                    *)
Reject == stage' = "done" /\ UNCHANGED <<headers, offset, input, end, read, name>>

Ethernet ==
    /\ stage = "ethernet"
    /\ \/ Reject
       \/ /\ len >= 14
          /\ read' = <<0, 14>> /\ offset' = 14 /\ stage' = "ipv4"
          /\ UNCHANGED <<headers, input, end, name>>

(* Mutant of IPv4: the header length is kept in bytes. *)
IPv4InBytes ==
    /\ stage = "ipv4"
    /\ \/ Reject
       \/ \E words \in Nibble, p \in {"tcp", "udp"} :
             /\ len >= offset + 20
             /\ 4 * words >= 20 /\ len >= offset + 4 * words
             /\ read' = <<offset, offset + 20>>
             /\ ihl' = 4 * words /\ protocol' = p
             /\ offset' = offset + 4 * words
             /\ stage' = "transport"
             /\ UNCHANGED <<len, dataOffset, parsed, job, input, end, name>>

IPv4 ==
    /\ stage = "ipv4"
    /\ \/ Reject
       \/ \E words \in Nibble, p \in {"tcp", "udp"} :
             /\ len >= offset + 20
             /\ 4 * words >= 20 /\ len >= offset + 4 * words
             /\ read' = <<offset, offset + 20>>
             /\ ihl' = words /\ protocol' = p
             /\ offset' = offset + 4 * words
             /\ stage' = "transport"
             /\ UNCHANGED <<len, dataOffset, parsed, job, input, end, name>>

TCP ==
    /\ stage = "transport" /\ protocol = "tcp"
    /\ \/ Reject
       \/ \E words \in Nibble :
             /\ len >= offset + 20
             /\ 4 * words >= 20 /\ len >= offset + 4 * words
             /\ read' = <<offset, offset + 14>>
             /\ dataOffset' = words
             /\ offset' = offset + 4 * words
             /\ stage' = "payload"
             /\ UNCHANGED <<len, ihl, protocol, parsed, job, input, end, name>>

UDP ==
    /\ stage = "transport" /\ protocol = "udp"
    /\ \/ len < offset + 8 /\ Reject
       \/ /\ len >= offset + 8
          /\ read' = <<offset, offset + 4>>
          /\ offset' = offset + 8
          /\ stage' = "payload"
          /\ UNCHANGED <<headers, input, end, name>>

Payload ==
    /\ stage = "payload"
    /\ parsed' = IF offset < len THEN <<offset, len - offset>> ELSE Nothing
    /\ stage' = "job"
    /\ UNCHANGED <<len, ihl, dataOffset, protocol, job, offset, input, end, read, name>>

-----------------------------------------------------------------------------
(* createPacketJob: the offsets again, from the same bytes. *)
Transport == 14 + 4 * ihl

(* Mutant of PayloadOffset: an IPv4 header without options. *)
PayloadOffsetPlain == IF protocol = "tcp" THEN 34 + 4 * dataOffset ELSE 34 + 8

PayloadOffset ==
    CASE len > Transport /\ protocol = "tcp" -> Transport + 4 * dataOffset
      [] len > 14 /\ protocol = "udp" -> Transport + 8
      [] OTHER -> 0

CreatePacketJob ==
    /\ stage = "job"
    /\ read' = IF protocol = "tcp" /\ len > Transport THEN <<Transport, Transport + 13>>
               ELSE IF len > 14 THEN <<14, 15>> ELSE read
    /\ job' = IF len > 14 /\ PayloadOffset < len THEN <<PayloadOffset, len - PayloadOffset>>
              ELSE Nothing
    /\ stage' = "inspect"
    /\ UNCHANGED <<len, ihl, dataOffset, protocol, parsed, offset, input, end, name>>

(* The extractors the fast path and the capture loop may call, by port,      *)
(* protocol and length.  None keeps anything for the next: one is followed.  *)
First == [tls |-> "hello", quic |-> "quic", http |-> "http", dns |-> "query"]

Inspect(kind) ==
    /\ stage = "inspect" /\ job[2] > 0
    /\ kind = "quic" => protocol = "udp"
    /\ extractor' = kind /\ stage' = First[kind]
    /\ base' = job[1] /\ length' = job[2] /\ offset' = 0 /\ scan' = 0
    /\ UNCHANGED <<headers, end, read, name>>

NoPayload == stage = "inspect" /\ job[2] = 0 /\ Reject

-----------------------------------------------------------------------------
Reads(from, upto) == read' = <<base + from, base + upto>>
GoTo(next, at) == stage' = next /\ offset' = at
Keep == UNCHANGED <<headers, input>>

(* No name here: the TLS and HTTP extractors give up; the QUIC search goes   *)
(* on behind the byte it tried.                                              *)
NotFound ==
    /\ IF extractor = "quic"
       THEN /\ stage' = "quic" /\ scan' = scan + 1
            /\ base' = job[1] /\ length' = job[2]
       ELSE stage' = "done" /\ UNCHANGED <<scan, base, length>>
    /\ UNCHANGED <<headers, extractor, end, name>>

Found(from, upto) == name' = <<base + from, base + upto>>

(* SNIExtractor::isTLSClientHello, and the fields of fixed length behind it. *)
Hello ==
    /\ stage = "hello"
    /\ \/ NotFound /\ UNCHANGED <<offset, read>>
       \/ /\ length >= 9
          /\ \E record \in Short : record <= length - 5
          /\ Reads(0, 9) /\ GoTo("session", 5 + 4 + 2 + 32)
          /\ Keep /\ UNCHANGED <<end, name>>

(* Session id, cipher suites and compression methods: a length and as many   *)
(* bytes.                                                                    *)
SessionId ==
    /\ stage = "session"
    /\ \/ offset >= length /\ NotFound /\ UNCHANGED <<offset, read>>
       \/ \E n \in Octet :
             /\ offset < length
             /\ Reads(offset, offset + 1) /\ GoTo("cipher", offset + 1 + n)
             /\ Keep /\ UNCHANGED <<end, name>>

(* Mutant of CipherSuites: one byte of two is known to be there. *)
CipherSuitesShort ==
    /\ stage = "cipher"
    /\ \/ offset >= length /\ NotFound /\ UNCHANGED <<offset, read>>
       \/ \E n \in Short :
             /\ offset < length
             /\ Reads(offset, offset + 2) /\ GoTo("compression", offset + 2 + n)
             /\ Keep /\ UNCHANGED <<end, name>>

CipherSuites ==
    /\ stage = "cipher"
    /\ \/ offset + 2 > length /\ NotFound /\ UNCHANGED <<offset, read>>
       \/ \E n \in Short :
             /\ offset + 2 <= length
             /\ Reads(offset, offset + 2) /\ GoTo("compression", offset + 2 + n)
             /\ Keep /\ UNCHANGED <<end, name>>

Compression ==
    /\ stage = "compression"
    /\ \/ offset >= length /\ NotFound /\ UNCHANGED <<offset, read>>
       \/ \E n \in Octet :
             /\ offset < length
             /\ Reads(offset, offset + 1) /\ GoTo("extensions", offset + 1 + n)
             /\ Keep /\ UNCHANGED <<end, name>>

Extensions ==
    /\ stage = "extensions"
    /\ \/ offset + 2 > length /\ NotFound /\ UNCHANGED <<offset, read>>
       \/ \E n \in Short :
             /\ offset + 2 <= length
             /\ Reads(offset, offset + 2) /\ GoTo("extension", offset + 2)
             /\ end' = IF offset + 2 + n > length THEN length ELSE offset + 2 + n
             /\ Keep /\ UNCHANGED name

(* Mutant of NextExtension: the cursor stays where it is. *)
NextExtensionStuck(n) ==
    /\ Reads(offset, offset + 4) /\ GoTo("extension", offset + n)
    /\ Keep /\ UNCHANGED <<end, name>>

(* An extension of another type is skipped. *)
NextExtension(n) ==
    /\ Reads(offset, offset + 4) /\ GoTo("extension", offset + 4 + n)
    /\ Keep /\ UNCHANGED <<end, name>>

(* Mutant of NameFits: the five bytes before the name are forgotten. *)
NameFitsLoosely(n, size) == size <= n

NameFits(n, size) == size <= n - 5

(* The first extension of type SNI decides. *)
ServerName(n) ==
    /\ \/ NotFound /\ Reads(offset, offset + 4)
       \/ n >= 5 /\ NotFound /\ Reads(offset, offset + 9)
       \/ \E size \in Short :
             /\ n >= 5 /\ NameFits(n, size)
             /\ Reads(offset, offset + 9) /\ Found(offset + 9, offset + 9 + size)
             /\ stage' = "done"
             /\ Keep /\ UNCHANGED end
    /\ UNCHANGED offset

Extension ==
    /\ stage = "extension"
    /\ \/ offset + 4 > end /\ NotFound /\ UNCHANGED <<offset, read>>
       \/ \E n \in Short :
             /\ offset + 4 <= end
             /\ \/ /\ offset + 4 + n > end /\ NotFound
                   /\ Reads(offset, offset + 4) /\ UNCHANGED offset
                \/ offset + 4 + n <= end /\ (NextExtension(n) \/ ServerName(n))

-----------------------------------------------------------------------------
(* QUICSNIExtractor: at a byte 0x01 the TLS extractor is tried five bytes    *)
(* before it.  The first byte is no such byte: it has the bit of a long      *)
(* header.                                                                   *)
Quic ==
    /\ stage = "quic"
    /\ \/ /\ length < 5 \/ scan + 50 >= length \/ scan = 0
          /\ stage' = "done" /\ UNCHANGED <<read, base, length, scan>>
       \/ /\ length >= 5 /\ scan + 50 < length
          /\ stage' = "quic" /\ scan' = scan + 1
          /\ Reads(scan, scan + 5) /\ UNCHANGED <<base, length>>
       \/ /\ scan > 0 /\ scan + 50 < length
          /\ stage' = "hello"
          /\ base' = base + scan - 5 /\ length' = length - scan + 5
          /\ Reads(scan, scan + 1) /\ UNCHANGED scan
    /\ UNCHANGED <<headers, offset, extractor, end, name>>

(* HTTPHostExtractor: the search for "Host:", and then the line behind it    *)
(* without its leading blanks and from its first colon on.  A line with      *)
(* nothing in it is passed over.                                             *)
Http ==
    /\ stage = "http"
    /\ \/ /\ length < 4 \/ scan + 6 >= length \/ scan = 0
          /\ stage' = "done" /\ UNCHANGED <<read, scan, name>>
       \/ /\ length >= 4 /\ scan + 6 < length
          /\ stage' = "http" /\ scan' = scan + 1
          /\ Reads(scan, scan + 5) /\ UNCHANGED name
       \/ /\ length >= 4 /\ scan + 6 < length
          /\ \E start \in scan + 5..length - 1 : \E upto \in start..length : Found(start, upto)
          /\ Reads(scan, length)
          /\ stage' = "done" /\ UNCHANGED scan
    /\ UNCHANGED <<headers, offset, base, length, extractor, end>>

-----------------------------------------------------------------------------
(* DNSExtractor: the header, of which up to twenty bytes are printed, and    *)
(* the labels of the first question.                                         *)
Query ==
    /\ stage = "query"
    /\ Reads(0, IF length < 20 THEN length ELSE 20)
    /\ \/ GoTo("done", offset)
       \/ length >= 12 /\ GoTo("label", 12)
    /\ Keep /\ UNCHANGED <<end, name>>

LabelFits(n) == n <= 63 /\ offset + 1 + n <= length

(* A name cut short by the end of the packet, or by a length above 63, keeps *)
(* the labels before.                                                        *)
Label ==
    /\ stage = "label"
    /\ \/ /\ offset >= length /\ GoTo("done", offset) /\ UNCHANGED <<read, name>>
       \/ \E n \in Octet :
             /\ offset < length
             /\ \/ /\ n = 0 \/ ~LabelFits(n)
                   /\ Reads(offset, offset + 1)
                   /\ GoTo("done", offset) /\ UNCHANGED name
                \/ /\ n > 0 /\ LabelFits(n)
                   /\ Reads(offset, offset + 1 + n)
                   /\ GoTo("label", offset + 1 + n) /\ Found(13, offset + 1 + n)
    /\ Keep /\ UNCHANGED end

Next ==
    \/ Ethernet \/ IPv4 \/ TCP \/ UDP \/ Payload
    \/ CreatePacketJob \/ NoPayload
    \/ \E kind \in {"tls", "quic", "http", "dns"} : Inspect(kind)
    \/ Hello \/ SessionId \/ CipherSuites \/ Compression \/ Extensions \/ Extension
    \/ Quic \/ Http \/ Query \/ Label

Spec == Init /\ [][Next]_vars

-----------------------------------------------------------------------------
(* No parser and no extractor reads a byte that was not captured, whatever   *)
(* the lengths in the packet say (packet_parser.cpp, sni_extractor.cpp, and  *)
(* dpi_engine.cpp:270, which relies on the parser's test).                   *)
InBounds == read[1] <= read[2] /\ read[2] <= len

(* createPacketJob finds the payload where the parser found it               *)
(* (dpi_engine.cpp:259-281, packet_parser.cpp:48-57).                        *)
OffsetsAgree == stage \in {"inspect"} \cup ExtractStage => job = parsed

(* A name is made of bytes of the payload, and a TLS name of bytes of the    *)
(* extensions (sni_extractor.cpp:95-127).                                    *)
NameInside ==
    name # Nothing =>
        /\ job[1] <= name[1] /\ name[1] <= name[2] /\ name[2] <= len
        /\ extractor \in {"tls", "quic"} => name[2] <= base + end

(* Parsing ends, whatever the lengths in the packet say: every step goes on  *)
(* to a later stage, or forward within the bytes given, or to the next       *)
(* position of a search (sni_extractor.cpp:95, :171, :270, :356).            *)
Order == [ethernet |-> 1, ipv4 |-> 2, transport |-> 3, payload |-> 4, job |-> 5,
          inspect |-> 6, quic |-> 7, http |-> 7, query |-> 7, hello |-> 8, session |-> 9,
          cipher |-> 10, compression |-> 11, extensions |-> 12, extension |-> 13,
          label |-> 13, done |-> 14]

Progress ==
    \/ stage' = "done"
    \/ scan < scan' /\ scan' <= job[2]
    \/ scan' = scan /\ Order[stage] < Order[stage']
    \/ scan' = scan /\ stage' = stage /\ offset < offset' /\ offset' <= length

AlwaysProgress == [][Progress]_vars
=============================================================================
