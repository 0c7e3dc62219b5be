-------------------------- MODULE PacketParsingProofs --------------------------
(* No parser reads beyond the packet, both computations of the payload       *)
(* agree, names lie where they should and parsing ends: for packets of any   *)
(* length and any values of the lengths in them.                             *)
EXTENDS PacketParsing, TLAPS

TLSStage == {"hello", "session", "cipher", "compression", "extensions", "extension"}

(* Where the headers end. *)
HeaderEnd == IF protocol = "tcp" THEN 14 + 4 * ihl + 4 * dataOffset ELSE 14 + 4 * ihl + 8

HeaderInv ==
    /\ stage \in HeaderStage => extractor = "none" /\ scan = 0 /\ name = Nothing
    /\ stage = "ipv4" => offset = 14 /\ 14 <= len
    /\ stage = "transport" =>
          /\ protocol # "none" /\ 5 <= ihl
          /\ offset = 14 + 4 * ihl /\ offset <= len
    /\ stage \in {"payload", "job"} =>
          /\ protocol # "none" /\ 5 <= ihl /\ (protocol = "tcp" => 5 <= dataOffset)
          /\ offset = HeaderEnd /\ offset <= len
    /\ stage = "job" => parsed = IF offset < len THEN <<offset, len - offset>> ELSE Nothing
    /\ stage \in {"inspect"} \cup ExtractStage =>
          /\ job = parsed
          /\ job[2] > 0 => 42 <= job[1] /\ job[1] + job[2] = len

(* What the extractors are given: the payload, or for TLS inside QUIC the    *)
(* bytes from five before the byte tried.                                    *)
InputInv ==
    stage \in ExtractStage =>
        /\ job[2] > 0
        /\ stage \in TLSStage => extractor \in {"tls", "quic"}
        /\ stage = "quic" => extractor = "quic"
        /\ stage = "http" => extractor = "http"
        /\ stage \in {"query", "label"} => extractor = "dns"
        /\ IF extractor = "quic" /\ stage \in TLSStage
           THEN /\ 1 <= scan /\ scan + 50 < job[2]
                /\ base = job[1] + scan - 5 /\ length = job[2] - scan + 5
           ELSE base = job[1] /\ length = job[2]

CursorInv ==
    /\ stage = "session" => 9 <= length
    /\ stage \in TLSStage \ {"hello"} => 43 <= offset
    /\ stage = "extension" => offset <= end /\ end <= length
    /\ stage = "label" => 12 <= offset
    /\ stage \in ExtractStage \ {"label"} => name = Nothing
    /\ stage = "label" /\ name # Nothing =>
          name[1] = base + 13 /\ name[2] = base + offset /\ offset <= length /\ 13 <= offset

IInv == TypeOK /\ HeaderInv /\ InputInv /\ CursorInv /\ InBounds /\ NameInside

LEMMA InitInv == Init => IInv
BY ParsingAssumption DEF Init, IInv, TypeOK, HeaderInv, InputInv, CursorInv, InBounds, NameInside,
   HeaderStage, ExtractStage, TLSStage, Nothing

LEMMA StepInv == IInv /\ [Next]_vars => IInv'
<1> SUFFICES ASSUME IInv, [Next]_vars PROVE IInv'
  OBVIOUS
<1> USE ParsingAssumption DEF IInv, TypeOK, HeaderInv, InputInv, CursorInv, InBounds, NameInside,
        HeaderStage, ExtractStage, TLSStage, HeaderEnd, Nothing, headers, input, Reads, GoTo, Keep,
        NotFound, Found
<1>1. CASE Ethernet
  BY <1>1 DEF Ethernet, Reject
<1>2. CASE IPv4
  BY <1>2 DEF IPv4, Reject
<1>3. CASE TCP
  BY <1>3 DEF TCP, Reject
<1>4. CASE UDP
  BY <1>4 DEF UDP, Reject
<1>5. CASE Payload
  BY <1>5 DEF Payload
<1>6. CASE CreatePacketJob
  BY <1>6 DEF CreatePacketJob, PayloadOffset, Transport
<1>7. CASE NoPayload
  BY <1>7 DEF NoPayload, Reject
<1>8. ASSUME NEW kind \in {"tls", "quic", "http", "dns"}, Inspect(kind) PROVE IInv'
  BY <1>8 DEF Inspect, First
<1>9. CASE Hello
  BY <1>9 DEF Hello
<1>10. CASE SessionId
  BY <1>10 DEF SessionId
<1>11. CASE CipherSuites
  BY <1>11 DEF CipherSuites
<1>12. CASE Compression
  BY <1>12 DEF Compression
<1>13. CASE Extensions
  BY <1>13 DEF Extensions
<1>14. CASE Extension
  BY <1>14 DEF Extension, NextExtension, ServerName, NameFits
<1>15. CASE Quic
  BY <1>15 DEF Quic
<1>16. CASE Http
  BY <1>16 DEF Http
<1>17. CASE Query
  BY <1>17 DEF Query
<1>18. CASE Label
  BY <1>18 DEF Label, LabelFits
<1>19. CASE UNCHANGED vars
  BY <1>19 DEF vars
<1> QED
  BY <1>1, <1>2, <1>3, <1>4, <1>5, <1>6, <1>7, <1>8, <1>9, <1>10, <1>11, <1>12, <1>13, <1>14, <1>15, <1>16, <1>17, <1>18, <1>19 DEF Next

LEMMA Invariant == Spec => []IInv
BY InitInv, StepInv, PTL DEF Spec

(* Every position, length and name keeps its type. *)
THEOREM TypeCorrect == Spec => []TypeOK
<1>1. IInv => TypeOK
  BY DEF IInv
<1> QED
  BY Invariant, <1>1, PTL

(* No byte is read that was not captured (packet_parser.cpp,                 *)
(* sni_extractor.cpp, dpi_engine.cpp:270).                                   *)
THEOREM InBoundsCorrect == Spec => []InBounds
<1>1. IInv => InBounds
  BY DEF IInv
<1> QED
  BY Invariant, <1>1, PTL

(* createPacketJob finds the payload where the parser found it.              *)
THEOREM OffsetsAgreeCorrect == Spec => []OffsetsAgree
<1>1. IInv => OffsetsAgree
  BY DEF IInv, HeaderInv, OffsetsAgree
<1> QED
  BY Invariant, <1>1, PTL

(* A name is made of bytes of the payload, a TLS name of bytes of the        *)
(* extensions.                                                               *)
THEOREM NameInsideCorrect == Spec => []NameInside
<1>1. IInv => NameInside
  BY DEF IInv
<1> QED
  BY Invariant, <1>1, PTL

(* Every step gets further: parsing ends for every packet.                   *)
LEMMA StepProgress == IInv /\ [Next]_vars => [Progress]_vars
<1> SUFFICES ASSUME IInv, [Next]_vars PROVE [Progress]_vars
  OBVIOUS
<1> USE ParsingAssumption DEF IInv, TypeOK, HeaderInv, InputInv, CursorInv, HeaderStage, ExtractStage,
        TLSStage, Nothing, headers, input, Reads, GoTo, Keep, NotFound, Found, Progress, Order
<1>1. CASE Ethernet
  BY <1>1 DEF Ethernet, Reject
<1>2. CASE IPv4
  BY <1>2 DEF IPv4, Reject
<1>3. CASE TCP
  BY <1>3 DEF TCP, Reject
<1>4. CASE UDP
  BY <1>4 DEF UDP, Reject
<1>5. CASE Payload
  BY <1>5 DEF Payload
<1>6. CASE CreatePacketJob
  BY <1>6 DEF CreatePacketJob, PayloadOffset, Transport
<1>7. CASE NoPayload
  BY <1>7 DEF NoPayload, Reject
<1>8. ASSUME NEW kind \in {"tls", "quic", "http", "dns"}, Inspect(kind) PROVE Progress
  BY <1>8 DEF Inspect, First
<1>9. CASE Hello
  BY <1>9 DEF Hello
<1>10. CASE SessionId
  BY <1>10 DEF SessionId
<1>11. CASE CipherSuites
  BY <1>11 DEF CipherSuites
<1>12. CASE Compression
  BY <1>12 DEF Compression
<1>13. CASE Extensions
  BY <1>13 DEF Extensions
<1>14. CASE Extension
  BY <1>14 DEF Extension, NextExtension, ServerName, NameFits
<1>15. CASE Quic
  BY <1>15 DEF Quic
<1>16. CASE Http
  BY <1>16 DEF Http
<1>17. CASE Query
  BY <1>17 DEF Query
<1>18. CASE Label
  BY <1>18 DEF Label, LabelFits
<1> QED
  BY <1>1, <1>2, <1>3, <1>4, <1>5, <1>6, <1>7, <1>8, <1>9, <1>10, <1>11, <1>12, <1>13, <1>14, <1>15, <1>16, <1>17, <1>18 DEF Next

THEOREM ProgressCorrect == Spec => AlwaysProgress
BY Invariant, StepProgress, PTL DEF Spec, AlwaysProgress
=============================================================================
