---------------------------- MODULE CapturedPacket ----------------------------
(***************************************************************************)
(* A captured packet, from its bytes to its TCP options (packet.cc,          *)
(* ethernet_packet.cc, ip_packet.cc, tcp_packet.cc): each layer takes its    *)
(* header off, if that was captured, and hands the rest on.  The capture     *)
(* ends anywhere from the first byte of the link header to the last one of   *)
(* the payload or, in a short frame that was received, of the padding.      *)
(*                                                                         *)
(* IP headers have no options here.  An operator X_fault is a faulty         *)
(* variant of X for the runs.                                              *)
(***************************************************************************)
EXTENDS TcpHeader

CONSTANTS Frames,      \* [link, ip, tcp, padded]: what lies around the headers with options
          OtherFrames  \* and around OtherHeaders

IpHeaderLen == 20    \* sizeof(struct ip)
MinFrame == 60       \* to which Ethernet pads what is shorter

\* Ethernet and Linux-cooked headers are known, others are not taken off.
LinkHeaderLen(link) == CASE link = "ethernet" -> 14 [] link = "cooked" -> 16 [] OTHER -> 0

ASSUME FrameAssumption ==
    Frames \cup OtherFrames \subseteq
        [link : {"ethernet", "cooked", "other"}, ip : BOOLEAN, tcp : BOOLEAN,
         padded : BOOLEAN]

VARIABLES frame,       \* of the packet: fixed
          caplen,      \* bytes of it that were captured: fixed
          layer        \* to be parsed: "link", "ip", "tcp", or "none": tcp() is null

packetVars == <<vars, frame, caplen, layer>>

\* The bytes on the wire.
FrameLen(f, h) ==
    LET len == LinkHeaderLen(f.link) + IpHeaderLen + h.len
    IN  IF f.padded /\ len < MinFrame THEN MinFrame ELSE len

-----------------------------------------------------------------------------
IpCapLen == caplen - LinkHeaderLen(frame.link)

EthernetPacket ==
    /\ layer = "link"
    /\ layer' = IF frame.link # "other" /\ frame.ip /\ IpCapLen > 0 THEN "ip" ELSE "none"
    /\ UNCHANGED <<vars, frame, caplen>>

TcpCapLen_with_header == IpCapLen
TcpCapLen == IpCapLen - IpHeaderLen

IpPacket ==
    /\ layer = "ip"
    /\ \/ /\ frame.tcp /\ TcpCapLen > 0
          /\ layer' = "tcp" /\ header' = [header EXCEPT !.caplen = TcpCapLen]
       \/ /\ ~frame.tcp \/ TcpCapLen <= 0
          /\ layer' = "none" /\ UNCHANGED header
    /\ UNCHANGED <<pc, used, facts, is_bogus, unknown_option_size, frame, caplen>>

TcpPacket ==
    /\ layer = "tcp"
    /\ Next
    /\ UNCHANGED <<frame, caplen, layer>>

CapturedInit ==
    /\ \/ header \in OtherHeaders /\ frame \in Frames \cup OtherFrames
       \/ \E options \in OptionLists, payload \in Payloads :
             header = Packet(options, payload, 0) /\ frame \in Frames
    /\ layer = "link"
    /\ caplen \in 0 .. FrameLen(frame, header)
    /\ Unparsed

CapturedNext == EthernetPacket \/ IpPacket \/ TcpPacket

\* The parser runs on its own: nothing it waits for can fail to come.
CapturedSpec == CapturedInit /\ [][CapturedNext]_packetVars /\ WF_packetVars(CapturedNext)

-----------------------------------------------------------------------------
(***************************************************************************)
(* What a sender writes: options that say their size and fill the header,   *)
(* at most one SACK option, and fields that are in order, in a frame that   *)
(* can be read.                                                            *)
(***************************************************************************)
Sizes(o) == IF o.kind = SACK THEN o.bytes \in {10, 18, 26, 34}
            ELSE (o.kind = MAXSEG => o.bytes = 4) /\ (o.kind = TIMESTAMP => o.bytes = 10)

\* The bytes captured behind the fixed TCP header.
Shown == caplen - LinkHeaderLen(frame.link) - IpHeaderLen - HeaderLen

WellFormed ==
    /\ frame.link # "other" /\ frame.ip /\ frame.tcp
    /\ Shown >= 0 /\ ~CheckBogus
    /\ OptLen = StartOf(header.options, Len(header.options) + 1)
    /\ \A o \in ToSet(header.options) : o.kind # EOL /\ Sizes(o)
                                        /\ o.bytes = IF o.kind = NOP THEN 1 ELSE o.size
    /\ \A j, k \in DOMAIN header.options :
          header.options[j].kind = SACK /\ header.options[k].kind = SACK => j = k

\* A packet of which nothing behind the header was captured.
HeaderOnly == Shown <= OptLen

\* So many bytes of the k-th option were captured.
Bytes(k) == Shown - StartOf(header.options, k)

OfKind(kind) == { k \in DOMAIN header.options : header.options[k].kind = kind }

(***************************************************************************)
(* "packets with invalid header settings" (tcp_packet.h:172) are bogus: a    *)
(* well-formed header never is because of where the capture cut it.         *)
(***************************************************************************)
CutIsNotBogus == WellFormed /\ HeaderOnly => ~is_bogus

(***************************************************************************)
(* Each option counts as far as it was captured, wherever it stands and     *)
(* whatever is beside it: the timestamp with its kind, the segment size     *)
(* with all bytes, the number of SACK blocks with its size, a block with    *)
(* all of its own.                                                         *)
(***************************************************************************)
OptionsAsCaptured ==
    pc = "done" /\ WellFormed /\ HeaderOnly /\ Shown >= 2 =>
        /\ timestamp_ok = (\E k \in OfKind(TIMESTAMP) : Bytes(k) >= 1)
        /\ mss_opt_value = 1 <=> \E k \in OfKind(MAXSEG) : Bytes(k) >= 4
        /\ \A k \in OfKind(SACK) :
              /\ num_sacks = IF Bytes(k) >= 2 THEN header.options[k].bytes \div 8 ELSE 0
              /\ blocks = Cardinality({ b \in 1 .. 4 : /\ b <= header.options[k].bytes \div 8
                                                       /\ Bytes(k) >= 2 + 8 * b })

(***************************************************************************)
(* unknown_option_size_ counts the bytes of the options from the first one   *)
(* on of which kind and size were not both captured (tcp_packet.cc:109-125): *)
(* that option counts whole, also if its kind was captured and read; all     *)
(* options count if fewer than two bytes were (tcp_packet.cc:78-81), and    *)
(* none in a header that was captured to its end.                           *)
(*                                                                         *)
(* This is what the code does, not what the comment at tcp_packet.h:202-204  *)
(* says: "the bytes about which we don't know anything (i.e. not even the    *)
(* option kind)" would leave out an option of which just the kind is known.  *)
(***************************************************************************)
UnknownFromFirstCut ==
    LET known(k) == Bytes(k) >= IF header.options[k].kind = NOP THEN 1 ELSE 2
        hidden == { k \in DOMAIN header.options : Shown < 2 \/ ~known(k) }
        from == CHOOSE k \in hidden : \A j \in hidden : k <= j
    IN  pc = "done" /\ WellFormed /\ HeaderOnly =>
            unknown_option_size =
                IF hidden = {} THEN 0 ELSE OptLen - StartOf(header.options, from)

(***************************************************************************)
(* An ACK that carries SACK blocks never passes for one without: if none of *)
(* its blocks was captured, their number was, or at least the 10 bytes are  *)
(* unknown that make it a SACK lookalike (tcp_endpoint.cc:488).              *)
(***************************************************************************)
SackNotOverlooked ==
    pc = "done" /\ WellFormed /\ HeaderOnly /\ OfKind(SACK) # {} =>
        num_sacks > 0 \/ unknown_option_size >= 10

(***************************************************************************)
(* Every packet is parsed to its end, malformed and truncated headers and   *)
(* any payload behind them as well, as each turn of the loop gets further;  *)
(* and none that is well-formed is taken for no TCP packet.                 *)
(***************************************************************************)
Parsed ==
    /\ <>(layer = "none" \/ pc = "done")
    /\ WellFormed ~> pc = "done"

(***************************************************************************)
(* A well-formed header is not bogus, whatever was captured behind it:      *)
(* payload and padding are no part of the "header settings"                 *)
(* (tcp_packet.h:172).                                                     *)
(***************************************************************************)
WhatFollowsIsNotBogus == WellFormed => ~is_bogus
==============================================================================
