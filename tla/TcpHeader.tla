------------------------------ MODULE TcpHeader -------------------------------
(***************************************************************************)
(* The parsing of a captured TCP header (tcp_packet.cc): whether the packet *)
(* is bogus, what its options say and how many of their bytes were not      *)
(* captured, from which the endpoint takes SACK lookalikes.                 *)
(*                                                                         *)
(* The header is chosen at the start and the capture ends anywhere, within   *)
(* the options or behind them.  One step is one turn of the loop over the   *)
(* options.  CapturedPacket says what comes of it for a captured packet.    *)
(* An operator X_fault is a faulty variant of X for the runs.               *)
(***************************************************************************)
EXTENDS Integers, Sequences, FiniteSets, SequencesExt

CONSTANTS OptionLists,  \* the options a header may have
          Payloads,     \* bytes of payload behind it
          OtherHeaders, \* headers of which some field is wrong
          Junk          \* what may be met where no option of the header starts

HeaderLen == 20  \* sizeof(struct tcphdr)

\* The kinds of options that are told apart.
EOL == 0
NOP == 1
MAXSEG == 2
SACK == 5
TIMESTAMP == 8

\* An option takes some bytes, and says a size where it is not of one byte.
Option(kind, size, bytes) == [kind |-> kind, size |-> size, bytes |-> bytes]

Byte == 0 .. 255

\* offset is doff in bytes, len and caplen the segment and what of it was captured.
Header == [ports : BOOLEAN, ack : Nat,
           flags : SUBSET {"SYN", "ACK", "FIN", "RST", "PSH", "URG", "ECE", "CWR"},
           options : Seq([kind : Byte, size : Byte, bytes : Nat \ {0}]),
           offset : Nat, len : Nat, caplen : Nat]

ASSUME HeaderAssumption ==
    /\ OptionLists \subseteq Seq([kind : Byte, size : Byte, bytes : Nat \ {0}])
    /\ Payloads \subseteq Nat
    /\ OtherHeaders \subseteq Header
    /\ \A o \in Junk : o.kind \in Byte /\ o.size \in Byte

VARIABLES
    header,              \* of the packet: fixed
    pc,                  \* "new", "options", "cut" or "done"
    used,                \* bytes of the options read
    mss_opt_value,       \* whether the option was read, 0 or 1
    timestamp_ok,
    num_sacks, blocks,   \* SACK blocks the option has, and those that were captured
    is_bogus, unknown_option_size

facts == <<mss_opt_value, timestamp_ok, num_sacks, blocks>>
vars == <<header, pc, used, facts, is_bogus, unknown_option_size>>

OptLen == header.offset - HeaderLen
CapOptLen == header.caplen - HeaderLen
Remaining == CapOptLen - used

StartOf(options, k) == FoldLeft(LAMBDA sum, o : sum + o.bytes, 0, SubSeq(options, 1, k - 1))

\* A packet with these options and payload, captured up to a byte.
Packet(options, payload, caplen) ==
    LET offset == HeaderLen + StartOf(options, Len(options) + 1)
    IN  [ports |-> TRUE, ack |-> 1, flags |-> {"ACK"}, options |-> options,
         offset |-> offset, len |-> offset + payload, caplen |-> caplen]

-----------------------------------------------------------------------------
(***************************************************************************)
(* CheckBogus.                                                             *)
(***************************************************************************)
DataLen == header.len - header.offset

MainFlags == { {"ACK"}, {"SYN"}, {"SYN", "ACK"}, {"FIN", "ACK"}, {"FIN"}, {"RST"}, {"RST", "ACK"} }

CheckBogus ==
    \/ header.offset < HeaderLen \/ header.offset > header.len
    \/ ~header.ports
    \/ "ACK" \in header.flags /\ header.ack = 0
    \/ header.flags = {"SYN"} /\ DataLen > 0
    \/ header.flags \ {"PSH", "URG", "ECE", "CWR"} \notin MainFlags

(***************************************************************************)
(* ParseOptions.  What is found at a place: the option that starts there,    *)
(* or any bytes, in the payload or amid an option whose size was wrong.     *)
(***************************************************************************)
Found ==
    LET at == { k \in DOMAIN header.options : StartOf(header.options, k) = used }
        \* An option of one byte: the next byte is taken for its size, if it has to have one.
        next(k) == IF k < Len(header.options) THEN { header.options[k + 1].kind }
                   ELSE { o.size : o \in Junk }
        reads(k) == IF header.options[k].kind # EOL THEN { header.options[k].size } ELSE next(k)
    IN  IF at = {} THEN { [kind |-> o.kind, size |-> o.size] : o \in Junk }
        ELSE UNION { { [kind |-> header.options[k].kind, size |-> s] : s \in reads(k) } : k \in at }

\* TcpSacks::Parse takes any size, 2 and a multiple of 8, up to 40.
SackSizeFits(size) == size <= 40 /\ (size - 2) % 8 = 0

SmallerOf(a, b) == IF a < b THEN a ELSE b

NoteMSS_any(o) ==
    mss_opt_value' = IF o.kind = MAXSEG THEN 1 ELSE mss_opt_value

NoteMSS(o) ==
    mss_opt_value' = IF o.kind = MAXSEG /\ Remaining >= 4 THEN 1 ELSE mss_opt_value

NoteSacks(o) ==
    /\ num_sacks' = IF o.kind # SACK THEN num_sacks
                    ELSE IF Remaining < 2 THEN 0
                    ELSE IF SackSizeFits(o.size) THEN (o.size - 2) \div 8 ELSE num_sacks
    /\ blocks' = IF o.kind # SACK THEN blocks
                 ELSE IF Remaining >= 2 /\ SackSizeFits(o.size)
                 THEN SmallerOf((Remaining - 2) \div 8, (o.size - 2) \div 8) ELSE 0

Note(o) ==
    /\ NoteMSS(o)
    /\ timestamp_ok' = (timestamp_ok \/ o.kind = TIMESTAMP)
    /\ NoteSacks(o)

SackFails(o) == o.kind = SACK /\ Remaining >= 2 /\ ~SackSizeFits(o.size)

SizeFails_endless(o) == o.size > OptLen
SizeFails(o) == o.size = 0 \/ o.size > OptLen

ReadOption ==
    /\ pc = "options" /\ Remaining > 0
    /\ \E o \in Found :
          LET fails == SackFails(o) \/ (o.kind # NOP /\ Remaining > 1 /\ SizeFails(o))
          IN  /\ Note(o)
              /\ is_bogus' = fails
              /\ pc' = IF fails THEN "done"
                       ELSE IF o.kind # NOP /\ Remaining = 1 THEN "cut" ELSE pc
              /\ used' = IF fails THEN used
                         ELSE IF o.kind = NOP THEN used + 1
                         ELSE IF Remaining = 1 THEN used ELSE used + o.size
    /\ UNCHANGED <<header, unknown_option_size>>

UnknownBytes_unguarded == OptLen - used
UnknownBytes_not_captured == IF CapOptLen < OptLen THEN OptLen - CapOptLen ELSE 0
UnknownBytes == IF used < OptLen THEN OptLen - used ELSE 0

EndOfOptions ==
    /\ pc = "cut" \/ (pc = "options" /\ Remaining <= 0)
    /\ pc' = "done"
    /\ unknown_option_size' = UnknownBytes
    /\ UNCHANGED <<header, used, facts, is_bogus>>

\* Without an option, or without the size of the first one, nothing is read.
UnknownAtOnce_none == 0
UnknownAtOnce == OptLen

Options ==
    \/ /\ OptLen = 0 \/ CapOptLen < 2
       /\ pc' = "done" /\ unknown_option_size' = UnknownAtOnce
    \/ /\ OptLen # 0 /\ CapOptLen >= 2
       /\ pc' = "options" /\ UNCHANGED unknown_option_size

\* The constructor up to the loop.  A header cut short leaves an empty packet.
NewPacket ==
    /\ pc = "new"
    /\ is_bogus' = (header.caplen >= HeaderLen /\ CheckBogus)
    /\ IF header.caplen < HeaderLen \/ CheckBogus
       THEN pc' = "done" /\ UNCHANGED unknown_option_size
       ELSE Options
    /\ UNCHANGED <<header, used, facts>>

Unparsed ==
    /\ pc = "new" /\ used = 0
    /\ mss_opt_value = 0 /\ timestamp_ok = FALSE
    /\ num_sacks = 0 /\ blocks = 0
    /\ is_bogus = FALSE /\ unknown_option_size = 0

Init ==
    /\ \/ header \in OtherHeaders
       \/ \E options \in OptionLists, payload \in Payloads :
             \E caplen \in HeaderLen .. Packet(options, payload, 0).len :
                header = Packet(options, payload, caplen)
    /\ Unparsed

Next == NewPacket \/ ReadOption \/ EndOfOptions

Spec == Init /\ [][Next]_vars

-----------------------------------------------------------------------------
TypeOK ==
    /\ header \in Header
    /\ pc \in {"new", "options", "cut", "done"}
    /\ used \in Nat /\ (used = 0 \/ used < CapOptLen + OptLen)
    /\ mss_opt_value \in {0, 1} /\ timestamp_ok \in BOOLEAN
    /\ num_sacks \in 0 .. 4 /\ blocks \in 0 .. num_sacks
    /\ is_bogus \in BOOLEAN
    /\ unknown_option_size \in {0} \cup 0 .. OptLen
=============================================================================
