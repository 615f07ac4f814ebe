--------------------------- MODULE MCCapturedPacket ---------------------------
(***************************************************************************)
(* Packets for CapturedPacket: options of every kind in every order, with    *)
(* wrong sizes as well, captured up to any byte; headers that are bogus in   *)
(* each of the ways that CheckBogus knows; and frames of every kind.        *)
(***************************************************************************)
EXTENDS CapturedPacket

Pad == Option(NOP, 0, 1)
MSS == Option(MAXSEG, 4, 4)
Scale == Option(3, 3, 3)
Stamp == Option(TIMESTAMP, 10, 10)
Sacks(n) == Option(SACK, 2 + 8 * n, 2 + 8 * n)
End == Option(EOL, 0, 1)
NoSize == Option(30, 0, 2)
TooLong == Option(30, 60, 2)
OddSacks == Option(SACK, 11, 11)

Layouts(kinds, n) ==
    { o \in UNION { [1 .. k -> kinds] : k \in 0 .. n } :
        StartOf(o, Len(o) + 1) <= 40 /\ StartOf(o, Len(o) + 1) % 4 = 0 }

MCOptionLists ==
    Layouts({ Pad, Scale, MSS, Stamp, Sacks(1), Sacks(2) }, 4)
        \cup Layouts({ Pad, Stamp, End, NoSize, TooLong, OddSacks }, 3)

Plain == Packet(<< Pad, Pad, Stamp >>, 2, 32)

FieldsWrong ==
    { [Plain EXCEPT !.caplen = 10], [Plain EXCEPT !.offset = 16], [Plain EXCEPT !.len = 24],
      [Plain EXCEPT !.ports = FALSE], [Plain EXCEPT !.ack = 0],
      [Plain EXCEPT !.flags = {"SYN"}], [Plain EXCEPT !.flags = {"SYN", "FIN"}] }

FieldsRight ==
    { [Plain EXCEPT !.flags = f] : f \in { {"ACK", "PSH"}, {"FIN", "ACK"}, {"RST"},
                                          {"ACK", "PSH", "URG"}, {"SYN", "ECE", "CWR"} } }

MCOtherHeaders == FieldsWrong \cup FieldsRight

MCJunk == { [kind |-> 0, size |-> 0], [kind |-> NOP, size |-> 0], [kind |-> SACK, size |-> 10],
              [kind |-> 72, size |-> 2], [kind |-> MAXSEG, size |-> 200] }

Frame(link, ip, tcp, padded) == [link |-> link, ip |-> ip, tcp |-> tcp, padded |-> padded]

Received == Frame("ethernet", TRUE, TRUE, TRUE)

MCFrames == { Received }

MCOtherFrames ==
    { Frame("ethernet", TRUE, TRUE, FALSE), Frame("cooked", TRUE, TRUE, FALSE),
      Frame("ethernet", FALSE, TRUE, FALSE), Frame("ethernet", TRUE, FALSE, FALSE),
      Frame("other", TRUE, TRUE, FALSE) }

\* A packet with few options, whose frame is padded with zeros.
ShortOptions == { << MSS >> }
Zeros == { [kind |-> 0, size |-> 0] }
===============================================================================
