-------------------------------- MODULE Ax25 ---------------------------------
(***************************************************************************)
(* ax25.cpp: addresses and packets of AX.25, as sequences of bytes.        *)
(*                                                                         *)
(* A packet is parsed with nothing but its minimum length checked.  What   *)
(* lies behind the end of one that is too short for its own addresses is   *)
(* undefined: `behind' stands for it.                                      *)
(***************************************************************************)
EXTENDS Integers, Sequences, SequencesExt, FiniteSets, FiniteSetsExt

Bit(b) == IF b THEN 1 ELSE 0

-----------------------------------------------------------------------------
\* ax25_address(bytes): it ends at a bit 0 in the callsign, with what it has
\* got so far; at a zero or a space the callsign ends.
Address(b) ==
    LET marked == {i \in 1..6 : b[i] % 2 = 1}
        whole  == marked = {}
        before == 1..(IF whole THEN 6 ELSE Min(marked) - 1)
        blank  == {i \in before : b[i] \div 2 \in {0, 32}}
        length == IF blank = {} THEN Cardinality(before) ELSE Min(blank) - 1
    IN  [valid    |-> whole,
         address  |-> [i \in 1..length |-> b[i] \div 2],
         ssid     |-> IF whole THEN 48 + ((b[7] \div 2) % 16) ELSE 48,
         end_mark |-> whole /\ b[7] % 2 = 1,
         repeated |-> whole /\ b[7] >= 128]

\* ax25_address(callsign, ssid, end_mark, repeated): ssid is set to true.
MadeAddress(callsign, end_mark, repeated) ==
    [valid |-> TRUE, address |-> callsign, ssid |-> 1, end_mark |-> end_mark,
     repeated |-> repeated]

(* Deliberately wrong variants, used to show that the properties bite. *)
GenerateAddress_Unshifted(a) ==
    [i \in 1..6 |-> IF i <= Len(a.address) THEN a.address[i] ELSE 32]
    \o <<2 * a.ssid + Bit(a.end_mark) + 128 * Bit(a.repeated)>>

\* generate_address(): six characters at most, filled up with spaces.
GenerateAddress(a) ==
    [i \in 1..6 |-> 2 * (IF i <= Len(a.address) THEN a.address[i] ELSE 32) % 256]
    \o <<2 * a.ssid + Bit(a.end_mark) + 128 * Bit(a.repeated)>>

-----------------------------------------------------------------------------
NoPid == -1

(* Deliberately wrong variants. *)
Packet_OneRepeater(in, behind) ==
    LET read   == in \o behind
        to     == Address(SubSeq(read, 1, 7))
        from   == Address(SubSeq(read, 8, 14))
        offset == IF from.end_mark THEN 14 ELSE 21
        type   == read[offset + 1] % 4
        start  == offset + 1 + Bit(type \in {0, 1}) + Bit(type \in {0, 3})
    IN  [to |-> to.address, from |-> from.address,
         pid  |-> IF type \in {0, 3} THEN read[start] ELSE NoPid,
         data |-> IF start < Len(in) - 1 THEN SubSeq(in, start + 1, Len(in))
                                         ELSE <<>>]

\* ax25(in): the assignments of `to' and `from' make both valid, whatever they
\* were; of the repeaters two are read, and one that is not valid ends it.
Packet(in, behind) ==
    LET read   == in \o behind
        to     == Address(SubSeq(read, 1, 7))
        from   == Address(SubSeq(read, 8, 14))
        first  == Address(SubSeq(read, 15, 21))
        second == Address(SubSeq(read, 22, 28))
        seen_by == IF from.end_mark THEN <<>>
                   ELSE IF first.end_mark \/ ~first.valid THEN <<first>>
                   ELSE <<first, second>>
        offset == 14 + 7 * Len(seen_by)
        type   == read[offset + 1] % 4
        start  == offset + 1 + Bit(type \in {0, 1}) + Bit(type \in {0, 3})
    IN  IF \E i \in DOMAIN seen_by : ~seen_by[i].valid
        THEN [to |-> to.address, from |-> from.address, pid |-> NoPid, data |-> <<>>]
        ELSE [to |-> to.address, from |-> from.address,
              pid  |-> IF type \in {0, 3} THEN read[start] ELSE NoPid,
              data |-> IF start < Len(in) - 1 THEN SubSeq(in, start + 1, Len(in))
                                              ELSE <<>>]

\* generate_packet() of an unnumbered frame without repeaters, the only kind
\* that is made.
GeneratePacket(to, from, control, pid, data) ==
    GenerateAddress(to) \o GenerateAddress(from) \o <<control, pid>> \o data
=============================================================================
