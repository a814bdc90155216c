---------------------------- MODULE FrameParser ----------------------------
(***************************************************************************)
(* DpdkReceiver's parsers, which find the UDP payload of an Ethernet       *)
(* frame: parseFast for untagged IPv4 without options, which hands every   *)
(* other frame to parseGeneral.                                            *)
(*                                                                         *)
(* A frame has its length and the header fields the parsers look at: tags  *)
(* is the number of VLAN tags and ip whether the type behind them is IPv4. *)
(* A parser is the sequence of its checks in the order of the code.  The   *)
(* first that fails decides; reads is how much of the frame must be there  *)
(* for a check to look at the fields it tests.                             *)
(***************************************************************************)
EXTENDS Integers, Sequences, FiniteSetsExt

Ether == 14   \* sizeof(rte_ether_hdr)
Vlan  == 4    \* sizeof(rte_vlan_hdr)
Ipv4  == 20   \* sizeof(rte_ipv4_hdr) without options
Udp   == 8    \* sizeof(rte_udp_hdr)
MaxPayload == 2048   \* SequencedPacket::kMaxPacketSize

\* The values the fields of a frame may have.
IsFrame(f) ==
  /\ f.len \in Nat /\ f.tags \in Nat /\ f.version \in Nat /\ f.ihl \in Nat
  /\ f.total \in Nat /\ f.udpLen \in Nat
  /\ {f.ip, f.fragment, f.udp} \subseteq BOOLEAN

\* EndpointFilter::matches; a line that is not configured is not enabled.
Matches(end, f) == end.enabled /\ f.port = end.port /\ end.ip \in {"any", f.dst}

\* The line a frame is for, line A before line B.
LineOf(f, ends) ==
  IF Matches(ends.a, f) THEN "a" ELSE IF Matches(ends.b, f) THEN "b" ELSE "none"

Check(reads, fails, verdict) == [reads |-> reads, fails |-> fails, verdict |-> verdict]

\* Mutant of FastChecks: a frame needs to hold the IPv4 header only.
FastChecksShort(f, ends) ==
  << Check(0,     f.len < Ether,                                  "Malformed"),
     Check(Ether, f.tags > 0 \/ ~f.ip,                            "General"),
     Check(Ether, f.len < Ether + Ipv4,                           "Malformed"),
     Check(Ether + Ipv4, f.version # 4 \/ f.ihl # 5,              "General"),
     Check(Ether + Ipv4, f.total < Ipv4 \/ Ether + f.total > f.len, "Malformed"),
     Check(Ether + Ipv4, f.fragment,                              "Malformed"),
     Check(Ether + Ipv4, ~f.udp,                                  "Filtered"),
     Check(Ether + Ipv4 + Udp, f.udpLen < Udp \/ Ipv4 + f.udpLen > f.total, "Malformed"),
     Check(0, f.udpLen - Udp > MaxPayload,                        "Malformed"),
     Check(0, LineOf(f, ends) = "none",                           "Filtered") >>

\* parseFast.
FastChecks(f, ends) ==
  << Check(0,     f.len < Ether,                                  "Malformed"),
     Check(Ether, f.tags > 0 \/ ~f.ip,                            "General"),
     Check(Ether, f.len < Ether + Ipv4 + Udp,                     "Malformed"),
     Check(Ether + Ipv4, f.version # 4 \/ f.ihl # 5,              "General"),
     Check(Ether + Ipv4, f.total < Ipv4 + Udp \/ Ether + f.total > f.len, "Malformed"),
     Check(Ether + Ipv4, f.fragment,                              "Malformed"),
     Check(Ether + Ipv4, ~f.udp,                                  "Filtered"),
     Check(Ether + Ipv4 + Udp, f.udpLen < Udp \/ Ipv4 + f.udpLen > f.total, "Malformed"),
     Check(0, f.udpLen - Udp > MaxPayload,                        "Malformed"),
     Check(0, LineOf(f, ends) = "none",                           "Filtered") >>

\* The IPv4 header is behind at most two VLAN tags.
Ipv4Offset(f) == Ether + Vlan * Min({f.tags, 2})

UdpOffset(f) == Ipv4Offset(f) + 4 * f.ihl

\* parseGeneral.
GeneralChecks(f, ends) ==
  LET off == Ipv4Offset(f)
  IN  << Check(0, f.len < Ether,                                  "Malformed"),
         Check(Ether, f.tags >= 1 /\ Ether + Vlan > f.len,        "Malformed"),
         Check(IF f.tags >= 1 THEN Ether + Vlan ELSE Ether,
               f.tags >= 2 /\ Ether + 2 * Vlan > f.len,           "Malformed"),
         Check(off, f.tags > 2 \/ ~f.ip,                          "Filtered"),
         Check(off, off + Ipv4 > f.len,                           "Malformed"),
         Check(off + Ipv4, f.version # 4 \/ 4 * f.ihl < Ipv4,     "Malformed"),
         Check(off + Ipv4, UdpOffset(f) > f.len,                  "Malformed"),
         Check(off + Ipv4, f.total < 4 * f.ihl \/ off + f.total > f.len, "Malformed"),
         Check(off + Ipv4, f.fragment,                            "Malformed"),
         Check(off + Ipv4, ~f.udp,                                "Filtered"),
         Check(off + Ipv4, UdpOffset(f) + Udp > f.len,            "Malformed"),
         Check(UdpOffset(f) + Udp, f.udpLen < Udp,                "Malformed"),
         Check(0, 4 * f.ihl + f.udpLen > f.total,                 "Malformed"),
         Check(0, f.udpLen - Udp > MaxPayload,                    "Malformed"),
         Check(0, LineOf(f, ends) = "none",                       "Filtered") >>

FirstFailing(checks) ==
  LET failing == {i \in 1 .. Len(checks) : checks[i].fails}
  IN  IF failing = {} THEN 0 ELSE Min(failing)

Verdict(checks) ==
  LET i == FirstFailing(checks) IN IF i = 0 THEN "Accepted" ELSE checks[i].verdict

\* A ParsedPacket; one that is not accepted has no payload and no line.
Parsed(verdict, payload, f, ends, fast) ==
  IF verdict = "Accepted"
    THEN [status |-> verdict, payload |-> payload, size |-> f.udpLen - Udp,
          line |-> LineOf(f, ends), fast |-> fast]
    ELSE [status |-> verdict, payload |-> 0, size |-> 0, line |-> "none", fast |-> fast]

ParseGeneral(f, ends) ==
  Parsed(Verdict(GeneralChecks(f, ends)), UdpOffset(f) + Udp, f, ends, FALSE)

ParseFast(f, ends) ==
  LET verdict == Verdict(FastChecks(f, ends))
  IN  IF verdict = "General" THEN ParseGeneral(f, ends)
      ELSE Parsed(verdict, Ether + Ipv4 + Udp, f, ends, TRUE)

\* parse: a frame in several segments is not looked at.
Parse(f, ends) ==
  IF ~f.contiguous THEN Parsed("Malformed", 0, f, ends, FALSE) ELSE ParseFast(f, ends)
-----------------------------------------------------------------------------
\* The checks a parser makes read no further than the frame goes.
ReadsInside(f, checks) ==
  LET i == FirstFailing(checks)
  IN  \A j \in 1 .. (IF i = 0 THEN Len(checks) ELSE i) : checks[j].reads <= f.len

\* What the parsers promise about a frame: neither reads past its end, the
\* fast path accepts exactly what the general parser accepts, with the same
\* payload on the same line, and the payload lies in the frame.
Sound(f, ends) ==
  LET fast    == ParseFast(f, ends)
      general == ParseGeneral(f, ends)
  IN  /\ ReadsInside(f, FastChecks(f, ends))
      /\ ReadsInside(f, GeneralChecks(f, ends))
      /\ (fast.status = "Accepted") <=> (general.status = "Accepted")
      /\ fast.status = "Accepted" =>
           /\ fast.payload = general.payload /\ fast.size = general.size
           /\ fast.line = general.line
           /\ fast.size <= MaxPayload
           /\ fast.payload + fast.size <= f.len
=============================================================================
